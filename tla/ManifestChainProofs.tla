------------------------- MODULE ManifestChainProofs -------------------------
(* Proofs about ManifestChain, for every set of backups, every chain and any  *)
(* number of concurrent operations.                                           *)
EXTENDS ManifestChain, TLAPS, WellFoundedInduction

-----------------------------------------------------------------------------
(* What every operation keeps, whatever runs beside it.                      *)

Deletes == {"delete", "batch", "cascade"}
DeletePhases == {"holds", "scan", "install", "rescan", "rehold", "rollback"}
UndeletePhases == {"preflight", "walk", "unmark", "recheck", "rewalk", "remark"}
HoldPhases == {"look", "get", "puthold", "retomb", "drop"}

\* An operation of a kind goes through the phases of its kind, about a backup.
PhaseInv(p) ==
    /\ kind[p] \in mix \cup {"none"}
    /\ pc[p] = "idle" => kind[p] = "none"
    /\ pc[p] \in DeletePhases => kind[p] \in Deletes
    /\ pc[p] \in UndeletePhases => kind[p] \in {"undelete", "force"}
    /\ pc[p] \in UndeletePhases \ {"unmark"} => kind[p] = "undelete"
    /\ pc[p] \in HoldPhases => kind[p] = "hold"
    /\ pc[p] \in {"put", "parent", "unput"} => kind[p] = "commit"
    /\ pc[p] \notin {"idle", "done"} /\ kind[p] \notin {"delete", "batch"} => target[p] \in Backups
    /\ pc[p] \in {"walk", "rewalk"} => at[p] \in Backups

\* A delete works on its batch, and owns tombstones once it installs.
ListInv(p) ==
    /\ todo[p] \subseteq batch[p] /\ mine[p] \subseteq batch[p]
    /\ pc[p] = "idle" => batch[p] = {}
    /\ pc[p] = "scan" /\ kind[p] = "cascade" => batch[p] = {}
    /\ pc[p] \notin {"install", "rescan", "rehold", "rollback", "done"} => mine[p] = {}
    /\ pc[p] \in {"rescan", "rehold"} => todo[p] = {}

\* An operation tells its outcome when it ends, or while it rolls back.
ResultInv(p) ==
    /\ pc[p] \notin {"done", "rollback"} => res[p] = "none"
    /\ pc[p] = "rollback" => res[p] \in {"none", "undone", "stuck"}

OpInv(p) == PhaseInv(p) /\ ListInv(p) /\ ResultInv(p)

BaseInv == TypeOK /\ \A p \in Ops : OpInv(p)

\* The conjuncts of TypeOK, one by one.
LEMMA OpTypes ==
  ASSUME TypeOK, NEW p \in Ops
  PROVE  /\ kind[p] \in AllKinds \cup {"none"} /\ pc[p] \in Phases
         /\ target[p] \in Backups \cup {0} /\ at[p] \in Backups \cup {0}
         /\ batch[p] \subseteq Backups /\ todo[p] \subseteq Backups /\ mine[p] \subseteq Backups
         /\ req[p] \in Holds \cup {NoHold} /\ hadExisting[p] \in BOOLEAN /\ res[p] \in Results
BY DEF TypeOK

\* The outcome that Return writes.
LEMMA ReturnEffect ==
  ASSUME TypeOK, NEW p \in Ops, NEW r \in Results, Return(p, r)
  PROVE  /\ pc' = [pc EXCEPT ![p] = "done"] /\ reported' = reported
         /\ res' \in [Ops -> Results]
         /\ \A q \in Ops : q # p => res'[q] = res[q]
         /\ res'[p] = IF res[p] \in {"undone", "stuck"} THEN res[p] ELSE r
BY DEF Return, Goto, TypeOK

\* Descendants, and what a step picks next, are backups on the list.
LEMMA PicksFromList ==
  ASSUME NEW p, NEW ids, NEW b \in NextUp(p, ids) PROVE b \in ids
<1>1. CASE kind[p] # "cascade"  BY <1>1 DEF NextUp
<1>2. CASE kind[p] = "cascade" /\ ids \ {target[p]} = {}  BY <1>2 DEF NextUp
<1>3. CASE kind[p] = "cascade" /\ ids \ {target[p]} # {}  BY <1>3 DEF NextUp
<1>. QED  BY <1>1, <1>2, <1>3

\* Init satisfies the base invariant.
LEMMA InitBase == Init => BaseInv
<1>. SUFFICES ASSUME Init PROVE BaseInv  OBVIOUS
<1>. USE DEF Init
<1>1. TypeOK
  <2>1. NoHold \in Holds \cup {NoHold}  OBVIOUS
  <2>. QED  BY <2>1 DEF TypeOK, Phases, Results
<1>2. \A p \in Ops : OpInv(p)
  BY DEF OpInv, PhaseInv, ListInv, ResultInv, DeletePhases, UndeletePhases, HoldPhases
<1>. QED  BY <1>1, <1>2 DEF BaseInv

\* Every step of an operation keeps what operations keep.
LEMMA StepOps ==
  ASSUME BaseInv, NEW p \in Ops, Step(p), NEW q \in Ops
  PROVE  OpInv(q)'
<1>. USE DEF BaseInv, TypeOK, OpInv, PhaseInv, ListInv, ResultInv, Results, Deletes, DeletePhases,
         UndeletePhases, HoldPhases, repo, locals, Goto, Go
<1>1. ASSUME NEW b \in Backups, BeginCommit(p, b) PROVE OpInv(q)'
  BY <1>1 DEF BeginCommit, Begin
<1>2. ASSUME NEW b \in Backups, BeginCascade(p, b) PROVE OpInv(q)'
  BY <1>2 DEF BeginCascade, Begin
<1>3. ASSUME NEW b \in Backups, BeginUndelete(p, b) PROVE OpInv(q)'
  <2>1. CASE Begin(p, "undelete", b, "preflight")
    BY <1>3, <2>1 DEF BeginUndelete, Begin
  <2>2. CASE Begin(p, "force", b, "unmark")
    BY <1>3, <2>2 DEF BeginUndelete, Begin
  <2>. QED  BY <1>3, <2>1, <2>2 DEF BeginUndelete
<1>4. ASSUME NEW ids \in SUBSET Backups, BeginDelete(p, ids) PROVE OpInv(q)'
  <2>1. PICK k \in {"delete", "batch"} : Begin(p, k, 0, "holds")
    BY <1>4 DEF BeginDelete
  <2>. QED  BY <1>4, <2>1 DEF BeginDelete, Begin
<1>5. ASSUME NEW b \in Backups, NEW h \in Holds, BeginHold(p, b, h) PROVE OpInv(q)'
  BY <1>5 DEF BeginHold, Begin
<1>6. CASE CommitPut(p)  BY <1>6, ReturnEffect DEF CommitPut
<1>7. CASE LockFails(p)  BY <1>7 DEF LockFails
<1>8. CASE CheckParent(p)  BY <1>8, ReturnEffect DEF CheckParent
<1>9. CASE Unput(p)  BY <1>9, ReturnEffect DEF Unput
<1>10. CASE CheckHolds(p)  BY <1>10, ReturnEffect DEF CheckHolds
<1>11. CASE Scan(p)  BY <1>11, ReturnEffect DEF Scan, Descendants
<1>12. CASE Install(p)  BY <1>12, PicksFromList DEF Install, LastOne
<1>13. CASE Rescan(p)  BY <1>13 DEF Rescan
<1>14. CASE Rehold(p)  BY <1>14 DEF Rehold
<1>15. CASE Rollback(p)  BY <1>15, ReturnEffect, PicksFromList DEF Rollback
<1>16. CASE Preflight(p)  BY <1>16, ReturnEffect DEF Preflight
<1>17. CASE Walk(p)  BY <1>17, ReturnEffect DEF Walk
<1>18. CASE Unmark(p)  BY <1>18 DEF Unmark
<1>19. CASE Recheck(p)  BY <1>19, ReturnEffect DEF Recheck, WalkAgain
<1>20. CASE Remark(p)  BY <1>20, ReturnEffect DEF Remark
<1>21. CASE LookForHold(p)  BY <1>21, ReturnEffect DEF LookForHold
<1>22. CASE GetHold(p)  BY <1>22, ReturnEffect DEF GetHold
<1>23. CASE PutHold(p)  BY <1>23 DEF PutHold
<1>24. CASE CheckTombstone(p)  BY <1>24, ReturnEffect DEF CheckTombstone
<1>25. CASE DropHold(p)  BY <1>25, ReturnEffect DEF DropHold
<1>26. CASE OpFails(p)  BY <1>26, ReturnEffect DEF OpFails
<1>27. CASE UndoFails(p)  BY <1>27, PicksFromList DEF UndoFails
<1>28. CASE Crash(p)  BY <1>28 DEF Crash
<1>. QED
  BY <1>1, <1>2, <1>3, <1>4, <1>5, <1>6, <1>7, <1>8, <1>9, <1>10, <1>11, <1>12, <1>13, <1>14,
     <1>15, <1>16, <1>17, <1>18, <1>19, <1>20, <1>21, <1>22, <1>23, <1>24, <1>25, <1>26,
     <1>27, <1>28 DEF Step

\* And the types.
LEMMA StepTypes ==
  ASSUME BaseInv, NEW p \in Ops, Step(p)
  PROVE  TypeOK'
<1>. USE ChainAssumption
     DEF BaseInv, TypeOK, Phases, Results, repo, locals, Goto, Go
<1>a. \A q \in Ops : pc'[q] \in {"rescan", "rehold"} => todo'[q] = {} /\ mine'[q] \subseteq batch'[q]
  BY StepOps DEF OpInv, ListInv
<1>b. pc[p] \notin {"idle", "done"} /\ kind[p] \notin {"delete", "batch"} => target[p] \in Backups
  BY DEF OpInv, PhaseInv
<1>c. /\ pc[p] \in UndeletePhases => kind[p] \in {"undelete", "force"}
      /\ pc[p] \in HoldPhases => kind[p] = "hold"
      /\ pc[p] \in {"put", "parent", "unput"} => kind[p] = "commit"
  BY DEF OpInv, PhaseInv
<1>. USE <1>a, <1>b, <1>c DEF UndeletePhases, HoldPhases
<1>1. ASSUME NEW b \in Backups, BeginCommit(p, b) PROVE TypeOK'
  BY <1>1 DEF BeginCommit, Begin, AllKinds
<1>2. ASSUME NEW b \in Backups, BeginCascade(p, b) PROVE TypeOK'
  BY <1>2 DEF BeginCascade, Begin, AllKinds
<1>3. ASSUME NEW b \in Backups, BeginUndelete(p, b) PROVE TypeOK'
  <2>1. CASE Begin(p, "undelete", b, "preflight")
    BY <1>3, <2>1 DEF BeginUndelete, Begin, AllKinds
  <2>2. CASE Begin(p, "force", b, "unmark")
    BY <1>3, <2>2 DEF BeginUndelete, Begin, AllKinds
  <2>. QED  BY <1>3, <2>1, <2>2 DEF BeginUndelete
<1>4. ASSUME NEW ids \in SUBSET Backups, BeginDelete(p, ids) PROVE TypeOK'
  <2>1. PICK k \in {"delete", "batch"} : Begin(p, k, 0, "holds")
    BY <1>4 DEF BeginDelete
  <2>. QED  BY <1>4, <2>1 DEF BeginDelete, Begin, AllKinds
<1>5. ASSUME NEW b \in Backups, NEW h \in Holds, BeginHold(p, b, h) PROVE TypeOK'
  BY <1>5 DEF BeginHold, Begin, AllKinds
<1>6. CASE CommitPut(p)
  <2>1. pc' \in [Ops -> Phases] /\ res' \in [Ops -> Results] /\ reported' = reported
    <3>1. CASE Return(p, "ok")  BY <3>1, ReturnEffect
    <3>2. CASE Go(p, "parent")  BY <3>2
    <3>. QED  BY <1>6, <3>1, <3>2 DEF CommitPut
  <2>2. manifests' \subseteq Backups  BY <1>6 DEF CommitPut
  <2>. QED  BY <1>6, <2>1, <2>2 DEF CommitPut
<1>7. CASE LockFails(p)  BY <1>7 DEF LockFails
<1>8. CASE CheckParent(p)  BY ZenonT(60), <1>8, ReturnEffect DEF CheckParent
<1>9. CASE Unput(p)  BY ZenonT(60), <1>9, ReturnEffect DEF Unput
<1>10. CASE CheckHolds(p)  BY ZenonT(60), <1>10, ReturnEffect DEF CheckHolds
<1>11. CASE Scan(p)
  <2>1. CASE kind[p] = "cascade"
    <3>1. Descendants(target[p]) \cup {target[p]} \in SUBSET Backups
      BY <1>11, <1>b, <2>1 DEF Scan, Descendants
    <3>2. batch' \in [Ops -> SUBSET Backups] /\ todo' \in [Ops -> SUBSET Backups]
      BY <1>11, <2>1, <3>1 DEF Scan
    <3>3. pc' \in [Ops -> Phases] /\ UNCHANGED <<res, reported>>  BY <1>11, <2>1 DEF Scan
    <3>. QED  BY <1>11, <3>2, <3>3 DEF Scan
  <2>2. CASE kind[p] # "cascade"
    <3>1. pc' \in [Ops -> Phases] /\ res' \in [Ops -> Results] /\ reported' = reported
      <4>1. CASE Return(p, "refused")  BY <4>1, ReturnEffect
      <4>2. CASE Go(p, "install")  BY <4>2
      <4>. QED  BY <1>11, <2>2, <4>1, <4>2 DEF Scan
    <3>. QED  BY <1>11, <2>2, <3>1 DEF Scan
  <2>. QED  BY <2>1, <2>2
<1>12. CASE Install(p)
  <2>1. PICK b \in NextUp(p, todo[p]) :
          /\ tombs' = tombs \cup {b}
          /\ todo' = [todo EXCEPT ![p] = @ \ {b}]
          /\ mine' = [mine EXCEPT ![p] = IF TakesBack(p, b) THEN @ \cup {b} ELSE @]
          /\ Go(p, IF LastOne(p, b) THEN "rescan" ELSE "install")
    BY <1>12 DEF Install
  <2>2. b \in Backups  BY PicksFromList
  <2>3. mine' \in [Ops -> SUBSET Backups] /\ pc' \in [Ops -> Phases]  BY <2>1, <2>2
  <2>. QED  BY <1>12, <2>1, <2>2, <2>3 DEF Install
<1>13. CASE Rescan(p)  BY <1>13 DEF Rescan
<1>14. CASE Rehold(p)  BY ZenonT(60), <1>14 DEF Rehold
<1>15. CASE Rollback(p)
  <2>1. CASE mine[p] = {} /\ Return(p, "refused") /\ UNCHANGED <<tombs, mine>>
    <3>1. pc' \in [Ops -> Phases] /\ res' \in [Ops -> Results] /\ reported' = reported
      BY <2>1, ReturnEffect
    <3>. QED  BY <1>15, <2>1, <3>1 DEF Rollback
  <2>2. ASSUME NEW b \in NextUp(p, mine[p]), tombs' = tombs \ {b},
               mine' = [mine EXCEPT ![p] = @ \ {b}], Go(p, "rollback")
        PROVE  TypeOK'
    <3>1. mine' \in [Ops -> SUBSET Backups] /\ pc' \in [Ops -> Phases] /\ tombs' \subseteq Backups
      BY <2>2
    <3>. QED  BY <1>15, <2>2, <3>1 DEF Rollback
  <2>. QED  BY <1>15, <2>1, <2>2 DEF Rollback
<1>16. CASE Preflight(p)  BY ZenonT(60), <1>16, ReturnEffect DEF Preflight
<1>17. CASE Walk(p)  BY <1>17, ReturnEffect DEF Walk
<1>18. CASE Unmark(p)  BY ZenonT(60), <1>18 DEF Unmark
<1>19. CASE Recheck(p)
  <2>1. CASE target[p] \in swept
    <3>1. target[p] \in Backups  BY <1>19, <1>b, <1>c DEF Recheck
    <3>2. Return(p, "refused") /\ tombs' = tombs \cup {target[p]} /\ at' = at
      BY <1>19, <2>1 DEF Recheck
    <3>3. pc' \in [Ops -> Phases] /\ res' \in [Ops -> Results] /\ reported' = reported
      BY <3>2, ReturnEffect
    <3>. QED  BY <1>19, <3>1, <3>2, <3>3 DEF Recheck
  <2>2. CASE target[p] \notin swept
    BY ZenonT(60), <1>19, <2>2 DEF Recheck, WalkAgain
  <2>. QED  BY <2>1, <2>2
<1>20. CASE Remark(p)  BY ZenonT(60), <1>20, ReturnEffect DEF Remark
<1>21. CASE LookForHold(p)  BY ZenonT(60), <1>21, ReturnEffect DEF LookForHold
<1>22. CASE GetHold(p)  BY ZenonT(60), <1>22, ReturnEffect DEF GetHold
<1>23. CASE PutHold(p)  BY <1>23 DEF PutHold
<1>24. CASE CheckTombstone(p)
  <2>1. PICK r \in Results : Return(p, r) \/ Go(p, "drop")
    BY <1>24 DEF CheckTombstone
  <2>2. pc' \in [Ops -> Phases] /\ res' \in [Ops -> Results] /\ reported' = reported
    BY <2>1, ReturnEffect
  <2>. QED  BY <1>24, <2>2 DEF CheckTombstone
<1>25. CASE DropHold(p)  BY ZenonT(60), <1>25, ReturnEffect DEF DropHold
<1>26. CASE OpFails(p)  BY <1>26, ReturnEffect DEF OpFails
<1>27. CASE UndoFails(p)  BY <1>27, PicksFromList DEF UndoFails
<1>28. CASE Crash(p)  BY <1>28 DEF Crash
<1>. QED
  BY <1>1, <1>2, <1>3, <1>4, <1>5, <1>6, <1>7, <1>8, <1>9, <1>10, <1>11, <1>12, <1>13, <1>14,
     <1>15, <1>16, <1>17, <1>18, <1>19, <1>20, <1>21, <1>22, <1>23, <1>24, <1>25, <1>26,
     <1>27, <1>28 DEF Step

\* So does every step of the world around them.
LEMMA WorldBase ==
  ASSUME BaseInv, \/ \E b \in Backups : RemoveHold(b) \/ Lapse(b) \/ GCSweep(b)
                  \/ GCScan
                  \/ UNCHANGED vars
  PROVE  BaseInv'
<1>1. UNCHANGED <<locals, pc, res, reported, mix, manifests, tombs>>
  BY DEF RemoveHold, Lapse, GCSweep, GCScan, vars, repo
<1>2. hold' \in [Backups -> Holds \cup {NoHold}]
  <2>1. ASSUME NEW b \in Backups, Lapse(b) PROVE hold' \in [Backups -> Holds \cup {NoHold}]
    <3>1. hold[b] \in Holds  BY <2>1 DEF Lapse, BaseInv, TypeOK, NoHold
    <3>2. [hold[b] EXCEPT !.until = "lapsed"] \in Holds  BY <3>1 DEF Holds, Until
    <3>. QED  BY <2>1, <3>2 DEF Lapse, BaseInv, TypeOK
  <2>2. ASSUME NEW b \in Backups, RemoveHold(b) PROVE hold' \in [Backups -> Holds \cup {NoHold}]
    BY <2>2 DEF RemoveHold, BaseInv, TypeOK
  <2>3. ASSUME NEW b \in Backups, GCSweep(b) PROVE hold' = hold  BY <2>3 DEF GCSweep
  <2>4. GCScan \/ UNCHANGED vars => hold' = hold  BY DEF GCScan, vars, repo
  <2>. QED  BY <2>1, <2>2, <2>3, <2>4 DEF BaseInv, TypeOK
<1>3. doomed' \subseteq Backups /\ swept' \subseteq Backups
  BY DEF RemoveHold, Lapse, GCSweep, GCScan, vars, repo, BaseInv, TypeOK
<1>. QED  BY <1>1, <1>2, <1>3 DEF BaseInv, OpInv, TypeOK, PhaseInv, ListInv, ResultInv, locals

\* The base invariant is inductive.
LEMMA BaseKept == BaseInv /\ [Next]_vars => BaseInv'
<1>1. ASSUME BaseInv, NEW p \in Ops, Step(p) PROVE BaseInv'
  BY <1>1, StepOps, StepTypes DEF BaseInv
<1>. QED  BY <1>1, WorldBase DEF Next

\* Every variable has its type in every reachable state.
THEOREM TypeCorrect == Spec => []TypeOK
<1>1. Init => BaseInv  BY InitBase
<1>2. BaseInv /\ [Next]_vars => BaseInv'  BY BaseKept
<1>3. BaseInv => TypeOK  BY DEF BaseInv
<1>. QED  BY <1>1, <1>2, <1>3, PTL DEF Spec

-----------------------------------------------------------------------------
(* Who changes what.                                                         *)

\* A step of an operation leaves the other operations alone, and its own kind.
LEMMA Others ==
  ASSUME BaseInv, NEW p \in Ops, Step(p), NEW q \in Ops
  PROVE  /\ mix' = mix
         /\ q # p => /\ pc'[q] = pc[q] /\ kind'[q] = kind[q] /\ target'[q] = target[q]
                     /\ batch'[q] = batch[q] /\ todo'[q] = todo[q] /\ mine'[q] = mine[q]
                     /\ hadExisting'[q] = hadExisting[q] /\ res'[q] = res[q]
         /\ pc[q] # "idle" => kind'[q] = kind[q] /\ target'[q] = target[q] /\ pc'[q] # "idle"
<1>. DEFINE G == /\ mix' = mix
                 /\ q # p => /\ pc'[q] = pc[q] /\ kind'[q] = kind[q] /\ target'[q] = target[q]
                             /\ batch'[q] = batch[q] /\ todo'[q] = todo[q] /\ mine'[q] = mine[q]
                             /\ hadExisting'[q] = hadExisting[q] /\ res'[q] = res[q]
                 /\ pc[q] # "idle" => kind'[q] = kind[q] /\ target'[q] = target[q] /\ pc'[q] # "idle"
<1>. USE DEF BaseInv, TypeOK, Results, repo, locals, Goto, Go
<1>1. ASSUME NEW d \in Backups, BeginCommit(p, d) PROVE G
  BY <1>1 DEF BeginCommit, Begin
<1>2. ASSUME NEW d \in Backups, BeginCascade(p, d) PROVE G
  BY <1>2 DEF BeginCascade, Begin
<1>3. ASSUME NEW d \in Backups, BeginUndelete(p, d) PROVE G
  BY <1>3 DEF BeginUndelete, Begin
<1>4. ASSUME NEW ids \in SUBSET Backups, BeginDelete(p, ids) PROVE G
  BY <1>4 DEF BeginDelete, Begin
<1>5. ASSUME NEW d \in Backups, NEW h \in Holds, BeginHold(p, d, h) PROVE G
  BY <1>5 DEF BeginHold, Begin
<1>6. CASE CommitPut(p)  BY <1>6, ReturnEffect DEF CommitPut
<1>7. CASE LockFails(p)  BY <1>7 DEF LockFails
<1>8. CASE CheckParent(p)  BY <1>8, ReturnEffect DEF CheckParent
<1>9. CASE Unput(p)  BY <1>9, ReturnEffect DEF Unput
<1>10. CASE CheckHolds(p)  BY <1>10, ReturnEffect DEF CheckHolds
<1>11. CASE Scan(p)  BY <1>11, ReturnEffect DEF Scan
<1>12. CASE Install(p)  BY <1>12, PicksFromList DEF Install
<1>13. CASE Rescan(p)  BY <1>13 DEF Rescan
<1>14. CASE Rehold(p)  BY <1>14 DEF Rehold
<1>15. CASE Rollback(p)  BY <1>15, ReturnEffect, PicksFromList DEF Rollback
<1>16. CASE Preflight(p)  BY <1>16, ReturnEffect DEF Preflight
<1>17. CASE Walk(p)  BY <1>17, ReturnEffect DEF Walk
<1>18. CASE Unmark(p)  BY <1>18 DEF Unmark
<1>19. CASE Recheck(p)  BY <1>19, ReturnEffect DEF Recheck, WalkAgain
<1>20. CASE Remark(p)  BY <1>20, ReturnEffect DEF Remark
<1>21. CASE LookForHold(p)  BY <1>21, ReturnEffect DEF LookForHold
<1>22. CASE GetHold(p)  BY <1>22, ReturnEffect DEF GetHold
<1>23. CASE PutHold(p)  BY <1>23 DEF PutHold
<1>24. CASE CheckTombstone(p)  BY <1>24, ReturnEffect DEF CheckTombstone
<1>25. CASE DropHold(p)  BY <1>25, ReturnEffect DEF DropHold
<1>26. CASE OpFails(p)  BY <1>26, ReturnEffect DEF OpFails
<1>27. CASE UndoFails(p)  BY <1>27, PicksFromList DEF UndoFails
<1>28. CASE Crash(p)  BY <1>28 DEF Crash
<1>. QED
  BY <1>1, <1>2, <1>3, <1>4, <1>5, <1>6, <1>7, <1>8, <1>9, <1>10, <1>11, <1>12, <1>13, <1>14,
     <1>15, <1>16, <1>17, <1>18, <1>19, <1>20, <1>21, <1>22, <1>23, <1>24, <1>25, <1>26,
     <1>27, <1>28 DEF Step

-----------------------------------------------------------------------------
(* Holds against deletes.                                                    *)

Doubt == {"partial", "unverified", "stuck", "crashed"}

\* Operation q will see that b is both held and tombstoned, or has said that it
\* could not look.
Answers(q, b) ==
    \/ pc[q] \in {"install", "rescan", "rehold", "rollback"} /\ b \in mine[q]
    \/ pc[q] \in {"retomb", "drop"} /\ target[q] = b
    \/ res[q] \in Doubt \/ kind[q] = "force"

\* Where no hold is placed, no delete that passed the holds, and no undelete, is
\* about a backup that is held.
KeepsOff(q, b) ==
    /\ b \in batch[q] => pc[q] \in {"holds", "done"}
    /\ pc[q] \in UndeletePhases => target[q] # b

Unheld ==
    "hold" \notin mix => \A b \in Backups : Held(b) =>
        b \notin tombs /\ \A q \in Ops : KeepsOff(q, b)

HoldInv ==
    /\ \A q \in Ops : pc[q] \in {"puthold", "retomb"} => ~hadExisting[q]
    /\ \A b \in Backups : Held(b) /\ b \in tombs => \E q \in Ops : Answers(q, b)
    /\ Unheld

\* An operation that answers for b goes on doing so while b is held and deleted.
LEMMA AnswersOn ==
  ASSUME BaseInv, NEW p \in Ops, Step(p), pc[p] \in {"puthold", "retomb"} => ~hadExisting[p],
         NEW b \in Backups, Answers(p, b), Held(b)', b \in tombs'
  PROVE  Answers(p, b)'
<1>. USE DEF BaseInv, TypeOK, OpInv, PhaseInv, ResultInv, Results, DeletePhases, UndeletePhases,
         HoldPhases, repo, locals, Goto, Go, Answers, Doubt, Held
<1>1. ASSUME NEW d \in Backups, BeginCommit(p, d) PROVE Answers(p, b)'
  BY <1>1 DEF BeginCommit, Begin
<1>2. ASSUME NEW d \in Backups, BeginCascade(p, d) PROVE Answers(p, b)'
  BY <1>2 DEF BeginCascade, Begin
<1>3. ASSUME NEW d \in Backups, BeginUndelete(p, d) PROVE Answers(p, b)'
  BY <1>3 DEF BeginUndelete, Begin
<1>4. ASSUME NEW ids \in SUBSET Backups, BeginDelete(p, ids) PROVE Answers(p, b)'
  BY <1>4 DEF BeginDelete, Begin
<1>5. ASSUME NEW d \in Backups, NEW h \in Holds, BeginHold(p, d, h) PROVE Answers(p, b)'
  BY <1>5 DEF BeginHold, Begin
<1>6. CASE CommitPut(p)  BY <1>6, ReturnEffect DEF CommitPut
<1>7. CASE LockFails(p)  BY <1>7 DEF LockFails
<1>8. CASE CheckParent(p)  BY <1>8, ReturnEffect DEF CheckParent
<1>9. CASE Unput(p)  BY <1>9, ReturnEffect DEF Unput
<1>10. CASE CheckHolds(p)  BY <1>10, ReturnEffect DEF CheckHolds
<1>11. CASE Scan(p)  BY <1>11, ReturnEffect DEF Scan
<1>12. CASE Install(p)  BY <1>12, PicksFromList DEF Install
<1>13. CASE Rescan(p)  BY <1>13 DEF Rescan
<1>14. CASE Rehold(p)  BY <1>14 DEF Rehold, HoldSlippedIn
<1>15. CASE Rollback(p)  BY <1>15, ReturnEffect, PicksFromList DEF Rollback
<1>16. CASE Preflight(p)  BY <1>16, ReturnEffect DEF Preflight
<1>17. CASE Walk(p)  BY <1>17, ReturnEffect DEF Walk
<1>18. CASE Unmark(p)  BY <1>18 DEF Unmark
<1>19. CASE Recheck(p)  BY <1>19, ReturnEffect DEF Recheck, WalkAgain
<1>20. CASE Remark(p)  BY <1>20, ReturnEffect DEF Remark
<1>21. CASE LookForHold(p)  BY <1>21, ReturnEffect DEF LookForHold
<1>22. CASE GetHold(p)  BY <1>22, ReturnEffect DEF GetHold
<1>23. CASE PutHold(p)  BY <1>23 DEF PutHold
<1>24. CASE CheckTombstone(p)  BY <1>24, ReturnEffect DEF CheckTombstone, DeletedMeanwhile
<1>25. CASE DropHold(p)  BY <1>25, ReturnEffect DEF DropHold, NoHold
<1>26. CASE OpFails(p)  BY <1>26, ReturnEffect DEF OpFails
<1>27. CASE UndoFails(p)  BY <1>27, PicksFromList DEF UndoFails
<1>28. CASE Crash(p)  BY <1>28 DEF Crash
<1>. QED
  BY <1>1, <1>2, <1>3, <1>4, <1>5, <1>6, <1>7, <1>8, <1>9, <1>10, <1>11, <1>12, <1>13, <1>14,
     <1>15, <1>16, <1>17, <1>18, <1>19, <1>20, <1>21, <1>22, <1>23, <1>24, <1>25, <1>26,
     <1>27, <1>28 DEF Step

\* Whoever makes b both held and deleted answers for it, if no undelete runs.
LEMMA AnswersFirst ==
  ASSUME BaseInv, NEW p \in Ops, Step(p), "undelete" \notin mix,
         NEW b \in Backups, ~(Held(b) /\ b \in tombs), Held(b)', b \in tombs'
  PROVE  Answers(p, b)'
<1>. USE DEF BaseInv, TypeOK, OpInv, PhaseInv, DeletePhases, UndeletePhases,
         HoldPhases, repo, locals, Goto, Go, Answers, Held
<1>1. ASSUME NEW d \in Backups, BeginCommit(p, d) PROVE Answers(p, b)'
  BY <1>1 DEF BeginCommit, Begin
<1>2. ASSUME NEW d \in Backups, BeginCascade(p, d) PROVE Answers(p, b)'
  BY <1>2 DEF BeginCascade, Begin
<1>3. ASSUME NEW d \in Backups, BeginUndelete(p, d) PROVE Answers(p, b)'
  BY <1>3 DEF BeginUndelete, Begin
<1>4. ASSUME NEW ids \in SUBSET Backups, BeginDelete(p, ids) PROVE Answers(p, b)'
  BY <1>4 DEF BeginDelete, Begin
<1>5. ASSUME NEW d \in Backups, NEW h \in Holds, BeginHold(p, d, h) PROVE Answers(p, b)'
  BY <1>5 DEF BeginHold, Begin
<1>6. CASE CommitPut(p)  BY <1>6, ReturnEffect DEF CommitPut
<1>7. CASE LockFails(p)  BY <1>7 DEF LockFails
<1>8. CASE CheckParent(p)  BY <1>8, ReturnEffect DEF CheckParent
<1>9. CASE Unput(p)  BY <1>9, ReturnEffect DEF Unput
<1>10. CASE CheckHolds(p)  BY <1>10, ReturnEffect DEF CheckHolds
<1>11. CASE Scan(p)  BY <1>11, ReturnEffect DEF Scan
<1>12. CASE Install(p)  BY <1>12, PicksFromList DEF Install, TakesBack
<1>13. CASE Rescan(p)  BY <1>13 DEF Rescan
<1>14. CASE Rehold(p)  BY <1>14 DEF Rehold
<1>15. CASE Rollback(p)  BY <1>15, ReturnEffect, PicksFromList DEF Rollback
<1>16. CASE Preflight(p)  BY <1>16, ReturnEffect DEF Preflight
<1>17. CASE Walk(p)  BY <1>17, ReturnEffect DEF Walk
<1>18. CASE Unmark(p)  BY <1>18 DEF Unmark
<1>19. CASE Recheck(p)  BY <1>19, ReturnEffect DEF Recheck, WalkAgain
<1>20. CASE Remark(p)  BY <1>20, ReturnEffect DEF Remark
<1>21. CASE LookForHold(p)  BY <1>21, ReturnEffect DEF LookForHold
<1>22. CASE GetHold(p)  BY <1>22, ReturnEffect DEF GetHold
<1>23. CASE PutHold(p)  BY <1>23 DEF PutHold
<1>24. CASE CheckTombstone(p)  BY <1>24, ReturnEffect DEF CheckTombstone
<1>25. CASE DropHold(p)  BY <1>25, ReturnEffect DEF DropHold, NoHold
<1>26. CASE OpFails(p)  BY <1>26, ReturnEffect DEF OpFails
<1>27. CASE UndoFails(p)  BY <1>27, PicksFromList DEF UndoFails
<1>28. CASE Crash(p)  BY <1>28 DEF Crash
<1>. QED
  BY <1>1, <1>2, <1>3, <1>4, <1>5, <1>6, <1>7, <1>8, <1>9, <1>10, <1>11, <1>12, <1>13, <1>14,
     <1>15, <1>16, <1>17, <1>18, <1>19, <1>20, <1>21, <1>22, <1>23, <1>24, <1>25, <1>26,
     <1>27, <1>28 DEF Step

\* With EditHolds off, PutHold goes on only where it found no marker.
LEMMA ExistingUnseen ==
  ASSUME BaseInv, NEW p \in Ops, Step(p), ~EditHolds,
         pc[p] \in {"puthold", "retomb"} => ~hadExisting[p], pc'[p] \in {"puthold", "retomb"}
  PROVE  ~hadExisting'[p]
<1>. USE DEF BaseInv, TypeOK, Results, repo, locals, Goto, Go
<1>1. ASSUME NEW d \in Backups, BeginCommit(p, d) PROVE ~hadExisting'[p]
  BY <1>1 DEF BeginCommit, Begin
<1>2. ASSUME NEW d \in Backups, BeginCascade(p, d) PROVE ~hadExisting'[p]
  BY <1>2 DEF BeginCascade, Begin
<1>3. ASSUME NEW d \in Backups, BeginUndelete(p, d) PROVE ~hadExisting'[p]
  BY <1>3 DEF BeginUndelete, Begin
<1>4. ASSUME NEW ids \in SUBSET Backups, BeginDelete(p, ids) PROVE ~hadExisting'[p]
  BY <1>4 DEF BeginDelete, Begin
<1>5. ASSUME NEW d \in Backups, NEW h \in Holds, BeginHold(p, d, h) PROVE ~hadExisting'[p]
  BY <1>5 DEF BeginHold, Begin
<1>6. CASE CommitPut(p)  BY <1>6, ReturnEffect DEF CommitPut
<1>7. CASE LockFails(p)  BY <1>7 DEF LockFails
<1>8. CASE CheckParent(p)  BY <1>8, ReturnEffect DEF CheckParent
<1>9. CASE Unput(p)  BY <1>9, ReturnEffect DEF Unput
<1>10. CASE CheckHolds(p)  BY <1>10, ReturnEffect DEF CheckHolds
<1>11. CASE Scan(p)  BY <1>11, ReturnEffect DEF Scan
<1>12. CASE Install(p)  BY <1>12, PicksFromList DEF Install
<1>13. CASE Rescan(p)  BY <1>13 DEF Rescan
<1>14. CASE Rehold(p)  BY <1>14 DEF Rehold
<1>15. CASE Rollback(p)  BY <1>15, ReturnEffect, PicksFromList DEF Rollback
<1>16. CASE Preflight(p)  BY <1>16, ReturnEffect DEF Preflight
<1>17. CASE Walk(p)  BY <1>17, ReturnEffect DEF Walk
<1>18. CASE Unmark(p)  BY <1>18 DEF Unmark
<1>19. CASE Recheck(p)  BY <1>19, ReturnEffect DEF Recheck, WalkAgain
<1>20. CASE Remark(p)  BY <1>20, ReturnEffect DEF Remark
<1>21. CASE LookForHold(p)  BY <1>21, ReturnEffect DEF LookForHold
<1>22. CASE GetHold(p)  BY ZenonT(60), <1>22, ReturnEffect DEF GetHold
<1>23. CASE PutHold(p)  BY <1>23 DEF PutHold
<1>24. CASE CheckTombstone(p)  BY <1>24, ReturnEffect DEF CheckTombstone
<1>25. CASE DropHold(p)  BY <1>25, ReturnEffect DEF DropHold
<1>26. CASE OpFails(p)  BY <1>26, ReturnEffect DEF OpFails
<1>27. CASE UndoFails(p)  BY <1>27, PicksFromList DEF UndoFails
<1>28. CASE Crash(p)  BY <1>28 DEF Crash
<1>. QED
  BY <1>1, <1>2, <1>3, <1>4, <1>5, <1>6, <1>7, <1>8, <1>9, <1>10, <1>11, <1>12, <1>13, <1>14,
     <1>15, <1>16, <1>17, <1>18, <1>19, <1>20, <1>21, <1>22, <1>23, <1>24, <1>25, <1>26,
     <1>27, <1>28 DEF Step

\* Which steps touch the holds and the tombstones, and how a list comes about.
LEMMA StepShape ==
  ASSUME BaseInv, NEW p \in Ops, Step(p)
  PROVE  /\ pc[p] # "done"
         /\ hold' = hold \/ pc[p] \in {"puthold", "drop"}
         /\ \/ tombs' \subseteq tombs
            \/ pc[p] = "install" /\ tombs' \subseteq tombs \cup todo[p]
            \/ pc[p] \in {"recheck", "remark"} /\ tombs' \subseteq tombs \cup {target[p]}
         /\ batch'[p] = batch[p] \/ pc'[p] = "holds"
         /\ pc[p] = "holds" => pc'[p] = "done" \/ \A b \in batch[p] : ~Held(b)
         /\ pc'[p] \in UndeletePhases => pc[p] \in UndeletePhases \/ target'[p] \in tombs
<1>. DEFINE G == /\ pc[p] # "done"
                 /\ hold' = hold \/ pc[p] \in {"puthold", "drop"}
                 /\ \/ tombs' \subseteq tombs
                    \/ pc[p] = "install" /\ tombs' \subseteq tombs \cup todo[p]
                    \/ pc[p] \in {"recheck", "remark"} /\ tombs' \subseteq tombs \cup {target[p]}
                 /\ batch'[p] = batch[p] \/ pc'[p] = "holds"
                 /\ pc[p] = "holds" => pc'[p] = "done" \/ \A b \in batch[p] : ~Held(b)
                 /\ pc'[p] \in UndeletePhases => pc[p] \in UndeletePhases \/ target'[p] \in tombs
<1>. USE DEF BaseInv, TypeOK, UndeletePhases, Results, repo, locals, Goto, Go
<1>1. ASSUME NEW d \in Backups, BeginCommit(p, d) PROVE G
  BY <1>1 DEF BeginCommit, Begin
<1>2. ASSUME NEW d \in Backups, BeginCascade(p, d) PROVE G
  BY <1>2 DEF BeginCascade, Begin
<1>3. ASSUME NEW d \in Backups, BeginUndelete(p, d) PROVE G
  BY <1>3 DEF BeginUndelete, Begin
<1>4. ASSUME NEW ids \in SUBSET Backups, BeginDelete(p, ids) PROVE G
  BY <1>4 DEF BeginDelete, Begin
<1>5. ASSUME NEW d \in Backups, NEW h \in Holds, BeginHold(p, d, h) PROVE G
  BY <1>5 DEF BeginHold, Begin
<1>6. CASE CommitPut(p)  BY <1>6, ReturnEffect DEF CommitPut
<1>7. CASE LockFails(p)  BY <1>7 DEF LockFails
<1>8. CASE CheckParent(p)  BY <1>8, ReturnEffect DEF CheckParent
<1>9. CASE Unput(p)  BY <1>9, ReturnEffect DEF Unput
<1>10. CASE CheckHolds(p)  BY <1>10, ReturnEffect DEF CheckHolds
<1>11. CASE Scan(p)  BY <1>11, ReturnEffect DEF Scan
<1>12. CASE Install(p)  BY <1>12, PicksFromList DEF Install
<1>13. CASE Rescan(p)  BY <1>13 DEF Rescan
<1>14. CASE Rehold(p)  BY <1>14 DEF Rehold
<1>15. CASE Rollback(p)  BY <1>15, ReturnEffect, PicksFromList DEF Rollback
<1>16. CASE Preflight(p)  BY <1>16, ReturnEffect DEF Preflight
<1>17. CASE Walk(p)  BY <1>17, ReturnEffect DEF Walk
<1>18. CASE Unmark(p)  BY <1>18 DEF Unmark
<1>19. CASE Recheck(p)  BY <1>19, ReturnEffect DEF Recheck, WalkAgain
<1>20. CASE Remark(p)  BY <1>20, ReturnEffect DEF Remark
<1>21. CASE LookForHold(p)  BY <1>21, ReturnEffect DEF LookForHold
<1>22. CASE GetHold(p)  BY <1>22, ReturnEffect DEF GetHold
<1>23. CASE PutHold(p)  BY <1>23 DEF PutHold
<1>24. CASE CheckTombstone(p)  BY <1>24, ReturnEffect DEF CheckTombstone
<1>25. CASE DropHold(p)  BY <1>25, ReturnEffect DEF DropHold
<1>26. CASE OpFails(p)  BY <1>26, ReturnEffect DEF OpFails
<1>27. CASE UndoFails(p)  BY <1>27, PicksFromList DEF UndoFails
<1>28. CASE Crash(p)  BY <1>28 DEF Crash
<1>. QED
  BY <1>1, <1>2, <1>3, <1>4, <1>5, <1>6, <1>7, <1>8, <1>9, <1>10, <1>11, <1>12, <1>13, <1>14,
     <1>15, <1>16, <1>17, <1>18, <1>19, <1>20, <1>21, <1>22, <1>23, <1>24, <1>25, <1>26,
     <1>27, <1>28 DEF Step

\* Without PutHold the held backups only get fewer, and everybody keeps off them.
LEMMA KeepsOffOn ==
  ASSUME BaseInv, NEW p \in Ops, Step(p), "hold" \notin mix,
         NEW b \in Backups, Held(b)', Held(b) => b \notin tombs /\ KeepsOff(p, b)
  PROVE  Held(b) /\ b \notin tombs' /\ KeepsOff(p, b)'
<1>1. pc[p] \notin HoldPhases  BY DEF BaseInv, OpInv, PhaseInv
<1>2. hold' = hold  BY <1>1, StepShape DEF HoldPhases
<1>3. Held(b) /\ b \notin tombs /\ KeepsOff(p, b)  BY <1>2 DEF Held
<1>4. b \notin tombs'
  <2>1. pc[p] = "install" => b \notin todo[p]
    BY <1>3 DEF KeepsOff, BaseInv, OpInv, ListInv
  <2>2. pc[p] \in {"recheck", "remark"} => target[p] # b
    BY <1>3 DEF KeepsOff, UndeletePhases
  <2>. QED  BY <1>3, <2>1, <2>2, StepShape
<1>5. b \in batch'[p] => pc'[p] \in {"holds", "done"}
  <2>1. pc'[p] # "holds" => batch'[p] = batch[p]  BY StepShape
  <2>2. b \in batch[p] => pc[p] = "holds"  BY <1>3, StepShape DEF KeepsOff
  <2>3. pc[p] = "holds" => pc'[p] = "done" \/ b \notin batch[p]  BY <1>3, StepShape
  <2>. QED  BY <2>1, <2>2, <2>3
<1>6. pc'[p] \in UndeletePhases => target'[p] # b
  <2>1. pc[p] \in UndeletePhases => target'[p] = target[p]
    BY Others DEF UndeletePhases
  <2>. QED  BY <1>3, <2>1, StepShape DEF KeepsOff
<1>. QED  BY <1>3, <1>4, <1>5, <1>6 DEF KeepsOff

\* Every step keeps everybody off.
LEMMA UnheldKept ==
  ASSUME BaseInv, Unheld, [Next]_vars
  PROVE  Unheld'
<1>1. ASSUME NEW p \in Ops, Step(p) PROVE Unheld'
  <2>1. ASSUME "hold" \notin mix', NEW b \in Backups, Held(b)'
        PROVE  b \notin tombs' /\ \A q \in Ops : KeepsOff(q, b)'
    <3>1. "hold" \notin mix  BY <1>1, <2>1, Others
    <3>2. Held(b) => b \notin tombs /\ \A q \in Ops : KeepsOff(q, b)  BY <3>1 DEF Unheld
    <3>3. Held(b) /\ b \notin tombs' /\ KeepsOff(p, b)'  BY <1>1, <2>1, <3>1, <3>2, KeepsOffOn
    <3>4. \A q \in Ops : q # p => KeepsOff(q, b)'
      BY <1>1, <3>2, <3>3, Others DEF KeepsOff
    <3>. QED  BY <3>3, <3>4
  <2>. QED  BY <2>1 DEF Unheld
<1>2. ASSUME \/ \E b \in Backups : RemoveHold(b) \/ Lapse(b) \/ GCSweep(b)
             \/ GCScan \/ UNCHANGED vars
      PROVE  Unheld'
  <2>1. UNCHANGED <<locals, pc, mix, tombs>>
    BY <1>2 DEF RemoveHold, Lapse, GCSweep, GCScan, vars, repo
  <2>2. \A b \in Backups : Held(b)' => Held(b)
    BY <1>2 DEF RemoveHold, Lapse, GCSweep, GCScan, vars, repo, Held, NoHold, BaseInv, TypeOK
  <2>. QED  BY <2>1, <2>2 DEF Unheld, KeepsOff, locals
<1>. QED  BY <1>1, <1>2 DEF Next

\* Every step keeps HoldInv.
LEMMA HoldInvKept ==
  ASSUME BaseInv, HoldInv, [Next]_vars, ~EditHolds, ~({"hold", "undelete"} \subseteq mix)
  PROVE  HoldInv'
<1>1. ASSUME NEW p \in Ops, Step(p) PROVE HoldInv'
  <2>1. ASSUME NEW q \in Ops, pc'[q] \in {"puthold", "retomb"} PROVE ~hadExisting'[q]
    <3>1. CASE q # p  BY <1>1, <2>1, <3>1, Others DEF HoldInv
    <3>2. CASE q = p
      BY <1>1, <2>1, <3>2, ExistingUnseen DEF HoldInv
    <3>. QED  BY <3>1, <3>2
  <2>2. ASSUME NEW b \in Backups, Held(b)', b \in tombs' PROVE \E q \in Ops : Answers(q, b)'
    <3>1. CASE "undelete" \in mix
      <4>1. Held(b) => b \notin tombs /\ KeepsOff(p, b)  BY <3>1 DEF HoldInv, Unheld
      <4>. QED  BY <1>1, <2>2, <3>1, <4>1, KeepsOffOn
    <3>2. CASE "undelete" \notin mix /\ ~(Held(b) /\ b \in tombs)
      BY <1>1, <2>2, <3>2, AnswersFirst
    <3>3. CASE Held(b) /\ b \in tombs
      <4>1. PICK q \in Ops : Answers(q, b)  BY <3>3 DEF HoldInv
      <4>2. CASE q = p  BY <1>1, <2>2, <4>1, <4>2, AnswersOn DEF HoldInv
      <4>3. CASE q # p
        <5>1. Answers(q, b)'  BY <1>1, <4>1, <4>3, Others DEF Answers
        <5>. QED  BY <5>1
      <4>. QED  BY <4>2, <4>3
    <3>. QED  BY <3>1, <3>2, <3>3
  <2>3. Unheld'  BY UnheldKept DEF HoldInv
  <2>. QED  BY <2>1, <2>2, <2>3 DEF HoldInv
<1>2. ASSUME \/ \E b \in Backups : RemoveHold(b) \/ Lapse(b) \/ GCSweep(b)
             \/ GCScan \/ UNCHANGED vars
      PROVE  HoldInv'
  <2>1. UNCHANGED <<locals, pc, res, mix, tombs>>
    BY <1>2 DEF RemoveHold, Lapse, GCSweep, GCScan, vars, repo
  <2>2. \A b \in Backups : Held(b)' => Held(b)
    BY <1>2 DEF RemoveHold, Lapse, GCSweep, GCScan, vars, repo, Held, NoHold, BaseInv, TypeOK
  <2>. QED  BY <2>1, <2>2 DEF HoldInv, Unheld, Answers, KeepsOff, locals
<1>. QED  BY <1>1, <1>2 DEF Next

\* However many holds, deletes, cascades, commits and collections race, no
\* backup ends up both actively held and tombstoned: SoftDelete's re-check of the
\* holds and PutHold's re-check of the tombstone cannot both miss.  The premises are
\* the two limits of the code: an Undelete that puts a tombstone back does not
\* look for holds, and the edit of an older marker is not taken back.
THEOREM HeldNeverDeleted ==
  ASSUME ~EditHolds, \A m \in Mixes : ~({"hold", "undelete"} \subseteq m)
  PROVE  Spec => []HeldIsLive
<1>1. Init => BaseInv /\ HoldInv
  <2>. SUFFICES ASSUME Init PROVE HoldInv  BY InitBase
  <2>1. \A b \in Backups : Held(b) => b \notin tombs  BY DEF Init, Held, NoHold
  <2>. QED  BY <2>1 DEF Init, HoldInv, Unheld, KeepsOff, UndeletePhases
<1>2. BaseInv /\ HoldInv /\ [Next]_vars => (BaseInv /\ HoldInv)'
  <2>. SUFFICES ASSUME BaseInv, HoldInv, [Next]_vars PROVE BaseInv' /\ HoldInv'  OBVIOUS
  <2>1. BaseInv'  BY BaseKept
  <2>2. mix \in Mixes  BY DEF BaseInv, TypeOK
  <2>. QED  BY <2>1, <2>2, HoldInvKept
<1>3. BaseInv /\ HoldInv => HeldIsLive
  BY DEF BaseInv, HoldInv, HeldIsLive, Settled, Admitted, Answers, Doubt
<1>. QED  BY <1>1, <1>2, <1>3, PTL DEF Spec

-----------------------------------------------------------------------------
(* What was reported deleted stays deleted.                                  *)

Owning == {"install", "rescan", "rehold", "rollback"}

\* Deletes and batches own the tombstones they take back, each its own.
OwnInv ==
    {"cascade", "undelete", "force"} \cap mix = {} =>
        /\ reported \subseteq tombs
        /\ \A p \in Ops : pc[p] \in Owning =>
             /\ mine[p] \subseteq tombs \ reported
             /\ \A q \in Ops \ {p} : pc[q] \in Owning => mine[p] \cap mine[q] = {}

\* What a step does to tombstones, and to whom they belong.
TombStep(p) ==
    \/ tombs' = tombs /\ reported' = reported /\ mine'[p] \subseteq mine[p]
    \/ /\ pc[p] = "install" /\ reported' = reported
       /\ \E b \in todo[p] : /\ tombs' = tombs \cup {b}
                             /\ mine'[p] = IF TakesBack(p, b) THEN mine[p] \cup {b} ELSE mine[p]
    \/ /\ pc[p] = "rehold" /\ pc'[p] = "done" /\ tombs' = tombs
       /\ reported' = reported \cup (mine[p] \cap tombs) /\ mine'[p] = mine[p]
    \/ /\ pc[p] = "rollback" /\ reported' = reported
       /\ \E b \in mine[p] : tombs' = tombs \ {b} /\ mine'[p] = mine[p] \ {b}
    \/ pc[p] \in UndeletePhases

\* Every step of an operation is one of these.
LEMMA TombSteps ==
  ASSUME BaseInv, NEW p \in Ops, Step(p)
  PROVE  TombStep(p)
<1>. USE DEF BaseInv, TypeOK, TombStep, UndeletePhases, Results, repo, locals, Goto, Go
<1>1. ASSUME NEW d \in Backups, BeginCommit(p, d) PROVE TombStep(p)
  BY <1>1 DEF BeginCommit, Begin
<1>2. ASSUME NEW d \in Backups, BeginCascade(p, d) PROVE TombStep(p)
  BY <1>2 DEF BeginCascade, Begin
<1>3. ASSUME NEW d \in Backups, BeginUndelete(p, d) PROVE TombStep(p)
  BY <1>3 DEF BeginUndelete, Begin
<1>4. ASSUME NEW ids \in SUBSET Backups, BeginDelete(p, ids) PROVE TombStep(p)
  BY <1>4 DEF BeginDelete, Begin
<1>5. ASSUME NEW d \in Backups, NEW h \in Holds, BeginHold(p, d, h) PROVE TombStep(p)
  BY <1>5 DEF BeginHold, Begin
<1>6. CASE CommitPut(p)  BY <1>6, ReturnEffect DEF CommitPut
<1>7. CASE LockFails(p)  BY <1>7 DEF LockFails
<1>8. CASE CheckParent(p)  BY <1>8, ReturnEffect DEF CheckParent
<1>9. CASE Unput(p)  BY <1>9, ReturnEffect DEF Unput
<1>10. CASE CheckHolds(p)  BY <1>10, ReturnEffect DEF CheckHolds
<1>11. CASE Scan(p)  BY <1>11, ReturnEffect DEF Scan
<1>12. CASE Install(p)  BY <1>12, PicksFromList DEF Install
<1>13. CASE Rescan(p)  BY <1>13 DEF Rescan
<1>14. CASE Rehold(p)  BY <1>14 DEF Rehold
<1>15. CASE Rollback(p)  BY <1>15, ReturnEffect, PicksFromList DEF Rollback
<1>16. CASE Preflight(p)  BY <1>16, ReturnEffect DEF Preflight
<1>17. CASE Walk(p)  BY <1>17, ReturnEffect DEF Walk
<1>18. CASE Unmark(p)  BY <1>18 DEF Unmark
<1>19. CASE Recheck(p)  BY <1>19, ReturnEffect DEF Recheck, WalkAgain
<1>20. CASE Remark(p)  BY <1>20, ReturnEffect DEF Remark
<1>21. CASE LookForHold(p)  BY <1>21, ReturnEffect DEF LookForHold
<1>22. CASE GetHold(p)  BY <1>22, ReturnEffect DEF GetHold
<1>23. CASE PutHold(p)  BY <1>23 DEF PutHold
<1>24. CASE CheckTombstone(p)  BY <1>24, ReturnEffect DEF CheckTombstone
<1>25. CASE DropHold(p)  BY <1>25, ReturnEffect DEF DropHold
<1>26. CASE OpFails(p)  BY <1>26, ReturnEffect DEF OpFails
<1>27. CASE UndoFails(p)  BY <1>27, PicksFromList DEF UndoFails
<1>28. CASE Crash(p)  BY <1>28 DEF Crash
<1>. QED
  BY <1>1, <1>2, <1>3, <1>4, <1>5, <1>6, <1>7, <1>8, <1>9, <1>10, <1>11, <1>12, <1>13, <1>14,
     <1>15, <1>16, <1>17, <1>18, <1>19, <1>20, <1>21, <1>22, <1>23, <1>24, <1>25, <1>26,
     <1>27, <1>28 DEF Step

\* Without cascades and undeletes every delete rolls back its own work only.
LEMMA OwnInvKept ==
  ASSUME BaseInv, BaseInv', OwnInv, [Next]_vars
  PROVE  OwnInv'
<1>1. ASSUME NEW p \in Ops, Step(p), {"cascade", "undelete", "force"} \cap mix' = {}
      PROVE  /\ reported' \subseteq tombs'
             /\ \A o \in Ops : pc'[o] \in Owning =>
                  /\ mine'[o] \subseteq tombs' \ reported'
                  /\ \A q \in Ops \ {o} : pc'[q] \in Owning => mine'[o] \cap mine'[q] = {}
  <2>1. /\ {"cascade", "undelete", "force"} \cap mix = {}
        /\ \A q \in Ops : q # p => pc'[q] = pc[q] /\ mine'[q] = mine[q]
    BY <1>1, Others
  <2>2. /\ reported \subseteq tombs
        /\ \A o \in Ops : pc[o] \in Owning =>
             /\ mine[o] \subseteq tombs \ reported
             /\ \A q \in Ops \ {o} : pc[q] \in Owning => mine[o] \cap mine[q] = {}
    BY <2>1 DEF OwnInv
  <2>3. pc[p] \notin UndeletePhases /\ kind[p] # "cascade"
    BY <2>1 DEF BaseInv, OpInv, PhaseInv
  <2>4. pc[p] \notin Owning => mine[p] = {}
    BY <1>1, StepShape DEF BaseInv, OpInv, ListInv, Owning
  <2>5. CASE tombs' = tombs /\ reported' = reported /\ mine'[p] \subseteq mine[p]
    BY <2>1, <2>2, <2>4, <2>5
  <2>6. ASSUME pc[p] = "install", reported' = reported, NEW b \in todo[p], tombs' = tombs \cup {b},
               mine'[p] = IF TakesBack(p, b) THEN mine[p] \cup {b} ELSE mine[p]
        PROVE  /\ reported' \subseteq tombs'
               /\ \A o \in Ops : pc'[o] \in Owning =>
                    /\ mine'[o] \subseteq tombs' \ reported'
                    /\ \A q \in Ops \ {o} : pc'[q] \in Owning => mine'[o] \cap mine'[q] = {}
    <3>1. pc[p] \in Owning  BY <2>6 DEF Owning
    <3>2. CASE b \in tombs
      BY <2>1, <2>2, <2>3, <2>6, <3>1, <3>2 DEF TakesBack
    <3>3. CASE b \notin tombs
      <4>1. mine'[p] = mine[p] \cup {b}  BY <2>6, <3>3 DEF TakesBack
      <4>2. \A q \in Ops : q # p /\ pc[q] \in Owning => b \notin mine[q]  BY <2>2, <3>3
      <4>3. b \notin reported  BY <2>2, <3>3
      <4>. QED  BY <2>1, <2>2, <2>6, <3>1, <4>1, <4>2, <4>3
    <3>. QED  BY <3>2, <3>3
  <2>7. CASE /\ pc[p] = "rehold" /\ pc'[p] = "done" /\ tombs' = tombs
             /\ reported' = reported \cup (mine[p] \cap tombs) /\ mine'[p] = mine[p]
    <3>1. pc[p] \in Owning /\ pc'[p] \notin Owning  BY <2>7 DEF Owning
    <3>. QED  BY <2>1, <2>2, <2>7, <3>1
  <2>8. ASSUME pc[p] = "rollback", reported' = reported, NEW b \in mine[p], tombs' = tombs \ {b},
               mine'[p] = mine[p] \ {b}
        PROVE  /\ reported' \subseteq tombs'
               /\ \A o \in Ops : pc'[o] \in Owning =>
                    /\ mine'[o] \subseteq tombs' \ reported'
                    /\ \A q \in Ops \ {o} : pc'[q] \in Owning => mine'[o] \cap mine'[q] = {}
    <3>1. pc[p] \in Owning  BY <2>8 DEF Owning
    <3>. QED  BY <2>1, <2>2, <2>8, <3>1
  <2>. QED  BY <1>1, <2>3, <2>5, <2>6, <2>7, <2>8, TombSteps DEF TombStep
<1>2. ASSUME \/ \E b \in Backups : RemoveHold(b) \/ Lapse(b) \/ GCSweep(b)
             \/ GCScan \/ UNCHANGED vars
      PROVE  OwnInv'
  <2>1. UNCHANGED <<mine, pc, mix, tombs, reported>>
    BY <1>2 DEF RemoveHold, Lapse, GCSweep, GCScan, vars, repo, locals
  <2>. QED  BY <2>1 DEF OwnInv
<1>3. ASSUME NEW p \in Ops, Step(p) PROVE OwnInv'  BY <1>1, <1>3 DEF OwnInv
<1>. QED  BY <1>2, <1>3 DEF Next

\* Only deletes run, and nothing fails but a process that dies.
Calm == mix \subseteq {"delete", "batch", "cascade", "crash"}

\* Then a delete never has to roll back: what it passed is tombstoned for good,
\* and the descendants it counted can only get fewer.
CalmAt(p) ==
    /\ pc[p] # "rollback"
    /\ pc[p] # "done" => batch[p] \ todo[p] \subseteq tombs
    /\ pc[p] \in Owning /\ kind[p] # "cascade" => ~Orphaning(batch[p], batch[p])
    /\ pc[p] \in Owning \cup {"holds"} /\ kind[p] = "cascade" =>
         Descendants(target[p]) \subseteq batch[p]

CalmInv == Calm => reported \subseteq tombs /\ \A p \in Ops : CalmAt(p)

\* Tombstones only take away from the descendants of a backup.
LEMMA DescendantsShrink ==
  ASSUME manifests' = manifests, tombs \subseteq tombs', NEW b
  PROVE  Descendants(b)' \subseteq Descendants(b)
BY DEF Descendants, Live

\* What a delete may do on a calm day.
CalmStep(p) ==
    \/ \E ids \in SUBSET Backups : BeginDelete(p, ids)
    \/ \E b \in Backups : BeginCascade(p, b)
    \/ CheckHolds(p) \/ Scan(p) \/ Install(p) \/ Rescan(p) \/ Rehold(p) \/ Crash(p)

\* The other steps belong to operations that are not there, or to a roll-back.
LEMMA CalmSteps ==
  ASSUME BaseInv, Calm, NEW p \in Ops, Step(p), pc[p] # "rollback"
  PROVE  CalmStep(p)
<1>. USE DEF BaseInv, OpInv, PhaseInv, Calm, CalmStep, UndeletePhases, HoldPhases
<1>1. ~\E b \in Backups : BeginCommit(p, b) \/ BeginUndelete(p, b)
  BY DEF BeginCommit, BeginUndelete, Begin
<1>2. ~\E b \in Backups, h \in Holds : BeginHold(p, b, h)  BY DEF BeginHold, Begin
<1>3. ~(CommitPut(p) \/ LockFails(p) \/ CheckParent(p) \/ Unput(p))
  BY DEF CommitPut, LockFails, CheckParent, Unput
<1>4. ~Rollback(p)  BY DEF Rollback
<1>5. ~(Preflight(p) \/ Walk(p) \/ Unmark(p) \/ Recheck(p) \/ Remark(p))
  BY DEF Preflight, Walk, Unmark, Recheck, Remark
<1>6. ~(LookForHold(p) \/ GetHold(p) \/ PutHold(p) \/ CheckTombstone(p) \/ DropHold(p))
  BY DEF LookForHold, GetHold, PutHold, CheckTombstone, DropHold
<1>7. ~(OpFails(p) \/ UndoFails(p))  BY DEF OpFails, UndoFails
<1>. QED  BY <1>1, <1>2, <1>3, <1>4, <1>5, <1>6, <1>7 DEF Step

\* On a calm day manifests stay, tombstones only come, and what a delete says it
\* deleted is tombstoned.
LEMMA CalmRepo ==
  ASSUME BaseInv, NEW p \in Ops, CalmStep(p)
  PROVE  manifests' = manifests /\ tombs \subseteq tombs' /\ reported' \subseteq reported \cup tombs
<1>. USE DEF BaseInv, TypeOK, Results, repo, locals, Goto, Go
<1>1. ASSUME NEW ids \in SUBSET Backups, BeginDelete(p, ids)
      PROVE  manifests' = manifests /\ tombs \subseteq tombs' /\ reported' \subseteq reported \cup tombs
  BY <1>1 DEF BeginDelete, Begin
<1>2. ASSUME NEW b \in Backups, BeginCascade(p, b)
      PROVE  manifests' = manifests /\ tombs \subseteq tombs' /\ reported' \subseteq reported \cup tombs
  BY <1>2 DEF BeginCascade, Begin
<1>3. CASE CheckHolds(p)  BY <1>3, ReturnEffect DEF CheckHolds
<1>4. CASE Scan(p)  BY <1>4, ReturnEffect DEF Scan
<1>5. CASE Install(p)  BY <1>5 DEF Install
<1>6. CASE Rescan(p)  BY <1>6 DEF Rescan
<1>7. CASE Rehold(p)  BY <1>7 DEF Rehold
<1>8. CASE Crash(p)  BY <1>8 DEF Crash
<1>. QED  BY <1>1, <1>2, <1>3, <1>4, <1>5, <1>6, <1>7, <1>8 DEF CalmStep

\* A delete on a calm day keeps what CalmAt says of it.
LEMMA CalmSelf ==
  ASSUME BaseInv, Calm, Unheld, NEW p \in Ops, CalmStep(p), CalmAt(p)
  PROVE  CalmAt(p)'
<1>a. manifests' = manifests /\ tombs \subseteq tombs'  BY CalmRepo
<1>b. \A b : Descendants(b)' \subseteq Descendants(b)  BY <1>a, DescendantsShrink
<1>c. OpInv(p)  BY DEF BaseInv
<1>. USE DEF BaseInv, TypeOK, Results, Owning, repo, locals, Goto, Go
<1>1. ASSUME NEW ids \in SUBSET Backups, BeginDelete(p, ids) PROVE CalmAt(p)'
  <2>1. pc'[p] = "holds" /\ kind'[p] # "cascade" /\ batch'[p] = ids /\ todo'[p] = ids
    BY <1>1 DEF BeginDelete, Begin
  <2>. QED  BY <2>1 DEF CalmAt
<1>2. ASSUME NEW b \in Backups, BeginCascade(p, b) PROVE CalmAt(p)'
  <2>1. pc'[p] = "scan" /\ batch'[p] = {}
    BY <1>2, <1>c DEF BeginCascade, Begin, OpInv, ListInv
  <2>. QED  BY <2>1 DEF CalmAt
<1>3. CASE CheckHolds(p)
  <2>1. /\ batch'[p] = batch[p] /\ todo'[p] = todo[p] /\ kind'[p] = kind[p]
        /\ target'[p] = target[p] /\ tombs' = tombs
        /\ pc'[p] = "done" \/ pc'[p] = IF kind[p] = "cascade" THEN "install" ELSE "scan"
    BY <1>3, ReturnEffect DEF CheckHolds
  <2>2. pc[p] = "holds"  BY <1>3 DEF CheckHolds
  <2>. QED  BY <1>b, <2>1, <2>2 DEF CalmAt
<1>4. CASE Scan(p)
  <2>1. CASE kind[p] = "cascade"
    <3>. DEFINE all == Descendants(target[p]) \cup {target[p]}
    <3>1. /\ pc'[p] = "holds" /\ kind'[p] = kind[p] /\ target'[p] = target[p]
          /\ batch' = [batch EXCEPT ![p] = all] /\ todo' = [todo EXCEPT ![p] = all]
      BY <1>4, <2>1 DEF Scan
    <3>. HIDE DEF all
    <3>2. batch'[p] = all /\ todo'[p] = all  BY <3>1
    <3>3. Descendants(target[p]) \subseteq all  BY DEF all
    <3>. QED  BY <1>b, <2>1, <3>1, <3>2, <3>3 DEF CalmAt
  <2>2. CASE kind[p] # "cascade"
    <3>1. /\ kind'[p] = kind[p] /\ batch'[p] = batch[p] /\ todo'[p] = todo[p]
          /\ pc'[p] = "done" \/ (pc'[p] = "install" /\ ~Orphaning(batch[p], batch[p]))
      BY <1>4, <2>2, ReturnEffect DEF Scan
    <3>2. pc[p] = "scan"  BY <1>4 DEF Scan
    <3>3. Orphaning(batch[p], batch[p])' => Orphaning(batch[p], batch[p])
      BY <1>b, <3>1 DEF Orphaning
    <3>. QED  BY <1>a, <2>2, <3>1, <3>2, <3>3 DEF CalmAt
  <2>. QED  BY <2>1, <2>2
<1>5. CASE Install(p)
  <2>1. PICK b \in NextUp(p, todo[p]) :
          /\ tombs' = tombs \cup {b}
          /\ todo' = [todo EXCEPT ![p] = @ \ {b}]
          /\ Go(p, IF LastOne(p, b) THEN "rescan" ELSE "install")
    BY <1>5 DEF Install
  <2>2. /\ batch'[p] = batch[p] /\ kind'[p] = kind[p] /\ target'[p] = target[p]
        /\ pc'[p] \in {"install", "rescan"} /\ pc[p] = "install"
        /\ todo'[p] = todo[p] \ {b}
    BY <1>5, <2>1 DEF Install
  <2>3. batch'[p] \ todo'[p] \subseteq tombs'  BY <2>1, <2>2 DEF CalmAt
  <2>4. Orphaning(batch[p], batch[p])' => Orphaning(batch[p], batch[p])
    BY <1>b, <2>2 DEF Orphaning
  <2>. QED  BY <1>b, <2>2, <2>3, <2>4 DEF CalmAt
<1>6. CASE Rescan(p)
  <2>1. todo[p] = {} /\ mine[p] \subseteq batch[p] /\ pc[p] = "rescan"
    BY <1>6, <1>c DEF Rescan, OpInv, ListInv
  <2>2. ~ChildSlippedIn(p)
    <3>1. CASE kind[p] = "cascade"
      BY <2>1, <3>1 DEF ChildSlippedIn, CalmAt, Descendants, Live
    <3>2. CASE kind[p] # "cascade"
      BY <2>1, <3>2 DEF ChildSlippedIn, CalmAt, Orphaning
    <3>. QED  BY <3>1, <3>2
  <2>3. /\ pc'[p] = "rehold" /\ kind'[p] = kind[p] /\ target'[p] = target[p]
        /\ batch'[p] = batch[p] /\ todo'[p] = todo[p]
    BY <1>6, <2>2 DEF Rescan
  <2>4. Orphaning(batch[p], batch[p])' => Orphaning(batch[p], batch[p])
    BY <1>b, <2>3 DEF Orphaning
  <2>. QED  BY <1>a, <1>b, <2>1, <2>3, <2>4 DEF CalmAt
<1>7. CASE Rehold(p)
  <2>1. mine[p] \subseteq batch[p] /\ batch[p] \subseteq Backups /\ pc[p] = "rehold"
    BY <1>7, <1>c DEF Rehold, OpInv, ListInv
  <2>2. ~HoldSlippedIn(p)
    BY <2>1 DEF HoldSlippedIn, Unheld, KeepsOff, Calm
  <2>3. pc'[p] = "done"  BY <1>7, <2>2 DEF Rehold
  <2>. QED  BY <2>3 DEF CalmAt
<1>8. CASE Crash(p)
  <2>1. pc'[p] = "done"  BY <1>8 DEF Crash
  <2>. QED  BY <2>1 DEF CalmAt
<1>. QED  BY <1>1, <1>2, <1>3, <1>4, <1>5, <1>6, <1>7, <1>8 DEF CalmStep

\* Another operation's step on a calm day keeps it too.
LEMMA CalmOther ==
  ASSUME BaseInv, NEW p \in Ops, Step(p), CalmStep(p), NEW q \in Ops, q # p, CalmAt(q)
  PROVE  CalmAt(q)'
<1>1. manifests' = manifests /\ tombs \subseteq tombs'  BY CalmRepo
<1>2. \A b : Descendants(b)' \subseteq Descendants(b)  BY <1>1, DescendantsShrink
<1>3. /\ pc'[q] = pc[q] /\ kind'[q] = kind[q] /\ target'[q] = target[q]
      /\ batch'[q] = batch[q] /\ todo'[q] = todo[q]
  BY Others
<1>4. Orphaning(batch[q], batch[q])' => Orphaning(batch[q], batch[q])
  BY <1>2, <1>3 DEF Orphaning
<1>. QED  BY <1>1, <1>2, <1>3, <1>4 DEF CalmAt

\* What the world does touches neither manifests nor tombstones nor a delete.
LEMMA WorldCalm ==
  ASSUME \/ \E b \in Backups : RemoveHold(b) \/ Lapse(b) \/ GCSweep(b)
         \/ GCScan \/ UNCHANGED vars
  PROVE  UNCHANGED <<locals, pc, mix, manifests, tombs, reported>>
BY DEF RemoveHold, Lapse, GCSweep, GCScan, vars, repo

\* So no step makes a delete of a calm day roll back.
LEMMA CalmInvKept ==
  ASSUME BaseInv, Unheld, CalmInv, [Next]_vars
  PROVE  CalmInv'
<1>1. ASSUME NEW p \in Ops, Step(p) PROVE CalmInv'
  <2>. SUFFICES ASSUME Calm' PROVE reported' \subseteq tombs' /\ \A q \in Ops : CalmAt(q)'
    BY DEF CalmInv
  <2>1. Calm  BY <1>1, Others DEF Calm
  <2>2. reported \subseteq tombs /\ \A q \in Ops : CalmAt(q)  BY <2>1 DEF CalmInv
  <2>3. CalmStep(p)  BY <1>1, <2>1, <2>2, CalmSteps DEF CalmAt
  <2>. QED  BY <1>1, <2>1, <2>2, <2>3, CalmRepo, CalmSelf, CalmOther
<1>2. ASSUME \/ \E b \in Backups : RemoveHold(b) \/ Lapse(b) \/ GCSweep(b)
             \/ GCScan \/ UNCHANGED vars
      PROVE  CalmInv'
  <2>1. UNCHANGED <<locals, pc, mix, manifests, tombs, reported>>  BY <1>2, WorldCalm
  <2>. QED
    BY <2>1 DEF CalmInv, Calm, CalmAt, Descendants, Orphaning, Live, locals
<1>. QED  BY <1>1, <1>2 DEF Next

\* A backup that a delete reported deleted stays deleted, for any number of
\* deletes, holds, commits, faults and crashes at once: a roll-back
\* (rollbackTombstones) takes back only the tombstones its own delete installed.
\* With cascades, which take back whatever is on their list, it holds because no
\* delete ever has to roll back as long as only deletes run.
THEOREM DeletedStays == Spec => []DeleteSticks
<1>. DEFINE Inv == BaseInv /\ Unheld /\ OwnInv /\ CalmInv
<1>1. Init => Inv
  <2>. SUFFICES ASSUME Init PROVE Unheld /\ OwnInv /\ CalmInv  BY InitBase
  <2>1. \A b \in Backups : Held(b) => b \notin tombs  BY DEF Init, Held, NoHold
  <2>. QED  BY <2>1 DEF Init, Unheld, KeepsOff, UndeletePhases, OwnInv, Owning, CalmInv, CalmAt
<1>2. Inv /\ [Next]_vars => Inv'
  BY BaseKept, UnheldKept, OwnInvKept, CalmInvKept
<1>3. Inv => DeleteSticks  BY DEF DeleteSticks, OwnInv, CalmInv, Calm
<1>. QED  BY <1>1, <1>2, <1>3, PTL DEF Spec

-----------------------------------------------------------------------------
(* No delete tears a chain.                                                  *)

\* Every set of numbers has a least member.
LEMMA Least ==
  ASSUME NEW T, T \subseteq Nat, T # {}
  PROVE  \E x \in T : \A y \in T : x <= y
<1>. DEFINE R == OpToRel(<, Nat)
<1>1. IsWellFoundedOn(R, Nat)  BY NatLessThanWellFounded
<1>2. PICK x \in T : \A y \in T : ~(<<y, x>> \in R)
  <2>. HIDE DEF R
  <2>. QED  BY <1>1, WFMin
<1>3. \A y \in T : ~(y < x)  BY <1>2 DEF OpToRel
<1>. QED  BY <1>3

\* The ancestors of a backup are what its definition says.
LEMMA AncestorsRec ==
  ASSUME NEW b \in Backups
  PROVE  Ancestors[b] = IF Parent[b] = 0 THEN {} ELSE {Parent[b]} \cup Ancestors[Parent[b]]
<1>. DEFINE Closed(C) == \A x \in C : Parent[x] # 0 => Parent[x] \in C
            Above(x) == {a \in Backups : \A C \in SUBSET Backups :
                            Closed(C) /\ (Parent[x] # 0 => Parent[x] \in C) => a \in C}
            F == [x \in Backups |-> Above(x)]
<1>1. ASSUME NEW x \in Backups
      PROVE  Above(x) = IF Parent[x] = 0 THEN {} ELSE {Parent[x]} \cup Above(Parent[x])
  <2>1. CASE Parent[x] = 0
    <3>1. {} \in SUBSET Backups /\ Closed({})  OBVIOUS
    <3>. QED  BY <2>1, <3>1
  <2>2. CASE Parent[x] # 0
    <3>. DEFINE u == Parent[x]
                D == {u} \cup Above(u)
    <3>1. u \in Backups  BY <2>2, ChainAssumption
    <3>2. D \subseteq Above(x)
      <4>1. ASSUME NEW C \in SUBSET Backups, Closed(C), u \in C, NEW a \in D PROVE a \in C
        BY <4>1
      <4>2. \A a \in D : a \in Backups  BY <3>1
      <4>3. ASSUME NEW a \in D PROVE a \in Above(x)
        <5>1. a \in Backups  BY <4>2
        <5>2. \A C \in SUBSET Backups :
                Closed(C) /\ (Parent[x] # 0 => Parent[x] \in C) => a \in C
          BY <2>2, <4>1
        <5>. HIDE DEF D
        <5>. QED  BY <5>1, <5>2
      <4>. QED  BY <4>3
    <3>3. Closed(Above(u))
      <4>. SUFFICES ASSUME NEW y \in Above(u), Parent[y] # 0 PROVE Parent[y] \in Above(u)
        OBVIOUS
      <4>1. Parent[y] \in Backups  BY ChainAssumption
      <4>2. ASSUME NEW C \in SUBSET Backups, Closed(C), Parent[u] # 0 => Parent[u] \in C
            PROVE  Parent[y] \in C
        BY <4>2
      <4>. QED  BY <4>1, <4>2
    <3>4. Parent[u] # 0 => Parent[u] \in Above(u)  BY <3>1, ChainAssumption
    <3>5. D \in SUBSET Backups /\ Closed(D) /\ u \in D
      BY <3>1, <3>3, <3>4
    <3>6. Above(x) \subseteq D  BY <2>2, <3>5
    <3>. QED  BY <2>2, <3>2, <3>6
  <2>. QED  BY <2>1, <2>2
<1>. HIDE DEF Above
<1>2. F = [x \in Backups |-> IF Parent[x] = 0 THEN {} ELSE {Parent[x]} \cup F[Parent[x]]]
  <2>1. \A x \in Backups : Parent[x] # 0 => Parent[x] \in Backups  BY ChainAssumption
  <2>. QED  BY <1>1, <2>1
<1>. HIDE DEF F
<1>3. Ancestors = [x \in Backups |-> IF Parent[x] = 0 THEN {} ELSE {Parent[x]} \cup Ancestors[Parent[x]]]
  BY <1>2, Zenon DEF Ancestors
<1>. QED  BY <1>3

\* Backup IDs sort by the time they were made, so after their ancestors'.
LEMMA AncestorsSmaller ==
  ASSUME \A b \in Backups : Parent[b] < b, NEW b \in Backups, NEW a \in Ancestors[b]
  PROVE  a \in Backups /\ a < b
<1>. DEFINE T == {x \in Backups : \E y \in Ancestors[x] : ~(y \in Backups /\ y < x)}
<1>1. SUFFICES ASSUME T # {} PROVE FALSE  OBVIOUS
<1>2. PICK x \in T : \A z \in T : x <= z
  <2>1. T \subseteq Nat  BY ChainAssumption
  <2>. HIDE DEF T
  <2>. QED  BY <1>1, <2>1, Least
<1>3. PICK y \in Ancestors[x] : ~(y \in Backups /\ y < x)  OBVIOUS
<1>4. x \in Backups  OBVIOUS
<1>5. Parent[x] \in Backups /\ Parent[x] < x /\ (y = Parent[x] \/ y \in Ancestors[Parent[x]])
  BY <1>3, <1>4, AncestorsRec, ChainAssumption
<1>6. x \in Nat /\ Parent[x] \in Nat /\ Backups \subseteq Nat  BY <1>4, <1>5, ChainAssumption
<1>7. Parent[x] \notin T
  <2>. HIDE DEF T
  <2>. QED  BY <1>2, <1>5, <1>6
<1>8. \A z \in Ancestors[Parent[x]] : z \in Backups /\ z < Parent[x]  BY <1>5, <1>7
<1>9. y \in Backups /\ y < x
  <2>. HIDE DEF T
  <2>1. CASE y = Parent[x]  BY <1>5, <2>1
  <2>2. CASE y \in Ancestors[Parent[x]]
    <3>1. y \in Nat /\ y \in Backups /\ y < Parent[x]  BY <1>6, <1>8, <2>2
    <3>. QED  BY <1>5, <1>6, <3>1
  <2>. QED  BY <1>5, <2>1, <2>2
<1>. QED  BY <1>3, <1>9

\* A live child of a backup descends from whatever that backup descends from.
LEMMA ChildDescends ==
  ASSUME NEW t \in Backups, NEW x \in Backups, x = t \/ x \in Descendants(t),
         NEW c \in Backups, Live(c), Parent[c] = x
  PROVE  c \in Descendants(t)
<1>1. x # 0  BY ChainAssumption
<1>2. Ancestors[c] = {x} \cup Ancestors[x]  BY <1>1, AncestorsRec
<1>3. CASE x = t  BY <1>2, <1>3 DEF Descendants
<1>4. CASE x \in Descendants(t)  BY <1>2, <1>4 DEF Descendants
<1>. QED  BY <1>3, <1>4

\* The root of a cascade sorts before the rest of its list.
LEMMA RootLeast ==
  ASSUME \A b \in Backups : Parent[b] < b, NEW t \in Backups, NEW x \in Descendants(t) \cup {t}
  PROVE  t <= x
<1>1. x \in Backups /\ (x = t \/ t \in Ancestors[x])  BY DEF Descendants
<1>2. x \in Nat /\ t \in Nat  BY <1>1, ChainAssumption
<1>3. x = t \/ t < x  BY <1>1, AncestorsSmaller
<1>. QED  BY <1>2, <1>3

\* A list that leaves no live child of its members out.
Whole(ids) == \A c \in Backups : Live(c) /\ Parent[c] \in ids => c \in ids

\* Deletes work on whole lists, a cascade on one whose least member is its root.
ChainInv ==
    Calm => /\ NeverTorn
            /\ \A p \in Ops : pc[p] \in Owning \cup {"holds"} /\ (pc[p] = "holds" => kind[p] = "cascade") =>
                 /\ Whole(batch[p])
                 /\ kind[p] = "cascade" => \A x \in batch[p] : target[p] <= x

\* A target is a number.
LEMMA TargetNat ==
  ASSUME BaseInv, NEW p \in Ops
  PROVE  target[p] \in Nat
<1>1. target[p] \in Backups \cup {0}  BY DEF BaseInv, TypeOK
<1>2. \A t \in Backups \cup {0} : t \in Nat  BY ChainAssumption
<1>. QED  BY <1>1, <1>2, Zenon

\* What a tombstone is put on next has no live child: that child would be on the
\* list, still to do, and would come first.
LEMMA LeafFirst ==
  ASSUME BaseInv, \A b \in Backups : Parent[b] < b, NEW p \in Ops, pc[p] # "done",
         Whole(batch[p]), batch[p] \ todo[p] \subseteq tombs,
         kind[p] = "cascade" => \A x \in batch[p] : target[p] <= x,
         NEW b \in NextUp(p, todo[p]), NEW c \in Backups, Live(c), Parent[c] = b
  PROVE  FALSE
<1>1. b \in todo[p] /\ b \in batch[p] /\ b \in Backups
  BY PicksFromList DEF BaseInv, TypeOK, OpInv, ListInv
<1>2. c \in todo[p]  BY <1>1 DEF Whole, Live
<1>3. b < c /\ b \in Nat /\ c \in Nat  BY <1>1, ChainAssumption
<1>4. CASE kind[p] # "cascade"
  <2>1. NextUp(p, todo[p]) = {x \in todo[p] : \A y \in todo[p] : x \notin Ancestors[y]}
    BY <1>4 DEF NextUp
  <2>2. b \in Ancestors[c]  BY <1>1, AncestorsRec, ChainAssumption
  <2>. QED  BY <1>2, <2>1, <2>2
<1>5. CASE kind[p] = "cascade"
  <2>0. target[p] <= b  BY <1>1, <1>5
  <2>1. target[p] \in Nat  BY TargetNat
  <2>2. c # target[p]  BY <1>3, <2>0, <2>1
  <2>3. c \in todo[p] \ {target[p]}  BY <1>2, <2>2
  <2>4. NextUp(p, todo[p])
          = {x \in todo[p] \ {target[p]} : \A y \in todo[p] \ {target[p]} : y <= x}
    BY <1>5, <2>3 DEF NextUp
  <2>. QED  BY <1>3, <2>3, <2>4
<1>. QED  BY <1>4, <1>5

\* A whole list stays whole while tombstones only come.
LEMMA WholeKept ==
  ASSUME manifests' = manifests, tombs \subseteq tombs', NEW ids, Whole(ids)
  PROVE  \A c \in Backups : Live(c)' /\ Parent[c] \in ids => c \in ids
BY DEF Whole, Live

\* A step on a calm day tears no chain.
LEMMA CalmNotTorn ==
  ASSUME BaseInv, Calm, CalmInv, ChainInv, \A b \in Backups : Parent[b] < b,
         NEW p \in Ops, CalmStep(p)
  PROVE  \A b \in Backups : Live(b)' /\ Parent[b] # 0 => Parent[b] \notin tombs'
<1>1. manifests' = manifests /\ tombs \subseteq tombs'  BY CalmRepo
<1>2. \A b \in Backups : Live(b) /\ Parent[b] # 0 => Parent[b] \notin tombs
  BY DEF ChainInv, NeverTorn, Calm
<1>3. \A b \in Backups : Live(b)' => Live(b)  BY <1>1 DEF Live
<1>4. CASE Install(p)
  <2>1. PICK b \in NextUp(p, todo[p]) : tombs' = tombs \cup {b}  BY <1>4 DEF Install
  <2>2. pc[p] = "install"  BY <1>4 DEF Install
  <2>3. /\ Whole(batch[p]) /\ batch[p] \ todo[p] \subseteq tombs
        /\ kind[p] = "cascade" => \A x \in batch[p] : target[p] <= x
    BY <2>2 DEF ChainInv, CalmInv, CalmAt, Owning
  <2>4. \A c \in Backups : ~(Live(c) /\ Parent[c] = b)  BY <2>2, <2>3, LeafFirst
  <2>. QED  BY <1>2, <1>3, <2>1, <2>4
<1>5. CASE ~Install(p)
  <2>1. tombs' = tombs
    BY <1>5, ReturnEffect DEF CalmStep, BeginDelete, BeginCascade, CheckHolds, Scan, Rescan, Rehold,
       Crash, repo
  <2>. QED  BY <1>2, <1>3, <2>1
<1>. QED  BY <1>4, <1>5

\* And a delete's list is whole from its scan of the chain on.
LEMMA CalmWhole ==
  ASSUME BaseInv, Calm, ChainInv, \A b \in Backups : Parent[b] < b, NEW p \in Ops, CalmStep(p),
         pc'[p] \in Owning \cup {"holds"}, pc'[p] = "holds" => kind'[p] = "cascade"
  PROVE  Whole(batch[p])' /\ (kind'[p] = "cascade" => \A x \in batch'[p] : target'[p] <= x)
<1>a. manifests' = manifests /\ tombs \subseteq tombs'  BY CalmRepo
<1>b. OpInv(p)  BY DEF BaseInv
<1>. DEFINE Good == Whole(batch[p])' /\ (kind'[p] = "cascade" => \A x \in batch'[p] : target'[p] <= x)
<1>0. ASSUME pc[p] \in Owning \cup {"holds"}, pc[p] = "holds" => kind[p] = "cascade",
             batch'[p] = batch[p], kind'[p] = kind[p], target'[p] = target[p]
      PROVE  Good
  <2>1. Whole(batch[p]) /\ (kind[p] = "cascade" => \A x \in batch[p] : target[p] <= x)
    BY <1>0 DEF ChainInv
  <2>2. Whole(batch[p])'  BY <1>a, <1>0, <2>1, WholeKept DEF Whole
  <2>. QED  BY <1>0, <2>1, <2>2
<1>. USE DEF BaseInv, TypeOK, Results, repo, locals, Goto, Go
<1>1. ASSUME NEW ids \in SUBSET Backups, BeginDelete(p, ids) PROVE Good
  BY <1>1 DEF BeginDelete, Begin
<1>2. ASSUME NEW b \in Backups, BeginCascade(p, b) PROVE Good
  BY <1>2 DEF BeginCascade, Begin, Owning
<1>3. CASE CheckHolds(p)
  <2>1. pc[p] = "holds" /\ UNCHANGED <<batch, kind, target>>  BY <1>3 DEF CheckHolds
  <2>2. kind[p] = "cascade"  BY <1>3, ReturnEffect DEF CheckHolds, Owning
  <2>. QED  BY <1>0, <2>1, <2>2
<1>4. CASE Scan(p)
  <2>1. CASE kind[p] = "cascade"
    <3>. DEFINE all == Descendants(target[p]) \cup {target[p]}
    <3>1. kind'[p] = kind[p] /\ target'[p] = target[p] /\ batch' = [batch EXCEPT ![p] = all]
      BY <1>4, <2>1 DEF Scan
    <3>2. target[p] \in Backups  BY <1>4, <1>b, <2>1 DEF Scan, OpInv, PhaseInv
    <3>3. all \subseteq Backups  BY <3>2 DEF Descendants
    <3>4. Whole(all)
      <4>. SUFFICES ASSUME NEW c \in Backups, Live(c), Parent[c] \in all PROVE c \in all  BY DEF Whole
      <4>. QED  BY <3>2, <3>3, ChildDescends
    <3>5. \A x \in all : target[p] <= x
      BY <3>2, RootLeast
    <3>. HIDE DEF all
    <3>6. batch'[p] = all  BY <3>1
    <3>. QED  BY <1>a, <3>1, <3>4, <3>5, <3>6, WholeKept DEF Whole
  <2>2. CASE kind[p] # "cascade"
    <3>1. kind'[p] = kind[p] /\ batch'[p] = batch[p] /\ ~Orphaning(batch[p], batch[p])
      BY <1>4, <2>2, ReturnEffect DEF Scan, Owning
    <3>2. Whole(batch[p])
      <4>. SUFFICES ASSUME NEW c \in Backups, Live(c), Parent[c] \in batch[p] PROVE c \in batch[p]
        BY DEF Whole
      <4>1. c \in Descendants(Parent[c])  BY ChildDescends
      <4>. QED  BY <3>1, <4>1 DEF Orphaning
    <3>. QED  BY <1>a, <2>2, <3>1, <3>2, WholeKept DEF Whole
  <2>. QED  BY <2>1, <2>2
<1>5. CASE Install(p)  BY <1>0, <1>5 DEF Install, Owning
<1>6. CASE Rescan(p)
  <2>1. pc[p] = "rescan" /\ UNCHANGED <<batch, kind, target>>  BY <1>6 DEF Rescan
  <2>. QED  BY <1>0, <2>1 DEF Owning
<1>7. CASE Rehold(p)
  <2>1. pc[p] = "rehold" /\ UNCHANGED <<batch, kind, target>>  BY <1>7 DEF Rehold
  <2>. QED  BY <1>0, <2>1 DEF Owning
<1>8. CASE Crash(p)  BY <1>8 DEF Crash, Owning
<1>. QED  BY <1>1, <1>2, <1>3, <1>4, <1>5, <1>6, <1>7, <1>8 DEF CalmStep

\* Every step keeps chains and lists whole.
LEMMA ChainInvKept ==
  ASSUME BaseInv, CalmInv, ChainInv, [Next]_vars, \A b \in Backups : Parent[b] < b
  PROVE  ChainInv'
<1>. DEFINE At(q) == pc[q] \in Owning \cup {"holds"} /\ (pc[q] = "holds" => kind[q] = "cascade")
            Lists(q) == /\ Whole(batch[q])
                        /\ kind[q] = "cascade" => \A x \in batch[q] : target[q] <= x
<1>1. ASSUME NEW p \in Ops, Step(p) PROVE ChainInv'
  <2>. SUFFICES ASSUME Calm' PROVE NeverTorn' /\ \A q \in Ops : At(q)' => Lists(q)'
    BY DEF ChainInv
  <2>1. Calm  BY <1>1, Others DEF Calm
  <2>2. CalmStep(p)  BY <1>1, <2>1, CalmSteps DEF CalmInv, CalmAt
  <2>3. NeverTorn'  BY <2>1, <2>2, CalmNotTorn DEF NeverTorn
  <2>4. At(p)' => Lists(p)'  BY <2>1, <2>2, CalmWhole
  <2>5. ASSUME NEW q \in Ops, q # p, At(q)' PROVE Lists(q)'
    <3>1. pc'[q] = pc[q] /\ kind'[q] = kind[q] /\ target'[q] = target[q] /\ batch'[q] = batch[q]
      BY <1>1, <2>5, Others
    <3>2. Lists(q)  BY <2>1, <2>5, <3>1 DEF ChainInv
    <3>3. Whole(batch[q])'  BY <2>2, <3>1, <3>2, CalmRepo, WholeKept DEF Whole
    <3>. QED  BY <3>1, <3>2, <3>3
  <2>. QED  BY <2>3, <2>4, <2>5
<1>2. ASSUME \/ \E b \in Backups : RemoveHold(b) \/ Lapse(b) \/ GCSweep(b)
             \/ GCScan \/ UNCHANGED vars
      PROVE  ChainInv'
  <2>1. UNCHANGED <<locals, pc, mix, manifests, tombs, reported>>  BY <1>2, WorldCalm
  <2>. QED  BY <2>1 DEF ChainInv, Calm, NeverTorn, Whole, Live, locals
<1>. QED  BY <1>1, <1>2 DEF Next

\* Wherever deletes, batches and cascades die, and however many run at once, no
\* live incremental stands on a tombstoned parent: SoftDeleteCascade goes backwards
\* through its sorted list and SoftDeleteBatch newest first.  The premise is that
\* a backup's ID, which begins with its start by the wall clock, sorts after its
\* parent's; where a clock stepped back, a cascade does tear the chain.
THEOREM ChainNeverTorn ==
  ASSUME \A b \in Backups : Parent[b] < b
  PROVE  Spec => []NeverTorn
<1>. DEFINE Inv == BaseInv /\ Unheld /\ CalmInv /\ ChainInv
<1>1. Init => Inv
  <2>. SUFFICES ASSUME Init PROVE Unheld /\ CalmInv /\ ChainInv  BY InitBase
  <2>1. \A b \in Backups : Held(b) => b \notin tombs  BY DEF Init, Held, NoHold
  <2>2. Unheld /\ CalmInv
    BY <2>1 DEF Init, Unheld, KeepsOff, UndeletePhases, Owning, CalmInv, CalmAt
  <2>3. NeverTorn
    <3>1. ASSUME NEW b \in Backups, Live(b), Parent[b] # 0 PROVE Parent[b] \in Ancestors[b]
      BY <3>1, AncestorsRec
    <3>. QED  BY <3>1 DEF Init, NeverTorn, Live
  <2>. QED  BY <2>2, <2>3 DEF Init, ChainInv, Owning
<1>2. Inv /\ [Next]_vars => Inv'
  BY BaseKept, UnheldKept, CalmInvKept, ChainInvKept
<1>3. Inv => NeverTorn  BY DEF NeverTorn, ChainInv, Calm
<1>. QED  BY <1>1, <1>2, <1>3, PTL DEF Spec

-----------------------------------------------------------------------------
(* Two operations leave every chain whole.                                   *)

\* Operations: nobody says that it leaves the repository in doubt, gc has taken
\* nothing, and the kinds are of those that leave a chain whole, two at a time.
Sound ==
    /\ ~Admitted /\ swept = {} /\ \A p \in Ops : res[p] # "undone"
    /\ "cascade" \notin mix /\ ~({"batch", "undelete"} \subseteq mix)

Committing(p) == pc[p] \in {"parent", "unput"}

\* No manifest is without its parent's, but one whose commit has yet to look.
CommitInv ==
    /\ \A p \in Ops : kind[p] = "commit" /\ pc[p] = "put" => target[p] \notin manifests
    /\ \A p, q \in Ops : kind[p] = "commit" /\ kind[q] = "commit" /\ target[p] = target[q] => p = q
    /\ \A p, q \in Ops : Committing(p) /\ Committing(q) => p = q
    /\ \A c \in manifests : Parent[c] # 0 =>
         Parent[c] \in manifests \/ \E p \in Ops : Committing(p) /\ target[p] = c
    /\ \A p \in Ops : Committing(p) => \A c \in manifests : Parent[c] # target[p]

\* p sees to it that c does not stay on a parent that is gone.
Mends(p, c) ==
    \/ Committing(p) /\ target[p] = c
    \/ Parent[c] \in mine[p] /\ ((pc[p] \in {"install", "rescan"} /\ c \notin batch[p]) \/ pc[p] = "rollback")
    \/ /\ target[p] = c
       /\ pc[p] \in {"recheck", "remark"} \/ (pc[p] = "rewalk" /\ at[p] = c)

MendedInv == \A c \in Backups : Live(c) /\ Parent[c] # 0 /\ ~Live(Parent[c]) => \E p \in Ops : Mends(p, c)

\* What only an operation of another kind can have changed for a delete.
ScanInv(p) ==
    /\ kind[p] = "delete" => \A x, y \in batch[p] : x = y
    /\ pc[p] \in {"install", "rescan"} /\ (\A q \in Ops \ {p} : kind[q] \notin {"commit", "undelete"}) =>
         ~Orphaning(batch[p], batch[p])
    /\ pc[p] \in {"scan", "install", "rescan", "rehold"} /\ (\A q \in Ops \ {p} : kind[q] # "hold") =>
         \A b \in batch[p] : ~Held(b)
    /\ pc[p] = "rollback" => \E q \in Ops \ {p} : kind[q] \in {"commit", "undelete", "hold"}
    /\ kind[p] = "batch" /\ pc[p] \in {"holds", "scan", "install", "rescan"} => batch[p] \ todo[p] \subseteq tombs

\* What a delete would give back has a parent to go to.
GiveBackInv(p) ==
    pc[p] \in Owning /\ (\A q \in Ops \ {p} : kind[q] \notin {"delete", "batch"}) =>
      \A a \in mine[p] \cap manifests :
        Parent[a] = 0 \/ Live(Parent[a]) \/ Parent[a] \in mine[p] \/ \E q \in Ops : Committing(q) /\ target[q] = a

\* The ancestors that an undelete has seen without a tombstone.
Walked(p) == IF pc[p] = "walk" THEN Ancestors[target[p]] \ Ancestors[at[p]] ELSE Ancestors[target[p]]

\* An undelete meets only tombstones of a delete that came after its first walk,
\* and becomes visible without live children.
UndeleteInv(p) ==
    /\ pc[p] \in {"walk", "rewalk"} =>
         at[p] \in {target[p]} \cup Ancestors[target[p]] /\ Ancestors[at[p]] \subseteq Ancestors[target[p]]
    /\ pc[p] \in {"walk", "unmark", "recheck", "rewalk", "remark"} =>
         \A y \in Walked(p) \cap tombs : \E q \in Ops : kind[q] = "delete" /\ y \in batch[q]
    /\ pc[p] = "remark" => \E q \in Ops : kind[q] = "delete" /\ batch[q] \cap Ancestors[target[p]] # {}
    /\ pc[p] \in UndeletePhases =>
         \A c \in manifests : Parent[c] = target[p] /\ (c \notin tombs \/ \E q \in Ops : pc[q] \in Owning /\ c \in mine[q]) =>
           \E q \in Ops \ {p} : kind[q] \in {"commit", "undelete"}

PairOK ==
    /\ CommitInv /\ MendedInv
    /\ \A p \in Ops : ScanInv(p) /\ GiveBackInv(p) /\ UndeleteInv(p)

PairInv == Sound => PairOK

\* There are two operations, and no backup is built upon itself.
TwoOps == \A p, q, r \in Ops : p = q \/ q = r \/ p = r
NoCycle == \A b \in Backups : b \notin Ancestors[b]

\* Doubts, and what gc took, stay.
LEMMA SoundBefore ==
  ASSUME BaseInv, [Next]_vars, Sound'
  PROVE  Sound
<1>1. ASSUME NEW p \in Ops, Step(p) PROVE Sound
  <2>1. mix' = mix /\ \A q \in Ops : q # p => res'[q] = res[q] /\ kind'[q] = kind[q]
    BY <1>1, Others
  <2>2. swept' = swept
    BY <1>1 DEF Step, BeginCommit, BeginCascade, BeginUndelete, BeginDelete, BeginHold, Begin, CommitPut, LockFails,
       CheckParent, Unput, CheckHolds, Scan, Install, Rescan, Rehold, Rollback, Preflight, Walk, Unmark, Recheck,
       Remark, LookForHold, GetHold, PutHold, CheckTombstone, DropHold, OpFails, UndoFails, Crash, repo
  <2>3. kind[p] = "force" => kind'[p] = "force"
    BY <1>1, Others DEF BaseInv, OpInv, PhaseInv
  <2>4. res[p] \in {"partial", "unverified", "stuck", "crashed", "undone"} => pc[p] = "rollback"
    BY <1>1, StepShape DEF BaseInv, OpInv, ResultInv
  <2>5. ASSUME pc[p] = "rollback", res[p] \in {"partial", "unverified", "stuck", "crashed", "undone"}
        PROVE  res'[p] \in {"stuck", "crashed", "undone"}
    <3>1. res[p] \in {"undone", "stuck"}  BY <2>5 DEF BaseInv, OpInv, ResultInv
    <3>2. Rollback(p) \/ UndoFails(p) \/ Crash(p)
      BY <1>1, <2>5 DEF Step, BeginCommit, BeginCascade, BeginUndelete, BeginDelete, BeginHold, Begin, CommitPut,
         LockFails, CheckParent, Unput, CheckHolds, Scan, Install, Rescan, Rehold, Preflight, Walk, Unmark, Recheck,
         Remark, LookForHold, GetHold, PutHold, CheckTombstone, DropHold, OpFails
    <3>. QED
      BY <3>1, <3>2, ReturnEffect DEF Rollback, UndoFails, Crash, Go, BaseInv, TypeOK, Results
  <2>6. ~Admitted  BY <2>1, <2>3, <2>4, <2>5 DEF Sound, Admitted
  <2>7. \A q \in Ops : res[q] # "undone"  BY <2>1, <2>4, <2>5 DEF Sound, Admitted
  <2>. QED  BY <2>1, <2>2, <2>6, <2>7 DEF Sound
<1>2. CASE \/ \E b \in Backups : RemoveHold(b) \/ Lapse(b) \/ GCSweep(b)
           \/ GCScan \/ UNCHANGED vars
  <2>1. UNCHANGED <<mix, kind, res>> /\ swept \subseteq swept'
    BY <1>2 DEF RemoveHold, Lapse, GCSweep, GCScan, vars, repo, locals
  <2>. QED  BY <2>1 DEF Sound, Admitted
<1>. QED  BY <1>1, <1>2 DEF Next

\* Manifests and tombstones stay, and so does what p works on.
Still == manifests' = manifests /\ tombs' = tombs
Keeps(p) == kind'[p] = kind[p] /\ target'[p] = target[p] /\ batch'[p] = batch[p]

\* p begins.
Begins(p) ==
    /\ Still /\ pc[p] = "idle" /\ kind[p] = "none" /\ mine[p] = {} /\ mine'[p] = {}
    /\ \/ /\ kind'[p] = "commit" /\ pc'[p] = "put" /\ batch'[p] = batch[p]
          /\ target'[p] \notin manifests /\ \A q \in Ops : kind[q] = "commit" => target[q] # target'[p]
       \/ /\ kind'[p] \in {"delete", "batch"} /\ pc'[p] = "holds" /\ todo'[p] = batch'[p]
          /\ kind'[p] = "delete" => \A x, y \in batch'[p] : x = y
       \/ /\ kind'[p] = "undelete" /\ pc'[p] = "preflight" /\ batch'[p] = batch[p]
          /\ target'[p] \in tombs \cap manifests
       \/ kind'[p] = "hold" /\ pc'[p] = "look" /\ batch'[p] = batch[p]

\* p reads, and goes on or gives up.
Reads(p) ==
    /\ Still /\ Keeps(p) /\ mine'[p] = mine[p] /\ todo'[p] = todo[p]
    /\ \/ pc[p] \in {"put", "holds", "scan", "preflight", "walk"} /\ pc'[p] = "done"
       \/ pc[p] = "parent" /\ pc'[p] = "done" /\ Live(Parent[target[p]])
       \/ pc[p] = "parent" /\ pc'[p] = "unput"
       \/ pc[p] = "holds" /\ pc'[p] = "scan" /\ \A b \in batch[p] : ~Held(b)
       \/ pc[p] = "scan" /\ pc'[p] = "install" /\ ~Orphaning(batch[p], batch[p])
       \/ pc[p] = "rescan" /\ pc'[p] = "rehold" /\ ~Orphaning(mine[p], batch[p])
       \/ pc[p] = "rescan" /\ pc'[p] = "rollback" /\ Orphaning(mine[p], batch[p])
       \/ pc[p] = "rehold" /\ pc'[p] = "done"
       \/ pc[p] = "rehold" /\ pc'[p] = "rollback" /\ \E b \in mine[p] : Held(b)
       \/ pc[p] = "rollback" /\ pc'[p] = "done" /\ mine[p] = {}
       \/ pc[p] = "unmark" /\ pc'[p] = "done"
       \/ pc[p] \in HoldPhases /\ pc'[p] \in HoldPhases \cup {"done"}

\* An undelete walks.
Walks(p) ==
    /\ Still /\ Keeps(p) /\ mine'[p] = mine[p]
    /\ \/ pc[p] = "preflight" /\ pc'[p] = "walk" /\ at'[p] = target[p]
       \/ pc[p] = "walk" /\ pc'[p] = "unmark" /\ Parent[at[p]] = 0
       \/ pc[p] = "recheck" /\ pc'[p] = "rewalk" /\ at'[p] = target[p]
       \/ pc[p] = "rewalk" /\ pc'[p] = "done" /\ Parent[at[p]] = 0
       \/ pc[p] = "rewalk" /\ pc'[p] = "remark" /\ Parent[at[p]] # 0 /\ Parent[at[p]] \in tombs
       \/ /\ pc[p] \in {"walk", "rewalk"} /\ pc'[p] = pc[p]
          /\ Parent[at[p]] # 0 /\ Live(Parent[at[p]]) /\ at'[p] = Parent[at[p]]

\* p writes.
Writes(p) ==
    /\ Keeps(p)
    /\ \/ /\ pc[p] = "put" /\ LeaseFree /\ tombs' = tombs /\ manifests' = manifests \cup {target[p]}
          /\ pc'[p] \in {"parent", "unput"} \/ (pc'[p] = "done" /\ Parent[target[p]] = 0)
          /\ mine'[p] = mine[p]
       \/ /\ pc[p] = "unput" /\ pc'[p] = "done" /\ tombs' = tombs /\ manifests' = manifests \ {target[p]}
          /\ mine'[p] = mine[p]
       \/ /\ pc[p] = "unmark" /\ pc'[p] = "recheck" /\ manifests' = manifests /\ tombs' = tombs \ {target[p]}
          /\ mine'[p] = mine[p]
       \/ /\ pc[p] = "remark" /\ pc'[p] = "done" /\ manifests' = manifests /\ tombs' = tombs \cup {target[p]}
          /\ mine'[p] = mine[p]

\* A delete tombstones b, or takes that back.
Tombs(p, b) ==
    /\ Keeps(p) /\ manifests' = manifests /\ b \in batch[p]
    /\ pc[p] = "install" /\ pc'[p] \in {"install", "rescan"} /\ kind[p] \in {"delete", "batch"}
    /\ b \in todo[p] /\ \A c \in todo[p] : b \notin Ancestors[c]
    /\ tombs' = tombs \cup {b} /\ todo'[p] = todo[p] \ {b}
    /\ mine'[p] = IF b \in tombs THEN mine[p] ELSE mine[p] \cup {b}

Untombs(p, b) ==
    /\ Keeps(p) /\ manifests' = manifests /\ b \in mine[p]
    /\ pc[p] = "rollback" /\ pc'[p] = "rollback"
    /\ tombs' = tombs \ {b} /\ mine'[p] = mine[p] \ {b}

\* There is nothing else that p can do.
LEMMA PairSteps ==
  ASSUME BaseInv, Sound, Sound', NEW p \in Ops, Step(p)
  PROVE  Begins(p) \/ Reads(p) \/ Walks(p) \/ Writes(p) \/ \E b \in Backups : Tombs(p, b) \/ Untombs(p, b)
<1>. DEFINE G == Begins(p) \/ Reads(p) \/ Walks(p) \/ Writes(p) \/ \E b \in Backups : Tombs(p, b) \/ Untombs(p, b)
<1>. SUFFICES G  OBVIOUS
<1>s. /\ mix' = mix /\ "cascade" \notin mix
      /\ kind'[p] # "force" /\ res'[p] \notin {"partial", "unverified", "stuck", "crashed", "undone"}
      /\ kind[p] # "force" /\ swept = {}
  BY Others DEF Sound, Admitted
<1>o. OpInv(p) /\ kind[p] # "cascade"
  BY <1>s DEF BaseInv, OpInv, PhaseInv
<1>t. /\ pc \in [Ops -> Phases] /\ kind \in [Ops -> AllKinds \cup {"none"}] /\ res \in [Ops -> Results]
      /\ target \in [Ops -> Backups \cup {0}] /\ at \in [Ops -> Backups \cup {0}] /\ batch \in [Ops -> SUBSET Backups]
      /\ todo \in [Ops -> SUBSET Backups] /\ mine \in [Ops -> SUBSET Backups]
  BY DEF BaseInv, TypeOK
<1>r. \A r \in Results : Return(p, r) =>
        pc' = [pc EXCEPT ![p] = "done"] /\ res'[p] = IF res[p] \in {"undone", "stuck"} THEN res[p] ELSE r
  BY ReturnEffect DEF BaseInv
<1>. USE DEF Results, Begins, Reads, Walks, Writes, Still, Keeps, repo, locals, Goto, Go, OpInv, PhaseInv, ListInv, HoldPhases
<1>1. ASSUME NEW d \in Backups, BeginCommit(p, d) PROVE G
  BY <1>1, <1>o, <1>t DEF BeginCommit, Begin
<1>2. ASSUME NEW d \in Backups, BeginCascade(p, d) PROVE G
  BY <1>2, <1>s, <1>t DEF BeginCascade, Begin
<1>3. ASSUME NEW d \in Backups, BeginUndelete(p, d) PROVE G
  BY <1>3, <1>o, <1>s, <1>t DEF BeginUndelete, Begin
<1>4. ASSUME NEW ids \in SUBSET Backups, BeginDelete(p, ids) PROVE G
  <2>1. /\ pc[p] = "idle" /\ kind' = [kind EXCEPT ![p] = IF \E b \in ids : ids = {b} THEN "delete" ELSE "batch"]
        /\ pc' = [pc EXCEPT ![p] = "holds"] /\ batch' = [batch EXCEPT ![p] = ids]
        /\ todo' = [todo EXCEPT ![p] = ids] /\ UNCHANGED <<mine, manifests, tombs>> /\ ids # {}
    BY <1>4 DEF BeginDelete, Begin
  <2>. QED  BY <2>1, <1>o, <1>t
<1>5. ASSUME NEW d \in Backups, NEW h \in Holds, BeginHold(p, d, h) PROVE G
  BY <1>5, <1>o, <1>t DEF BeginHold, Begin
<1>6. CASE CommitPut(p)  BY <1>6, <1>r, <1>t DEF CommitPut
<1>7. CASE LockFails(p)  BY <1>7, <1>t DEF LockFails
<1>8. CASE CheckParent(p)  BY <1>8, <1>r, <1>t DEF CheckParent, ParentStillLive
<1>9. CASE Unput(p)  BY <1>9, <1>r, <1>t DEF Unput
<1>10. CASE CheckHolds(p)  BY <1>10, <1>o, <1>r, <1>t DEF CheckHolds
<1>11. CASE Scan(p)  BY <1>11, <1>o, <1>r, <1>t DEF Scan
<1>12. CASE Install(p)
  <2>1. PICK b \in NextUp(p, todo[p]) :
          /\ tombs' = tombs \cup {b} /\ todo' = [todo EXCEPT ![p] = @ \ {b}]
          /\ mine' = [mine EXCEPT ![p] = IF TakesBack(p, b) THEN @ \cup {b} ELSE @]
          /\ Go(p, IF LastOne(p, b) THEN "rescan" ELSE "install")
    BY <1>12 DEF Install
  <2>2. b \in todo[p] /\ \A c \in todo[p] : b \notin Ancestors[c]  BY <1>o DEF NextUp
  <2>3. kind[p] \in {"delete", "batch"} /\ pc[p] = "install" /\ UNCHANGED <<kind, target, batch, manifests>>
    BY <1>12, <1>o DEF Install, DeletePhases, Deletes
  <2>4. mine'[p] = IF b \in tombs THEN mine[p] ELSE mine[p] \cup {b}  BY <2>1, <1>o, <1>t DEF TakesBack
  <2>5. b \in batch[p] /\ b \in Backups  BY <2>2, <1>o, <1>t
  <2>. QED  BY <2>1, <2>2, <2>3, <2>4, <2>5, <1>t DEF Tombs
<1>13. CASE Rescan(p)  BY <1>13, <1>o, <1>t DEF Rescan, ChildSlippedIn
<1>14. CASE Rehold(p)  BY <1>14, <1>t DEF Rehold, HoldSlippedIn
<1>15. CASE Rollback(p)
  <2>1. CASE mine[p] = {} /\ Return(p, "refused") /\ UNCHANGED <<tombs, mine>>
    BY <1>15, <2>1, <1>r, <1>t DEF Rollback
  <2>2. ASSUME NEW b \in NextUp(p, mine[p]), tombs' = tombs \ {b}, mine' = [mine EXCEPT ![p] = @ \ {b}], Go(p, "rollback")
        PROVE  G
    <3>1. b \in mine[p] /\ b \in Backups  BY <2>2, <1>t, PicksFromList
    <3>. QED  BY <1>15, <2>2, <3>1, <1>t DEF Rollback, Untombs
  <2>. QED  BY <1>15, <2>1, <2>2 DEF Rollback
<1>16. CASE Preflight(p)  BY <1>16, <1>s, <1>t DEF Preflight
<1>17. CASE Walk(p)
  <2>1. CASE Parent[at[p]] = 0
    <3>1. Return(p, "ok") => pc'[p] = "done"  BY <1>r, <1>t
    <3>2. 0 \notin tombs /\ 0 \notin manifests  BY ChainAssumption DEF BaseInv, TypeOK
    <3>3. /\ pc[p] \in {"walk", "rewalk"} /\ UNCHANGED <<manifests, tombs, kind, target, batch, mine>>
      BY <1>17 DEF Walk
    <3>4. CASE pc[p] = "walk"
      <4>1. pc' = [pc EXCEPT ![p] = "unmark"]  BY <1>17, <2>1, <3>2, <3>4 DEF Walk
      <4>. QED  BY <2>1, <3>3, <3>4, <4>1, <1>t
    <3>5. CASE pc[p] = "rewalk"
      <4>1. Return(p, "ok")  BY <1>17, <2>1, <3>2, <3>5 DEF Walk
      <4>. QED  BY <2>1, <3>1, <3>3, <3>5, <4>1, <1>t
    <3>. QED  BY <3>3, <3>4, <3>5
  <2>2. CASE Parent[at[p]] # 0 /\ Parent[at[p]] \in tombs  BY <1>17, <2>2, <1>r, <1>t DEF Walk
  <2>3. CASE Parent[at[p]] # 0 /\ Parent[at[p]] \notin manifests \cup tombs
    BY <1>17, <2>3, <1>r, <1>s, <1>o, <1>t DEF Walk, ResultInv
  <2>4. CASE Parent[at[p]] # 0 /\ Parent[at[p]] \notin tombs /\ Parent[at[p]] \in manifests
    BY <1>17, <2>4, <1>t DEF Walk, Live
  <2>. QED  BY <2>1, <2>2, <2>3, <2>4
<1>18. CASE Unmark(p)
  BY <1>18, <1>o, <1>s, <1>t DEF Unmark, UndeletePhases
<1>19. CASE Recheck(p)  BY <1>19, <1>s, <1>t DEF Recheck, WalkAgain
<1>20. CASE Remark(p)  BY <1>20, <1>r, <1>t DEF Remark
<1>21. CASE LookForHold(p)  BY <1>21, <1>r, <1>t DEF LookForHold
<1>22. CASE GetHold(p)  BY <1>22, <1>r, <1>t DEF GetHold
<1>23. CASE PutHold(p)  BY <1>23, <1>t DEF PutHold
<1>24. CASE CheckTombstone(p)  BY <1>24, <1>r, <1>t DEF CheckTombstone
<1>25. CASE DropHold(p)  BY <1>25, <1>r, <1>t DEF DropHold
<1>26. CASE OpFails(p)  BY <1>26, <1>r, <1>s, <1>o, <1>t DEF OpFails, ResultInv
<1>27. CASE UndoFails(p)  BY <1>27, <1>s, <1>t DEF UndoFails
<1>28. CASE Crash(p)  BY <1>28, <1>s, <1>t DEF Crash
<1>. HIDE DEF G
<1>. QED
  BY <1>1, <1>2, <1>3, <1>4, <1>5, <1>6, <1>7, <1>8, <1>9, <1>10, <1>11, <1>12, <1>13, <1>14,
     <1>15, <1>16, <1>17, <1>18, <1>19, <1>20, <1>21, <1>22, <1>23, <1>24, <1>25, <1>26,
     <1>27, <1>28 DEF Step

\* What the others have stays.
LEMMA OthersStay ==
  ASSUME BaseInv, NEW p \in Ops, Step(p), NEW q \in Ops, q # p
  PROVE  /\ pc'[q] = pc[q] /\ kind'[q] = kind[q] /\ target'[q] = target[q] /\ batch'[q] = batch[q]
         /\ todo'[q] = todo[q] /\ mine'[q] = mine[q] /\ at'[q] = at[q]
<1>1. at'[q] = at[q]
  <2>1. UNCHANGED at \/ \E x : at' = [at EXCEPT ![p] = x]
    BY DEF Step, BeginCommit, BeginCascade, BeginUndelete, BeginDelete, BeginHold, CommitPut, LockFails,
       CheckParent, Unput, CheckHolds, Scan, Install, Rescan, Rehold, Rollback, Preflight, Walk, Unmark, Recheck,
       Remark, LookForHold, GetHold, PutHold, CheckTombstone, DropHold, OpFails, UndoFails, Crash, locals, WalkAgain
  <2>. QED  BY <2>1 DEF BaseInv, TypeOK
<1>. QED  BY <1>1, Others

\* Kinds and their phases.
LEMMA PairKinds ==
  ASSUME BaseInv, Sound, NEW p \in Ops
  PROVE  /\ pc[p] \in {"put", "parent", "unput"} => kind[p] = "commit" /\ target[p] \in Backups
         /\ pc[p] \in DeletePhases => kind[p] \in {"delete", "batch"}
         /\ pc[p] \in UndeletePhases => kind[p] = "undelete" /\ target[p] \in Backups
         /\ pc[p] \in HoldPhases => kind[p] = "hold"
         /\ pc[p] = "idle" => kind[p] = "none" /\ batch[p] = {}
         /\ ~("batch" \in mix /\ "undelete" \in mix)
         /\ kind[p] # "none" => kind[p] \in mix
         /\ kind[p] \in {"none", "commit", "delete", "batch", "undelete", "hold"} \cup {"release", "lapse", "gc", "fault", "crash"}
         /\ mine[p] \subseteq batch[p] /\ mine[p] \subseteq Backups /\ batch[p] \subseteq Backups
<1>1. OpInv(p) /\ kind[p] # "force" /\ kind[p] # "cascade"  BY DEF BaseInv, OpInv, PhaseInv, Sound, Admitted
<1>. QED  BY <1>1 DEF BaseInv, TypeOK, OpInv, PhaseInv, ListInv, Sound, Deletes, DeletePhases, UndeletePhases, HoldPhases, AllKinds

\* Every step keeps the commits in order.
LEMMA CommitKept ==
  ASSUME BaseInv, Sound, Sound', CommitInv, NoCycle, NEW p \in Ops, Step(p)
  PROVE  CommitInv'
<1>o. \A q \in Ops : q # p => pc'[q] = pc[q] /\ kind'[q] = kind[q] /\ target'[q] = target[q]
  BY OthersStay
<1>k. \A q \in Ops : pc[q] \in {"put", "parent", "unput"} => kind[q] = "commit"
  BY PairKinds
<1>f. ASSUME manifests' = manifests, kind'[p] = kind[p], target'[p] = target[p],
             pc'[p] \in {"put", "parent", "unput"} <=> pc[p] \in {"put", "parent", "unput"},
             pc'[p] = "put" <=> pc[p] = "put"
      PROVE  CommitInv'
  BY <1>f, <1>o DEF CommitInv, Committing
<1>g. Backups \subseteq Nat /\ 0 \notin manifests  BY ChainAssumption DEF BaseInv, TypeOK
<1>1. CASE Begins(p)
  BY <1>1, <1>o, <1>k DEF Begins, Still, CommitInv, Committing
<1>2. CASE Reads(p)
  <2>1. CASE pc[p] \notin {"put", "parent", "unput"} /\ pc'[p] \notin {"put", "parent", "unput"}
    BY <1>2, <1>f, <2>1 DEF Reads, Still, Keeps
  <2>2. CASE pc[p] = "put" /\ pc'[p] = "done"
    BY <1>2, <1>o, <1>k, <2>2 DEF Reads, Still, Keeps, CommitInv, Committing
  <2>3. CASE pc[p] = "parent" /\ pc'[p] = "unput"
    BY <1>2, <1>o, <2>3 DEF Reads, Still, Keeps, CommitInv, Committing
  <2>4. CASE pc[p] = "parent" /\ pc'[p] = "done" /\ Live(Parent[target[p]])
    BY <1>2, <1>o, <2>4 DEF Reads, Still, Keeps, CommitInv, Committing, Live
  <2>. QED  BY <1>2, <2>1, <2>2, <2>3, <2>4 DEF Reads, HoldPhases
<1>3. CASE Walks(p)
  BY <1>3, <1>f DEF Walks, Still, Keeps
<1>4. CASE Writes(p)
  <2>1. CASE pc[p] = "put" /\ LeaseFree /\ manifests' = manifests \cup {target[p]} /\ Keeps(p)
             /\ (pc'[p] \in {"parent", "unput"} \/ (pc'[p] = "done" /\ Parent[target[p]] = 0))
    <3>1. \A q \in Ops : ~Committing(q)  BY <2>1 DEF LeaseFree, Committing
    <3>2. kind[p] = "commit" /\ target[p] \notin manifests /\ \A c \in manifests : Parent[c] # 0 => Parent[c] \in manifests
      BY <1>k, <2>1, <3>1 DEF CommitInv
    <3>3. \A q \in Ops : Committing(q)' => q = p /\ pc'[p] \in {"parent", "unput"}
      BY <1>o, <2>1, <3>1 DEF Committing
    <3>4. \A q \in Ops : kind'[q] = kind[q] /\ target'[q] = target[q]  BY <1>o, <2>1 DEF Keeps
    <3>5. \A c \in manifests' : Parent[c] # 0 =>
            Parent[c] \in manifests' \/ \E q \in Ops : Committing(q)' /\ target'[q] = c
      BY <2>1, <3>2, <3>4 DEF Committing
    <3>6. \A q \in Ops : kind'[q] = "commit" /\ pc'[q] = "put" => target'[q] \notin manifests'
      <4>1. SUFFICES ASSUME NEW q \in Ops, kind'[q] = "commit", pc'[q] = "put" PROVE target'[q] \notin manifests'
        OBVIOUS
      <4>2. q # p /\ pc[q] = "put" /\ kind[q] = "commit"  BY <1>o, <2>1, <3>4, <4>1
      <4>. QED  BY <2>1, <3>2, <3>4, <4>2 DEF CommitInv
    <3>7. \A c \in manifests' : Parent[c] # target[p] \/ pc'[p] = "done"
      <4>1. target[p] \in Backups /\ target[p] # 0  BY <2>1, PairKinds, ChainAssumption
      <4>2. Parent[target[p]] # target[p]
        <5>1. Parent[target[p]] # 0 => Parent[target[p]] \in Ancestors[target[p]]  BY <4>1, AncestorsRec
        <5>. QED  BY <4>1, <5>1 DEF NoCycle
      <4>3. \A c \in manifests : Parent[c] # target[p]
        <5>1. target[p] \notin manifests  BY <2>1, <3>2
        <5>. QED  BY <3>2, <4>1, <5>1
      <4>. QED  BY <2>1, <4>2, <4>3
    <3>. QED  BY <2>1, <3>3, <3>4, <3>5, <3>6, <3>7 DEF CommitInv
  <2>2. CASE pc[p] = "unput" /\ pc'[p] = "done" /\ manifests' = manifests \ {target[p]} /\ Keeps(p)
    BY <1>o, <1>k, <2>2 DEF Keeps, CommitInv, Committing
  <2>3. CASE pc[p] \in {"unmark", "remark"} /\ pc'[p] \in {"recheck", "done"} /\ manifests' = manifests /\ Keeps(p)
    BY <1>f, <2>3 DEF Keeps
  <2>. QED  BY <1>4, <2>1, <2>2, <2>3 DEF Writes
<1>5. ASSUME NEW b \in Backups, Tombs(p, b) \/ Untombs(p, b) PROVE CommitInv'
  BY <1>5, <1>f DEF Tombs, Untombs, Keeps
<1>. QED  BY <1>1, <1>2, <1>3, <1>4, <1>5, PairSteps

\* An operation that has begun stays what it is.
LEMMA BegunStays ==
  ASSUME BaseInv, Sound, Sound', NEW p \in Ops, Step(p), NEW q \in Ops, kind[q] # "none"
  PROVE  kind'[q] = kind[q] /\ target'[q] = target[q] /\ batch'[q] = batch[q]
<1>1. CASE q # p  BY <1>1, OthersStay
<1>2. CASE q = p  BY <1>2, PairSteps DEF Begins, Reads, Walks, Writes, Tombs, Untombs, Keeps
<1>. QED  BY <1>1, <1>2

\* A parent is a backup, another one, and an ancestor.
LEMMA ParentIs ==
  ASSUME NoCycle, NEW c \in Backups, Parent[c] # 0
  PROVE  /\ Parent[c] \in Backups /\ Parent[c] # c /\ Parent[c] \in Ancestors[c]
         /\ Ancestors[c] = {Parent[c]} \cup Ancestors[Parent[c]]
<1>1. Parent[c] \in Backups  BY ChainAssumption
<1>2. Ancestors[c] = {Parent[c]} \cup Ancestors[Parent[c]]  BY AncestorsRec
<1>. QED  BY <1>1, <1>2 DEF NoCycle

\* Whoever mends goes on to.
LEMMA MendedKept ==
  ASSUME BaseInv, Sound, Sound', PairOK, TwoOps, NoCycle, NEW p \in Ops, Step(p)
  PROVE  MendedInv'
<1>1. SUFFICES ASSUME NEW c \in Backups, Live(c)', Parent[c] # 0, ~Live(Parent[c])'
               PROVE  \E q \in Ops : Mends(q, c)'
  BY DEF MendedInv
<1>. DEFINE x == Parent[c]
<1>x. x \in Backups /\ x # c  BY <1>1, ParentIs
<1>o. ASSUME NEW q \in Ops, q # p, Mends(q, c) PROVE \E r \in Ops : Mends(r, c)'
  <2>1. Mends(q, c)'  BY <1>o, OthersStay DEF Mends, Committing
  <2>. QED  BY <2>1
<1>t. Live(c) /\ ~Live(x) => \E q \in Ops : Mends(q, c)  BY <1>1 DEF PairOK, MendedInv
<1>k. /\ pc[p] \in DeletePhases => kind[p] \in {"delete", "batch"}
      /\ pc[p] \in UndeletePhases => kind[p] = "undelete"
      /\ mine[p] \subseteq batch[p]
  BY PairKinds
<1>2. CASE Begins(p)
  <2>1. Live(c) /\ ~Live(x)  BY <1>1, <1>2 DEF Begins, Still, Live
  <2>2. PICK q \in Ops : Mends(q, c)  BY <1>t, <2>1
  <2>3. q # p  BY <1>2, <2>2 DEF Begins, Mends, Committing
  <2>. QED  BY <1>o, <2>2, <2>3
<1>3. CASE Reads(p)
  <2>1. Live(c) /\ ~Live(x)  BY <1>1, <1>3 DEF Reads, Still, Live
  <2>2. PICK q \in Ops : Mends(q, c)  BY <1>t, <2>1
  <2>3. CASE q # p  BY <1>o, <2>2, <2>3
  <2>4. CASE q = p
    <3>1. CASE pc[p] = "parent" /\ pc'[p] = "unput"
      BY <1>3, <2>2, <2>4, <3>1 DEF Reads, Keeps, Mends, Committing
    <3>2. CASE pc[p] = "parent" /\ Live(Parent[target[p]])
      BY <2>1, <2>2, <2>4, <3>2 DEF Mends, Committing
    <3>3. CASE pc[p] = "rescan" /\ pc'[p] = "rehold" /\ ~Orphaning(mine[p], batch[p])
      <4>1. x \in mine[p] /\ c \notin batch[p]  BY <2>2, <2>4, <3>3 DEF Mends, Committing
      <4>2. c \in Descendants(x)  BY <1>x, <2>1, ChildDescends
      <4>. QED  BY <3>3, <4>1, <4>2 DEF Orphaning
    <3>4. CASE pc[p] = "rescan" /\ pc'[p] = "rollback"
      <4>1. x \in mine'[p]  BY <1>3, <2>2, <2>4, <3>4 DEF Reads, Mends, Committing
      <4>. QED  BY <3>4, <4>1 DEF Mends
    <3>5. CASE pc[p] = "rollback" /\ mine[p] = {}
      BY <2>2, <2>4, <3>5 DEF Mends, Committing
    <3>6. CASE pc[p] \in {"put", "holds", "scan", "preflight", "walk", "rehold", "unmark"} \cup HoldPhases
      BY <2>2, <2>4, <3>6 DEF Mends, Committing, HoldPhases
    <3>. QED  BY <1>3, <3>1, <3>2, <3>3, <3>4, <3>5, <3>6 DEF Reads
  <2>. QED  BY <2>3, <2>4
<1>4. CASE Walks(p)
  <2>1. Live(c) /\ ~Live(x)  BY <1>1, <1>4 DEF Walks, Still, Live
  <2>2. PICK q \in Ops : Mends(q, c)  BY <1>t, <2>1
  <2>3. CASE q # p  BY <1>o, <2>2, <2>3
  <2>4. CASE q = p
    <3>1. target[p] = c /\ (pc[p] \in {"recheck", "remark"} \/ (pc[p] = "rewalk" /\ at[p] = c))
      BY <1>4, <2>2, <2>4 DEF Walks, Mends, Committing
    <3>2. target'[p] = c  BY <1>4, <3>1 DEF Walks, Keeps
    <3>. QED  BY <1>1, <1>4, <2>1, <3>1, <3>2 DEF Walks, Mends
  <2>. QED  BY <2>3, <2>4
<1>5. CASE Writes(p)
  <2>0. target'[p] = target[p]  BY <1>5 DEF Writes, Keeps
  <2>1. CASE /\ pc[p] = "put" /\ tombs' = tombs /\ manifests' = manifests \cup {target[p]}
             /\ pc'[p] \in {"parent", "unput"} \/ Parent[target[p]] = 0
    <3>1. CASE c = target[p]  BY <1>1, <2>0, <2>1, <3>1 DEF Mends, Committing
    <3>2. CASE c # target[p]
      <4>1. Live(c) /\ ~Live(x)  BY <1>1, <2>1, <3>2 DEF Live
      <4>2. PICK q \in Ops : Mends(q, c)  BY <1>t, <4>1
      <4>3. q # p  BY <2>1, <4>2 DEF Mends, Committing
      <4>. QED  BY <1>o, <4>2, <4>3
    <3>. QED  BY <3>1, <3>2
  <2>2. CASE pc[p] = "unput" /\ tombs' = tombs /\ manifests' = manifests \ {target[p]}
    <3>1. Live(c) /\ c # target[p] /\ c \in manifests  BY <1>1, <2>2 DEF Live
    <3>2. x # target[p]  BY <2>2, <3>1 DEF PairOK, CommitInv, Committing
    <3>3. ~Live(x)  BY <1>1, <2>2, <3>2 DEF Live
    <3>4. PICK q \in Ops : Mends(q, c)  BY <1>t, <3>1, <3>3
    <3>5. q # p  BY <2>2, <3>1, <3>4 DEF Mends, Committing
    <3>. QED  BY <1>o, <3>4, <3>5
  <2>3. CASE pc[p] = "unmark" /\ pc'[p] = "recheck" /\ manifests' = manifests /\ tombs' = tombs \ {target[p]}
    <3>1. CASE c = target[p]  BY <2>0, <2>3, <3>1 DEF Mends
    <3>2. CASE c # target[p]
      <4>1. Live(c) /\ ~Live(x)  BY <1>1, <2>3, <3>2 DEF Live
      <4>2. PICK q \in Ops : Mends(q, c)  BY <1>t, <4>1
      <4>3. q # p  BY <2>3, <4>2 DEF Mends, Committing
      <4>. QED  BY <1>o, <4>2, <4>3
    <3>. QED  BY <3>1, <3>2
  <2>4. CASE pc[p] = "remark" /\ manifests' = manifests /\ tombs' = tombs \cup {target[p]}
    <3>1. Live(c) /\ c # target[p] /\ c \in manifests /\ c \notin tombs  BY <1>1, <2>4 DEF Live
    <3>2. CASE Live(x)
      <4>1. x = target[p]  BY <1>1, <2>4, <3>2 DEF Live
      <4>2. PICK q \in Ops \ {p} : kind[q] \in {"commit", "undelete"}
        BY <2>4, <3>1, <4>1 DEF PairOK, UndeleteInv, UndeletePhases
      <4>3. PICK r \in Ops : kind[r] = "delete"
        BY <2>4 DEF PairOK, UndeleteInv
      <4>4. kind[p] = "undelete"  BY <1>k, <2>4 DEF UndeletePhases
      <4>. QED  BY <4>2, <4>3, <4>4 DEF TwoOps
    <3>3. CASE ~Live(x)
      <4>1. PICK q \in Ops : Mends(q, c)  BY <1>t, <3>1, <3>3
      <4>2. q # p  BY <2>4, <3>1, <4>1 DEF Mends, Committing
      <4>. QED  BY <1>o, <4>1, <4>2
    <3>. QED  BY <3>2, <3>3
  <2>. QED  BY <1>5, <2>1, <2>2, <2>3, <2>4 DEF Writes
<1>6. ASSUME NEW b \in Backups, Tombs(p, b) PROVE \E q \in Ops : Mends(q, c)'
  <2>1. Live(c) /\ c # b /\ c \in manifests /\ c \notin tombs  BY <1>1, <1>6 DEF Tombs, Live
  <2>2. CASE Live(x)
    <3>1. x = b /\ b \notin tombs  BY <1>1, <1>6, <2>2 DEF Tombs, Live
    <3>2. x \in mine'[p]  BY <1>6, <3>1 DEF Tombs
    <3>3. c \notin batch[p]
      <4>1. SUFFICES ASSUME c \in batch[p] PROVE FALSE  OBVIOUS
      <4>2. CASE kind[p] = "delete"
        BY <1>6, <2>1, <4>1, <4>2 DEF PairOK, ScanInv, Tombs
      <4>3. CASE kind[p] = "batch"
        <5>1. c \in todo[p] \/ c \in tombs  BY <1>6, <4>1, <4>3 DEF PairOK, ScanInv, Tombs
        <5>2. b \in Ancestors[c]  BY <1>1, <3>1, ParentIs
        <5>. QED  BY <1>6, <2>1, <5>1, <5>2 DEF Tombs
      <4>. QED  BY <1>6, <4>2, <4>3 DEF Tombs
    <3>4. Mends(p, c)'  BY <1>6, <3>2, <3>3 DEF Tombs, Keeps, Mends
    <3>. QED  BY <3>4
  <2>3. CASE ~Live(x)
    <3>1. PICK q \in Ops : Mends(q, c)  BY <1>t, <2>1, <2>3
    <3>2. CASE q # p  BY <1>o, <3>1, <3>2
    <3>3. CASE q = p
      <4>1. x \in mine[p] /\ c \notin batch[p]  BY <1>6, <3>1, <3>3 DEF Tombs, Mends, Committing
      <4>2. Mends(p, c)'  BY <1>6, <4>1 DEF Tombs, Keeps, Mends
      <4>. QED  BY <4>2
    <3>. QED  BY <3>2, <3>3
  <2>. QED  BY <2>2, <2>3
<1>7. ASSUME NEW b \in Backups, Untombs(p, b) PROVE \E q \in Ops : Mends(q, c)'
  <2>1. c \in manifests /\ (c = b \/ c \notin tombs) /\ (b \in manifests => Live(b)')
    BY <1>1, <1>7 DEF Untombs, Live
  <2>2. ASSUME NEW q \in Ops, Committing(q), target[q] = c PROVE \E r \in Ops : Mends(r, c)'
    <3>1. q # p  BY <1>7, <2>2 DEF Untombs, Committing
    <3>. QED  BY <1>o, <2>2, <3>1 DEF Mends
  <2>3. ASSUME x \in mine[p], x # b PROVE \E r \in Ops : Mends(r, c)'
    <3>1. Mends(p, c)'  BY <1>7, <2>3 DEF Untombs, Mends
    <3>. QED  BY <3>1
  <2>4. ~Live(x)  BY <1>1, <1>7 DEF Untombs, Live
  <2>5. x = b => x \notin manifests  BY <1>1, <2>1 DEF Live
  <2>6. CASE c # b
    <3>1. PICK q \in Ops : Mends(q, c)  BY <1>t, <2>1, <2>4, <2>6 DEF Live
    <3>2. CASE q # p  BY <1>o, <3>1, <3>2
    <3>3. CASE q = p /\ x # b
      BY <1>7, <2>3, <3>1, <3>3 DEF Untombs, Mends, Committing
    <3>4. CASE x = b
      <4>1. \E r \in Ops : Committing(r) /\ target[r] = c  BY <1>1, <2>1, <2>5, <3>4 DEF PairOK, CommitInv
      <4>. QED  BY <2>2, <4>1
    <3>. QED  BY <3>2, <3>3, <3>4
  <2>7. CASE c = b
    <3>1. pc[p] = "rollback" /\ b \in mine[p]  BY <1>7 DEF Untombs
    <3>2. PICK q \in Ops \ {p} : kind[q] \in {"commit", "undelete", "hold"}
      BY <3>1 DEF PairOK, ScanInv
    <3>3. \A r \in Ops \ {p} : kind[r] \notin {"delete", "batch"}  BY <3>2 DEF TwoOps
    <3>4. x \in mine[p] \/ \E r \in Ops : Committing(r) /\ target[r] = c
      BY <1>1, <2>1, <2>4, <2>7, <3>1, <3>3 DEF PairOK, GiveBackInv, Owning
    <3>. QED  BY <1>x, <2>2, <2>3, <2>7, <3>4
  <2>. QED  BY <2>6, <2>7
<1>. QED  BY <1>2, <1>3, <1>4, <1>5, <1>6, <1>7, PairSteps

\* What a delete knows of the chain and of the holds.
LEMMA ScanKept ==
  ASSUME BaseInv, Sound, Sound', PairOK, TwoOps, NEW p \in Ops, Step(p), NEW q \in Ops
  PROVE  ScanInv(q)'
<1>b. BaseInv'  BY BaseKept DEF Next
<1>k. /\ kind[p] # "none" => kind'[p] = kind[p] /\ batch'[p] = batch[p]
      /\ \A r \in Ops : kind[r] # "none" => kind'[r] = kind[r]
  BY BegunStays
<1>o. \A r \in Ops : r # p => /\ pc'[r] = pc[r] /\ kind'[r] = kind[r] /\ batch'[r] = batch[r]
                              /\ todo'[r] = todo[r] /\ mine'[r] = mine[r]
  BY OthersStay
<1>p. \A r \in Ops : pc[r] \in DeletePhases => kind[r] \in {"delete", "batch"}
  BY PairKinds
<1>u. pc[p] \in UndeletePhases => kind[p] = "undelete"  BY PairKinds
<1>c. pc[p] \in {"put", "parent", "unput"} => kind[p] = "commit"  BY PairKinds
<1>m. mine[p] \subseteq batch[p]  BY PairKinds
<1>s. ScanInv(q)  BY DEF PairOK
<1>r. \A r \in Ops : pc[r] = "rollback" => \E v \in Ops \ {r} : kind[v] \in {"commit", "undelete", "hold"}
  BY DEF PairOK, ScanInv
<1>1. kind'[q] = "delete" => \A x, y \in batch'[q] : x = y
  <2>1. CASE q # p  BY <1>o, <1>s, <2>1 DEF ScanInv
  <2>2. CASE q = p /\ Begins(p)  BY <2>2 DEF Begins
  <2>3. CASE q = p /\ ~Begins(p)
    <3>1. kind'[p] = kind[p] /\ batch'[p] = batch[p]
      BY <2>3, PairSteps DEF Reads, Walks, Writes, Tombs, Untombs, Keeps
    <3>. QED  BY <1>s, <2>3, <3>1 DEF ScanInv
  <2>. QED  BY <2>1, <2>2, <2>3
<1>2. ASSUME pc'[q] \in {"install", "rescan"}, \A r \in Ops \ {q} : kind'[r] \notin {"commit", "undelete"}
      PROVE  ~Orphaning(batch[q], batch[q])' /\ batch'[q] = batch[q]
  <2>1. \A r \in Ops \ {q} : kind[r] \notin {"commit", "undelete"}  BY <1>2, <1>k
  <2>2. /\ manifests' = manifests /\ tombs \subseteq tombs' /\ batch'[q] = batch[q]
        /\ pc[q] \in {"install", "rescan"} \/ ~Orphaning(batch[q], batch[q])
    <3>1. CASE Begins(p)  BY <1>2, <1>o, <3>1 DEF Begins, Still, HoldPhases
    <3>2. CASE Reads(p)  BY <1>2, <1>o, <3>2 DEF Reads, Still, Keeps, HoldPhases
    <3>3. CASE Walks(p)  BY <1>2, <1>o, <3>3 DEF Walks, Still, Keeps
    <3>4. CASE Writes(p)
      <4>1. pc[p] \in {"put", "unput", "unmark", "remark"} /\ pc'[p] \notin {"install", "rescan"}
        BY <3>4 DEF Writes
      <4>2. p # q  BY <1>2, <4>1
      <4>. QED  BY <1>c, <1>u, <2>1, <4>1, <4>2 DEF UndeletePhases
    <3>5. ASSUME NEW b \in Backups, Tombs(p, b)
          PROVE  /\ manifests' = manifests /\ tombs \subseteq tombs' /\ batch'[q] = batch[q]
                 /\ pc[q] \in {"install", "rescan"}
      BY <1>2, <1>o, <3>5 DEF Tombs, Keeps
    <3>6. ASSUME NEW b \in Backups, Untombs(p, b) PROVE FALSE
      <4>1. pc[p] = "rollback" /\ pc'[p] = "rollback"  BY <3>6 DEF Untombs
      <4>2. p # q /\ pc[q] \in {"install", "rescan"}  BY <1>2, <1>o, <4>1
      <4>3. kind[q] \in {"delete", "batch"}  BY <1>p, <4>2 DEF DeletePhases
      <4>. QED  BY <1>r, <4>1, <4>2, <4>3 DEF TwoOps
    <3>. QED  BY <3>1, <3>2, <3>3, <3>4, <3>5, <3>6, PairSteps
  <2>3. ~Orphaning(batch[q], batch[q])  BY <1>s, <2>1, <2>2 DEF ScanInv
  <2>4. \A b \in batch[q] : Descendants(b)' \subseteq Descendants(b)  BY <2>2, DescendantsShrink
  <2>. QED  BY <2>2, <2>3, <2>4 DEF Orphaning
<1>3. ASSUME pc'[q] \in {"scan", "install", "rescan", "rehold"}, \A r \in Ops \ {q} : kind'[r] # "hold",
             NEW b \in batch'[q]
      PROVE  ~Held(b)'
  <2>1. \A r \in Ops \ {q} : kind[r] # "hold"  BY <1>3, <1>k
  <2>2. hold' = hold
    <3>1. SUFFICES ASSUME pc[p] \in {"puthold", "drop"} PROVE FALSE  BY StepShape
    <3>2. kind[p] = "hold"  BY <3>1, PairKinds DEF HoldPhases
    <3>3. p = q  BY <2>1, <3>2
    <3>4. pc'[p] \in HoldPhases \cup {"done"}
      BY <3>1, PairSteps DEF Begins, Reads, Walks, Writes, Tombs, Untombs, HoldPhases
    <3>. QED  BY <1>3, <3>3, <3>4 DEF HoldPhases
  <2>3. batch'[q] = batch[q] /\ (pc[q] \in {"scan", "install", "rescan", "rehold"} \/ \A x \in batch[q] : ~Held(x))
    <3>1. CASE q # p  BY <1>3, <1>o, <3>1
    <3>2. CASE q = p
      BY <1>3, <3>2, PairSteps DEF Begins, Reads, Walks, Writes, Tombs, Untombs, Keeps, HoldPhases
    <3>. QED  BY <3>1, <3>2
  <2>4. ~Held(b)  BY <1>s, <1>3, <2>1, <2>3 DEF ScanInv
  <2>. QED  BY <2>2, <2>4 DEF Held
<1>4. ASSUME pc'[q] = "rollback" PROVE \E r \in Ops \ {q} : kind'[r] \in {"commit", "undelete", "hold"}
  <2>1. ASSUME NEW r \in Ops \ {q}, kind[r] \in {"commit", "undelete", "hold"}
        PROVE  kind'[r] \in {"commit", "undelete", "hold"}
    BY <1>k, <2>1
  <2>2. CASE pc[q] = "rollback"
    <3>1. PICK r \in Ops \ {q} : kind[r] \in {"commit", "undelete", "hold"}  BY <1>r, <2>2
    <3>. QED  BY <2>1, <3>1
  <2>3. CASE q = p /\ pc[p] = "rescan" /\ Orphaning(mine[p], batch[p])
    <3>1. Orphaning(batch[p], batch[p])  BY <1>m, <2>3 DEF Orphaning
    <3>2. PICK r \in Ops \ {q} : kind[r] \in {"commit", "undelete"}  BY <1>s, <2>3, <3>1 DEF ScanInv
    <3>. QED  BY <2>1, <3>2
  <2>4. CASE q = p /\ pc[p] = "rehold" /\ \E b \in mine[p] : Held(b)
    <3>1. PICK r \in Ops \ {q} : kind[r] = "hold"  BY <1>s, <1>m, <2>4 DEF ScanInv
    <3>. QED  BY <2>1, <3>1
  <2>5. pc[q] = "rollback" \/ (q = p /\ pc[p] = "rescan" /\ Orphaning(mine[p], batch[p]))
        \/ (q = p /\ pc[p] = "rehold" /\ \E b \in mine[p] : Held(b))
    <3>1. CASE q # p  BY <1>4, <1>o, <3>1
    <3>2. CASE q = p
      BY <1>4, <3>2, PairSteps DEF Begins, Reads, Walks, Writes, Tombs, Untombs, HoldPhases
    <3>. QED  BY <3>1, <3>2
  <2>. QED  BY <2>2, <2>3, <2>4, <2>5
<1>5. ASSUME kind'[q] = "batch", pc'[q] \in {"holds", "scan", "install", "rescan"}
      PROVE  batch'[q] \ todo'[q] \subseteq tombs'
  <2>1. CASE q = p
    <3>1. CASE Begins(p)  BY <1>5, <2>1, <3>1 DEF Begins, HoldPhases
    <3>2. CASE Reads(p)
      <4>1. pc[p] \in {"holds", "scan"}  BY <1>5, <2>1, <3>2 DEF Reads, HoldPhases
      <4>. QED  BY <1>s, <1>5, <2>1, <3>2, <4>1 DEF Reads, Still, Keeps, ScanInv
    <3>3. CASE Walks(p)  BY <1>5, <2>1, <3>3 DEF Walks
    <3>4. CASE Writes(p)  BY <1>5, <2>1, <3>4 DEF Writes
    <3>5. ASSUME NEW b \in Backups, Tombs(p, b) PROVE batch'[q] \ todo'[q] \subseteq tombs'
      BY <1>s, <1>5, <2>1, <3>5 DEF Tombs, Keeps, ScanInv
    <3>6. ASSUME NEW b \in Backups, Untombs(p, b) PROVE FALSE  BY <1>5, <2>1, <3>6 DEF Untombs
    <3>. QED  BY <2>1, <3>1, <3>2, <3>3, <3>4, <3>5, <3>6, PairSteps
  <2>2. CASE q # p
    <3>1. batch[q] \ todo[q] \subseteq tombs /\ batch'[q] = batch[q] /\ todo'[q] = todo[q] /\ kind[q] = "batch"
      BY <1>o, <1>s, <1>5, <2>2 DEF ScanInv
    <3>2. pc[p] \notin UndeletePhases
      <4>1. kind[p] # "undelete"  BY <3>1, PairKinds
      <4>. QED  BY <1>u, <4>1
    <3>3. pc[p] # "rollback"
      BY <1>r, <2>2, <3>1 DEF TwoOps
    <3>4. tombs \subseteq tombs'
      BY <3>2, <3>3, PairSteps DEF Begins, Reads, Walks, Writes, Tombs, Untombs, Still, UndeletePhases
    <3>. QED  BY <3>1, <3>4
  <2>. QED  BY <2>1, <2>2
<1>. QED  BY <1>1, <1>2, <1>3, <1>4, <1>5 DEF ScanInv

\* What a delete would give back keeps its parent.
LEMMA GiveBackKept ==
  ASSUME BaseInv, Sound, Sound', PairOK, TwoOps, NoCycle, NEW p \in Ops, Step(p), NEW q \in Ops
  PROVE  GiveBackInv(q)'
<1>1. SUFFICES ASSUME pc'[q] \in Owning, \A r \in Ops \ {q} : kind'[r] \notin {"delete", "batch"},
                      NEW a \in mine'[q] \cap manifests', Parent[a] # 0, ~Live(Parent[a])', Parent[a] \notin mine'[q]
               PROVE  \E r \in Ops : Committing(r)' /\ target'[r] = a
  BY DEF GiveBackInv
<1>. DEFINE x == Parent[a]
<1>m. mine[q] \subseteq batch[q] /\ mine[q] \subseteq Backups  BY PairKinds
<1>b. a \in Backups
  <2>1. BaseInv'  BY BaseKept DEF Next
  <2>. QED  BY <2>1 DEF BaseInv, TypeOK
<1>x. x \in Backups /\ x # a /\ x \in Ancestors[a] /\ Ancestors[a] = {x} \cup Ancestors[x]
  BY <1>1, <1>b, ParentIs
<1>n. a \notin Ancestors[a]  BY <1>b DEF NoCycle
<1>k. \A r \in Ops \ {q} : kind[r] \notin {"delete", "batch"}  BY <1>1, BegunStays
<1>o. \A r \in Ops : r # p => /\ pc'[r] = pc[r] /\ kind'[r] = kind[r] /\ target'[r] = target[r]
                              /\ batch'[r] = batch[r] /\ mine'[r] = mine[r]
  BY OthersStay
<1>p. \A r \in Ops : pc[r] \in DeletePhases => kind[r] \in {"delete", "batch"}
  BY PairKinds
<1>c. ASSUME NEW r \in Ops, r # p, Committing(r), target[r] = a
      PROVE  \E v \in Ops : Committing(v)' /\ target'[v] = a
  BY <1>o, <1>c DEF Committing
<1>g. ASSUME pc[q] \in Owning, a \in mine[q], a \in manifests
      PROVE  Live(x) \/ x \in mine[q] \/ \E r \in Ops : Committing(r) /\ target[r] = a
  BY <1>1, <1>k, <1>g DEF PairOK, GiveBackInv
<1>w. ASSUME a \in manifests, x \notin manifests
      PROVE  \E r \in Ops : Committing(r) /\ target[r] = a
  BY <1>1, <1>w DEF PairOK, CommitInv
<1>2. CASE Begins(p)
  <2>1. p # q  BY <1>1, <1>2 DEF Begins, Owning, HoldPhases
  <2>2. pc[q] \in Owning /\ a \in mine[q] /\ a \in manifests /\ ~Live(x) /\ x \notin mine[q]
    BY <1>1, <1>2, <1>o, <2>1 DEF Begins, Still, Live
  <2>3. PICK r \in Ops : Committing(r) /\ target[r] = a  BY <1>g, <2>2
  <2>4. r # p  BY <1>2, <2>3 DEF Begins, Committing
  <2>. QED  BY <1>c, <2>3, <2>4
<1>3. CASE Reads(p)
  <2>1. mine'[q] = mine[q] /\ manifests' = manifests /\ tombs' = tombs  BY <1>3, <1>o DEF Reads, Still
  <2>2. pc[q] \in Owning
    <3>1. CASE q # p  BY <1>1, <1>o, <3>1
    <3>2. CASE q = p
      <4>1. pc[p] = "scan" => mine[p] = {}  BY DEF BaseInv, OpInv, ListInv
      <4>2. pc[p] # "scan"  BY <1>1, <2>1, <3>2, <4>1
      <4>. QED  BY <1>1, <1>3, <3>2, <4>2 DEF Reads, Owning, HoldPhases
    <3>. QED  BY <3>1, <3>2
  <2>3. ~Live(x)  BY <1>1, <2>1 DEF Live
  <2>4. PICK r \in Ops : Committing(r) /\ target[r] = a  BY <1>1, <1>g, <2>1, <2>2, <2>3
  <2>5. CASE r # p  BY <1>c, <2>4, <2>5
  <2>6. CASE r = p
    <3>1. pc[p] = "parent" /\ pc'[p] = "unput" /\ target'[p] = target[p]
      BY <1>3, <2>3, <2>4, <2>6 DEF Reads, Keeps, Committing, HoldPhases
    <3>. QED  BY <2>4, <2>6, <3>1 DEF Committing
  <2>. QED  BY <2>5, <2>6
<1>4. CASE Walks(p)
  <2>1. p # q  BY <1>1, <1>4 DEF Walks, Owning
  <2>2. pc[q] \in Owning /\ a \in mine[q] /\ a \in manifests /\ ~Live(x) /\ x \notin mine[q]
    BY <1>1, <1>4, <1>o, <2>1 DEF Walks, Still, Live
  <2>3. PICK r \in Ops : Committing(r) /\ target[r] = a  BY <1>g, <2>2
  <2>4. r # p  BY <1>4, <2>3 DEF Walks, Committing
  <2>. QED  BY <1>c, <2>3, <2>4
<1>5. CASE Writes(p)
  <2>1. p # q  BY <1>1, <1>5 DEF Writes, Owning
  <2>2. pc[q] \in Owning /\ a \in mine[q] /\ x \notin mine[q] /\ target'[p] = target[p]
    BY <1>1, <1>5, <1>o, <2>1 DEF Writes, Keeps
  <2>3. CASE /\ pc[p] = "put" /\ tombs' = tombs /\ manifests' = manifests \cup {target[p]}
             /\ pc'[p] \in {"parent", "unput"} \/ Parent[target[p]] = 0
    <3>1. CASE a = target[p]  BY <1>1, <2>2, <2>3, <3>1 DEF Committing
    <3>2. CASE a # target[p]
      <4>1. a \in manifests /\ ~Live(x)  BY <1>1, <2>3, <3>2 DEF Live
      <4>2. PICK r \in Ops : Committing(r) /\ target[r] = a  BY <1>g, <2>2, <4>1
      <4>3. r # p  BY <2>3, <4>2 DEF Committing
      <4>. QED  BY <1>c, <4>2, <4>3
    <3>. QED  BY <3>1, <3>2
  <2>4. CASE pc[p] = "unput" /\ tombs' = tombs /\ manifests' = manifests \ {target[p]}
    <3>1. a \in manifests /\ a # target[p]  BY <1>1, <2>4
    <3>2. x # target[p]  BY <2>4, <3>1 DEF PairOK, CommitInv, Committing
    <3>3. ~Live(x)  BY <1>1, <2>4, <3>2 DEF Live
    <3>4. PICK r \in Ops : Committing(r) /\ target[r] = a  BY <1>g, <2>2, <3>1, <3>3
    <3>5. r # p  BY <3>1, <3>4
    <3>. QED  BY <1>c, <3>4, <3>5
  <2>5. CASE pc[p] = "unmark" /\ manifests' = manifests /\ tombs' = tombs \ {target[p]}
    <3>1. a \in manifests /\ ~Live(x)  BY <1>1, <2>5 DEF Live
    <3>2. PICK r \in Ops : Committing(r) /\ target[r] = a  BY <1>g, <2>2, <3>1
    <3>3. r # p  BY <2>5, <3>2 DEF Committing
    <3>. QED  BY <1>c, <3>2, <3>3
  <2>6. CASE pc[p] = "remark" /\ manifests' = manifests /\ tombs' = tombs \cup {target[p]}
    <3>1. CASE Live(x)
      <4>1. x = target[p]  BY <1>1, <2>6, <3>1 DEF Live
      <4>2. PICK s \in Ops : kind[s] = "delete" /\ batch[s] \cap Ancestors[x] # {}
        BY <2>6, <4>1 DEF PairOK, UndeleteInv
      <4>3. s = q  BY <1>k, <4>2
      <4>4. a \in batch[q] /\ \A y, z \in batch[q] : y = z
        BY <1>m, <2>2, <4>2, <4>3 DEF PairOK, ScanInv
      <4>5. a \in Ancestors[x]  BY <4>2, <4>3, <4>4
      <4>. QED  BY <1>n, <1>x, <4>5
    <3>2. CASE ~Live(x)
      <4>1. PICK r \in Ops : Committing(r) /\ target[r] = a  BY <1>1, <1>g, <2>2, <2>6, <3>2
      <4>2. r # p  BY <2>6, <4>1 DEF Committing
      <4>. QED  BY <1>c, <4>1, <4>2
    <3>. QED  BY <3>1, <3>2
  <2>. QED  BY <1>5, <2>3, <2>4, <2>5, <2>6 DEF Writes
<1>6. ASSUME NEW b \in Backups, Tombs(p, b) PROVE \E r \in Ops : Committing(r)' /\ target'[r] = a
  <2>1. p = q  BY <1>k, <1>6 DEF Tombs
  <2>2. a \in manifests /\ pc[q] = "install"  BY <1>1, <1>6, <2>1 DEF Tombs
  <2>3. ~Live(x)
    <3>1. SUFFICES ASSUME Live(x) PROVE FALSE  OBVIOUS
    <3>2. x = b /\ b \notin tombs  BY <1>1, <1>6, <3>1 DEF Tombs, Live
    <3>3. x \in mine'[q]  BY <1>6, <2>1, <3>2 DEF Tombs
    <3>. QED  BY <1>1, <3>3
  <2>4. x \notin mine[q]  BY <1>1, <1>6, <2>1 DEF Tombs
  <2>5. \E r \in Ops : Committing(r) /\ target[r] = a
    <3>1. CASE a \in mine[q]  BY <1>g, <2>2, <2>3, <2>4, <3>1 DEF Owning
    <3>2. CASE a \notin mine[q]
      <4>1. a = b /\ a \notin tombs  BY <1>1, <1>6, <2>1, <3>2 DEF Tombs
      <4>2. PICK r \in Ops : Mends(r, a)  BY <1>1, <1>b, <2>2, <2>3, <4>1 DEF PairOK, MendedInv, Live
      <4>3. CASE Committing(r) /\ target[r] = a  BY <4>3
      <4>4. CASE x \in mine[r] /\ pc[r] \in {"install", "rescan", "rollback"}
        <5>1. r = q  BY <1>k, <1>p, <4>4 DEF DeletePhases
        <5>. QED  BY <2>4, <4>4, <5>1
      <4>5. CASE target[r] = a /\ pc[r] \in {"recheck", "remark", "rewalk"}
        <5>1. CASE x \notin manifests  BY <1>w, <2>2, <5>1
        <5>2. CASE x \in tombs
          <6>1. x \in Walked(r) \cap tombs  BY <1>x, <4>5, <5>2 DEF Walked
          <6>2. PICK s \in Ops : kind[s] = "delete" /\ x \in batch[s]
            BY <4>5, <6>1 DEF PairOK, UndeleteInv
          <6>3. s = q  BY <1>k, <6>2
          <6>4. b \in batch[q]  BY <1>6, <2>1 DEF Tombs
          <6>. QED  BY <1>x, <4>1, <6>2, <6>3, <6>4 DEF PairOK, ScanInv
        <5>. QED  BY <2>3, <5>1, <5>2 DEF Live
      <4>. QED  BY <4>2, <4>3, <4>4, <4>5 DEF Mends
    <3>. QED  BY <3>1, <3>2
  <2>6. PICK r \in Ops : Committing(r) /\ target[r] = a  BY <2>5
  <2>7. r # p  BY <2>1, <2>2, <2>6 DEF Committing
  <2>. QED  BY <1>c, <2>6, <2>7
<1>7. ASSUME NEW b \in Backups, Untombs(p, b) PROVE \E r \in Ops : Committing(r)' /\ target'[r] = a
  <2>1. p = q /\ pc[q] = "rollback"
    <3>1. kind[p] \in {"delete", "batch"} /\ pc[p] = "rollback"  BY <1>p, <1>7 DEF Untombs, DeletePhases
    <3>. QED  BY <1>k, <3>1
  <2>2. a \in manifests /\ a \in mine[q] /\ ~Live(x)  BY <1>1, <1>7, <2>1 DEF Untombs, Live
  <2>3. \E r \in Ops : Committing(r) /\ target[r] = a
    <3>1. CASE x \notin manifests  BY <1>w, <2>2, <3>1
    <3>2. CASE x \in manifests
      <4>1. x # b  BY <1>1, <1>7, <3>2 DEF Untombs, Live
      <4>2. x \notin mine[q]  BY <1>1, <1>7, <2>1, <4>1 DEF Untombs
      <4>. QED  BY <1>g, <2>1, <2>2, <4>2 DEF Owning
    <3>. QED  BY <3>1, <3>2
  <2>4. PICK r \in Ops : Committing(r) /\ target[r] = a  BY <2>3
  <2>5. r # p  BY <2>1, <2>4 DEF Committing
  <2>. QED  BY <1>c, <2>4, <2>5
<1>. QED  BY <1>2, <1>3, <1>4, <1>5, <1>6, <1>7, PairSteps

\* What an undelete meets on its walks, and whom it becomes visible to.
LEMMA UndeleteKept ==
  ASSUME BaseInv, Sound, Sound', PairOK, TwoOps, NoCycle, NEW p \in Ops, Step(p), NEW q \in Ops
  PROVE  UndeleteInv(q)'
<1>b. BaseInv'  BY BaseKept DEF Next
<1>k. \A r \in Ops : kind[r] # "none" => kind'[r] = kind[r] /\ target'[r] = target[r] /\ batch'[r] = batch[r]
  BY BegunStays
<1>o. \A r \in Ops : r # p => /\ pc'[r] = pc[r] /\ kind'[r] = kind[r] /\ target'[r] = target[r]
                              /\ batch'[r] = batch[r] /\ mine'[r] = mine[r] /\ at'[r] = at[r]
  BY OthersStay
<1>p. \A r \in Ops : /\ pc[r] \in DeletePhases => kind[r] \in {"delete", "batch"}
                     /\ pc[r] \in UndeletePhases => kind[r] = "undelete" /\ target[r] \in Backups
                     /\ pc[r] \in {"put", "parent", "unput"} => kind[r] = "commit"
                     /\ pc[r] = "idle" => kind[r] = "none"
                     /\ mine[r] \subseteq batch[r]
  BY PairKinds
<1>u. UndeleteInv(q)  BY DEF PairOK
<1>a. pc[q] \in {"walk", "rewalk"} => at[q] \in Backups  BY DEF BaseInv, OpInv, PhaseInv
<1>f. \A c \in Backups : Parent[c] # 0 => Parent[c] \in Backups /\ Ancestors[c] = {Parent[c]} \cup Ancestors[Parent[c]]
  BY AncestorsRec, ChainAssumption
<1>z. \A c \in Backups : Parent[c] = 0 => Ancestors[c] = {}  BY AncestorsRec
<1>1. ASSUME pc'[q] \in {"walk", "rewalk"}
      PROVE  at'[q] \in {target'[q]} \cup Ancestors[target'[q]] /\ Ancestors[at'[q]] \subseteq Ancestors[target'[q]]
  <2>1. CASE q # p  BY <1>1, <1>o, <1>u, <2>1 DEF UndeleteInv
  <2>2. CASE q = p
    <3>1. Walks(p)
      BY <1>1, <2>2, PairSteps DEF Begins, Reads, Writes, Tombs, Untombs, HoldPhases
    <3>2. target'[p] = target[p]  BY <3>1 DEF Walks, Keeps
    <3>3. CASE at'[p] = target[p]  BY <2>2, <3>2, <3>3
    <3>4. CASE pc[p] \in {"walk", "rewalk"} /\ Parent[at[p]] # 0 /\ at'[p] = Parent[at[p]]
      BY <1>a, <1>f, <1>u, <2>2, <3>2, <3>4 DEF UndeleteInv
    <3>. QED  BY <1>1, <2>2, <3>1, <3>3, <3>4 DEF Walks
  <2>. QED  BY <2>1, <2>2
<1>2. ASSUME pc'[q] \in {"walk", "unmark", "recheck", "rewalk", "remark"}, NEW y \in Walked(q)' \cap tombs'
      PROVE  \E r \in Ops : kind'[r] = "delete" /\ y \in batch'[r]
  <2>. DEFINE Looks == {"walk", "unmark", "recheck", "rewalk", "remark"}
  <2>1. ASSUME pc[q] \in Looks, y \in Walked(q) \cap tombs
        PROVE  \E r \in Ops : kind'[r] = "delete" /\ y \in batch'[r]
    <3>1. PICK r \in Ops : kind[r] = "delete" /\ y \in batch[r]  BY <1>u, <2>1 DEF UndeleteInv
    <3>. QED  BY <1>k, <3>1
  <2>2. CASE q = p
    <3>1. Walks(p) \/ (pc[p] = "unmark" /\ pc'[p] = "recheck" /\ tombs' = tombs \ {target[p]} /\ target'[p] = target[p])
      BY <1>2, <2>2, PairSteps DEF Begins, Reads, Writes, Keeps, Tombs, Untombs, HoldPhases
    <3>2. CASE pc[p] = "unmark" /\ pc'[p] = "recheck" /\ tombs' = tombs \ {target[p]} /\ target'[p] = target[p]
      BY <1>2, <2>1, <2>2, <3>2 DEF Walked
    <3>3. CASE Walks(p)
      <4>1. tombs' = tombs /\ target'[p] = target[p]  BY <3>3 DEF Walks, Still, Keeps
      <4>2. CASE pc[p] = "preflight" /\ pc'[p] = "walk" /\ at'[p] = target[p]
        BY <1>2, <2>2, <4>1, <4>2 DEF Walked
      <4>3. CASE pc[p] = "walk" /\ pc'[p] = "unmark" /\ Parent[at[p]] = 0
        <5>1. Ancestors[at[p]] = {}  BY <1>a, <1>z, <2>2, <4>3
        <5>. QED  BY <1>2, <2>1, <2>2, <4>1, <4>3, <5>1 DEF Walked
      <4>4. CASE pc[p] \in {"recheck", "rewalk"} /\ pc'[p] \in {"rewalk", "remark"}
        BY <1>2, <2>1, <2>2, <4>1, <4>4 DEF Walked
      <4>5. CASE pc[p] = "walk" /\ pc'[p] = "walk" /\ Parent[at[p]] # 0 /\ Live(Parent[at[p]]) /\ at'[p] = Parent[at[p]]
        <5>1. y \in Ancestors[target[p]] \ Ancestors[Parent[at[p]]] /\ y \in tombs
          BY <1>2, <2>2, <4>1, <4>5 DEF Walked
        <5>2. y # Parent[at[p]]  BY <4>5, <5>1 DEF Live
        <5>3. y \notin Ancestors[at[p]]  BY <1>a, <1>f, <2>2, <4>5, <5>1, <5>2
        <5>. QED  BY <2>1, <2>2, <4>5, <5>1, <5>3 DEF Walked
      <4>. QED  BY <1>2, <2>2, <3>3, <4>2, <4>3, <4>4, <4>5 DEF Walks
    <3>. QED  BY <3>1, <3>2, <3>3
  <2>3. CASE q # p
    <3>1. pc[q] \in Looks /\ y \in Walked(q) /\ kind[q] = "undelete"
      BY <1>2, <1>o, <1>p, <2>3 DEF Walked, UndeletePhases
    <3>2. CASE y \in tombs  BY <2>1, <3>1, <3>2
    <3>3. CASE y \notin tombs
      <4>1. (pc[p] = "remark" /\ y = target[p]) \/ Tombs(p, y)
        <5>1. ASSUME NEW b \in Backups, Tombs(p, b) PROVE Tombs(p, y)
          <6>1. y = b  BY <1>2, <3>3, <5>1 DEF Tombs
          <6>. QED  BY <5>1, <6>1
        <5>. QED  BY <1>2, <3>3, <5>1, PairSteps DEF Begins, Reads, Walks, Writes, Untombs, Still
      <4>2. CASE pc[p] = "remark"
        <5>1. PICK r \in Ops : kind[r] = "delete"  BY <4>2 DEF PairOK, UndeleteInv
        <5>2. kind[p] = "undelete"  BY <1>p, <4>2 DEF UndeletePhases
        <5>. QED  BY <2>3, <3>1, <5>1, <5>2 DEF TwoOps
      <4>3. CASE Tombs(p, y)
        <5>1. kind[p] \in {"delete", "batch"} /\ y \in batch[p]  BY <4>3 DEF Tombs
        <5>2. kind[p] # "batch"
          <6>1. "undelete" \in mix /\ ~("batch" \in mix /\ "undelete" \in mix)  BY <3>1, PairKinds
          <6>2. kind[p] = "batch" => "batch" \in mix  BY PairKinds
          <6>. QED  BY <6>1, <6>2
        <5>. QED  BY <1>k, <5>1, <5>2
      <4>. QED  BY <4>1, <4>2, <4>3
    <3>. QED  BY <3>2, <3>3
  <2>. QED  BY <2>2, <2>3
<1>3. ASSUME pc'[q] = "remark"
      PROVE  \E r \in Ops : kind'[r] = "delete" /\ batch'[r] \cap Ancestors[target'[q]] # {}
  <2>1. \E r \in Ops : kind[r] = "delete" /\ batch[r] \cap Ancestors[target[q]] # {}
    <3>1. CASE pc[q] = "remark"  BY <1>u, <3>1 DEF UndeleteInv
    <3>2. CASE pc[q] # "remark"
      <4>1. q = p  BY <1>3, <1>o, <3>2
      <4>2. pc[q] = "rewalk" /\ Parent[at[q]] # 0 /\ Parent[at[q]] \in tombs
        BY <1>3, <3>2, <4>1, PairSteps DEF Begins, Reads, Walks, Writes, Tombs, Untombs, HoldPhases
      <4>3. Parent[at[q]] \in Ancestors[target[q]]
        BY <1>a, <1>f, <1>u, <4>2 DEF UndeleteInv
      <4>4. \E r \in Ops : kind[r] = "delete" /\ Parent[at[q]] \in batch[r]
        BY <1>u, <4>2, <4>3 DEF UndeleteInv, Walked
      <4>. QED  BY <4>3, <4>4
    <3>. QED  BY <3>1, <3>2
  <2>2. target'[q] = target[q]
    <3>1. CASE q # p  BY <1>o, <3>1
    <3>2. CASE q = p
      BY <1>3, <3>2, PairSteps DEF Begins, Reads, Walks, Writes, Tombs, Untombs, Keeps, HoldPhases
    <3>. QED  BY <3>1, <3>2
  <2>3. PICK r \in Ops : kind[r] = "delete" /\ batch[r] \cap Ancestors[target[q]] # {}  BY <2>1
  <2>. QED  BY <1>k, <2>2, <2>3
<1>4. ASSUME pc'[q] \in UndeletePhases, NEW c \in manifests', Parent[c] = target'[q],
             c \notin tombs' \/ \E r \in Ops : pc'[r] \in Owning /\ c \in mine'[r],
             \A s \in Ops \ {q} : kind'[s] \notin {"commit", "undelete"}
      PROVE  FALSE
  <2>k. \A s \in Ops \ {q} : kind[s] \notin {"commit", "undelete"}  BY <1>4, <1>k
  <2>c. c \in Backups  BY <1>b, <1>4 DEF BaseInv, TypeOK
  <2>1. ASSUME pc[q] \in UndeletePhases, Parent[c] = target[q], c \in manifests
        PROVE  c \in tombs /\ \A r \in Ops : pc[r] \in Owning => c \notin mine[r]
    BY <1>u, <2>k, <2>1 DEF UndeleteInv
  <2>2. CASE q = p /\ Begins(p)
    <3>0. kind'[p] = "undelete" /\ target'[p] \in tombs \cap manifests /\ kind[p] = "none" /\ pc[p] = "idle"
          /\ tombs' = tombs /\ manifests' = manifests /\ mine'[p] = {} /\ pc'[p] = "preflight"
      BY <1>4, <2>2 DEF Begins, Still, UndeletePhases, HoldPhases
    <3>. DEFINE t == target'[p]
    <3>1. Parent[c] = t /\ t \in tombs /\ t # 0 /\ ~Live(t) /\ t \in Backups /\ c # t
      <4>1. t \in Backups /\ t \in tombs /\ Parent[c] = t  BY <1>4, <2>2, <3>0 DEF BaseInv, TypeOK
      <4>2. t # 0  BY <4>1, ChainAssumption
      <4>. QED  BY <2>c, <4>1, <4>2, ParentIs DEF Live
    <3>2. \A r \in Ops : ~Committing(r)  BY <1>p, <2>2, <2>k, <3>0 DEF Committing
    <3>3. \A r \in Ops : pc[r] \in Owning => \A s \in Ops \ {r} : kind[s] = "none"
      BY <3>0 DEF TwoOps, Owning
    <3>4. \A r \in Ops : kind[r] # "batch"
      <4>1. "undelete" \in mix
        <5>1. kind'[p] \in mix' \cup {"none"} /\ mix' = mix  BY <1>b, Others DEF BaseInv, OpInv, PhaseInv
        <5>. QED  BY <3>0, <5>1
      <4>. QED  BY <4>1, PairKinds
    <3>5. CASE c \notin tombs
      <4>1. PICK r \in Ops : Mends(r, c)
        BY <1>4, <2>c, <3>0, <3>1, <3>5 DEF PairOK, MendedInv, Live
      <4>2. ~(target[r] = c /\ pc[r] \in {"recheck", "remark", "rewalk"})
        BY <1>p, <2>2, <2>k, <3>0 DEF UndeletePhases
      <4>3. /\ t \in mine[r]
            /\ (pc[r] \in {"install", "rescan"} /\ c \notin batch[r]) \/ pc[r] = "rollback"
        BY <3>1, <3>2, <4>1, <4>2 DEF Mends
      <4>4. CASE pc[r] = "rollback"
        <5>1. \E s \in Ops \ {r} : kind[s] \in {"commit", "undelete", "hold"}  BY <4>4 DEF PairOK, ScanInv
        <5>. QED  BY <3>3, <4>4, <5>1 DEF Owning
      <4>5. CASE pc[r] \in {"install", "rescan"} /\ c \notin batch[r]
        <5>1. \A s \in Ops \ {r} : kind[s] \notin {"commit", "undelete"}  BY <3>3, <4>5 DEF Owning
        <5>2. ~Orphaning(batch[r], batch[r])  BY <4>5, <5>1 DEF PairOK, ScanInv
        <5>3. c \in Descendants(t)
          <6>1. Live(c)  BY <1>4, <3>0, <3>5 DEF Live
          <6>. QED  BY <2>c, <3>1, <6>1, ChildDescends
        <5>. QED  BY <1>p, <4>3, <4>5, <5>2, <5>3 DEF Orphaning
      <4>. QED  BY <4>3, <4>4, <4>5
    <3>6. CASE c \in tombs
      <4>1. PICK r \in Ops : pc'[r] \in Owning /\ c \in mine'[r]  BY <1>4, <3>0, <3>6
      <4>2. r # p  BY <3>0, <4>1
      <4>3. pc[r] \in Owning /\ c \in mine[r]  BY <1>o, <4>1, <4>2
      <4>4. \A s \in Ops \ {r} : kind[s] \notin {"delete", "batch"}  BY <3>3, <4>3
      <4>5. t \in mine[r]
        BY <1>4, <3>0, <3>1, <3>2, <4>3, <4>4 DEF PairOK, GiveBackInv
      <4>6. kind[r] = "delete"  BY <1>p, <3>4, <4>3 DEF Owning, DeletePhases
      <4>. QED  BY <1>p, <3>1, <4>3, <4>5, <4>6 DEF PairOK, ScanInv
    <3>. QED  BY <3>5, <3>6
  <2>3. CASE q = p /\ ~Begins(p)
    <3>1. Reads(p) \/ Walks(p) \/ Writes(p)
      BY <1>4, <2>3, PairSteps DEF Tombs, Untombs, UndeletePhases
    <3>2. /\ pc[p] \in UndeletePhases /\ target'[p] = target[p] /\ manifests' = manifests
          /\ tombs' = tombs \/ tombs' = tombs \ {target[p]}
          /\ mine'[p] = mine[p] /\ pc'[p] \notin Owning
      BY <1>4, <2>3, <3>1 DEF Reads, Walks, Writes, Still, Keeps, UndeletePhases, HoldPhases, Owning
    <3>3. Parent[c] = target[p] /\ target[p] \in Backups  BY <1>4, <1>p, <2>3, <3>2
    <3>4. c # target[p]
      <4>1. target[p] # 0  BY <3>3, ChainAssumption
      <4>. QED  BY <2>c, <3>3, <4>1, ParentIs
    <3>5. c \in tombs'  BY <2>1, <2>3, <1>4, <3>2, <3>3, <3>4
    <3>6. PICK r \in Ops : pc'[r] \in Owning /\ c \in mine'[r]  BY <1>4, <3>5
    <3>7. r # p  BY <3>2, <3>6
    <3>. QED  BY <1>4, <1>o, <2>1, <2>3, <3>2, <3>3, <3>6, <3>7
  <2>4. CASE q # p
    <3>1. pc[q] \in UndeletePhases /\ Parent[c] = target[q]  BY <1>4, <1>o, <2>4
    <3>2. kind[p] \notin {"commit", "undelete"}  BY <2>k, <2>4
    <3>3. ~Writes(p) /\ ~Walks(p)
      BY <1>p, <3>2 DEF Writes, Walks, UndeletePhases
    <3>4. c \in manifests
      BY <1>4, <3>3, PairSteps DEF Begins, Reads, Tombs, Untombs, Still
    <3>5. c \in tombs /\ \A r \in Ops : pc[r] \in Owning => c \notin mine[r]  BY <2>1, <3>1, <3>4
    <3>6. c \in tombs'
      <4>1. ASSUME NEW b \in Backups, Untombs(p, b) PROVE c \in tombs'
        BY <3>5, <4>1 DEF Untombs, Owning
      <4>. QED  BY <3>3, <3>5, <4>1, PairSteps DEF Begins, Reads, Tombs, Still
    <3>7. PICK r \in Ops : pc'[r] \in Owning /\ c \in mine'[r]  BY <1>4, <3>6
    <3>8. r = p  BY <1>o, <3>5, <3>7
    <3>9. c \notin mine'[p]
      <4>1. pc[p] = "scan" => mine[p] = {}  BY DEF BaseInv, OpInv, ListInv
      <4>2. CASE Reads(p)
        BY <3>5, <3>7, <3>8, <4>1, <4>2 DEF Reads, Owning, HoldPhases
      <4>3. CASE Begins(p)  BY <4>3 DEF Begins
      <4>4. ASSUME NEW b \in Backups, Tombs(p, b) \/ Untombs(p, b) PROVE c \notin mine'[p]
        BY <3>5, <4>4 DEF Tombs, Untombs, Owning
      <4>. QED  BY <3>3, <4>2, <4>3, <4>4, PairSteps
    <3>. QED  BY <3>7, <3>8, <3>9
  <2>. QED  BY <2>2, <2>3, <2>4
<1>. QED  BY <1>1, <1>2, <1>3, <1>4 DEF UndeleteInv, Walked

\* What happens beside the operations.
LEMMA WorldPair ==
  ASSUME BaseInv, Sound, Sound', PairOK,
         \/ \E b \in Backups : RemoveHold(b) \/ Lapse(b) \/ GCSweep(b)
         \/ GCScan \/ UNCHANGED vars
  PROVE  PairOK'
<1>1. UNCHANGED <<manifests, tombs, swept, locals, pc>>
  <2>1. ASSUME NEW b \in Backups, GCSweep(b) PROVE FALSE
    <3>1. b \in swept'  BY <2>1 DEF GCSweep
    <3>. QED  BY <3>1 DEF Sound
  <2>. QED  BY <2>1 DEF RemoveHold, Lapse, GCScan, vars, repo
<1>2. \A b \in Backups : Held(b)' => Held(b)
  <2>1. ASSUME NEW b \in Backups, RemoveHold(b) \/ Lapse(b) PROVE \A a \in Backups : Held(a)' => Held(a)
    <3>1. hold' = [hold EXCEPT ![b] = NoHold] \/ hold' = [hold EXCEPT ![b].until = "lapsed"]
      BY <2>1 DEF RemoveHold, Lapse
    <3>2. hold'[b].until = "lapsed"  BY <3>1 DEF BaseInv, TypeOK, NoHold, Holds
    <3>3. \A a \in Backups : a # b => hold'[a] = hold[a]  BY <3>1 DEF BaseInv, TypeOK
    <3>. QED  BY <3>2, <3>3 DEF Held
  <2>2. CASE hold' = hold  BY <2>2 DEF Held
  <2>. QED  BY <2>1, <2>2 DEF GCSweep, GCScan, vars, repo
<1>3. \A b \in Backups : Live(b)' <=> Live(b)  BY <1>1 DEF Live
<1>4. CommitInv'  BY <1>1 DEF PairOK, CommitInv, Committing, locals
<1>5. MendedInv'
  <2>1. ASSUME NEW p \in Ops, NEW c, Mends(p, c) PROVE Mends(p, c)'
    BY <1>1, <2>1 DEF Mends, Committing, locals
  <2>. QED  BY <1>1, <2>1 DEF PairOK, MendedInv, Live
<1>6. ASSUME NEW p \in Ops PROVE ScanInv(p)'
  <2>1. ScanInv(p) /\ batch[p] \subseteq Backups  BY PairKinds DEF PairOK
  <2>2. Orphaning(batch[p], batch[p])' => Orphaning(batch[p], batch[p])
    BY <1>1 DEF Orphaning, Descendants, Live, locals
  <2>. QED  BY <1>1, <1>2, <2>1, <2>2 DEF ScanInv, locals
<1>7. ASSUME NEW p \in Ops PROVE GiveBackInv(p)'
  BY <1>1 DEF PairOK, GiveBackInv, Committing, Live, locals
<1>8. ASSUME NEW p \in Ops PROVE UndeleteInv(p)'
  <2>1. UndeleteInv(p)  BY DEF PairOK
  <2>. QED  BY <1>1, <2>1 DEF UndeleteInv, Walked, locals
<1>. QED  BY <1>4, <1>5, <1>6, <1>7, <1>8 DEF PairOK

\* At the start every chain is whole.
LEMMA InitPair == ASSUME NoCycle PROVE Init => PairInv
<1>1. SUFFICES ASSUME Init PROVE PairOK  BY DEF PairInv
<1>2. ASSUME NEW c \in manifests, Parent[c] # 0 PROVE Parent[c] \in manifests /\ (Parent[c] \in tombs => c \in tombs)
  <2>1. c \in Backups /\ Ancestors[c] \subseteq manifests /\ (Ancestors[c] \cap tombs # {} => c \in tombs)
    BY <1>1 DEF Init
  <2>. QED  BY <1>2, <2>1, ParentIs
<1>3. CommitInv  BY <1>1, <1>2 DEF Init, CommitInv, Committing
<1>4. MendedInv  BY <1>2 DEF MendedInv, Live
<1>5. \A p \in Ops : ScanInv(p) /\ GiveBackInv(p) /\ UndeleteInv(p)
  BY <1>1 DEF Init, ScanInv, GiveBackInv, UndeleteInv, Owning, UndeletePhases
<1>. QED  BY <1>3, <1>4, <1>5 DEF PairOK

\* Every step keeps all of it.
LEMMA PairInvKept ==
  ASSUME BaseInv, PairInv, TwoOps, NoCycle, [Next]_vars
  PROVE  PairInv'
<1>1. SUFFICES ASSUME Sound' PROVE PairOK'  BY DEF PairInv
<1>2. Sound /\ PairOK  BY <1>1, SoundBefore DEF PairInv
<1>3. ASSUME NEW p \in Ops, Step(p) PROVE PairOK'
  <2>1. CommitInv'  BY <1>1, <1>2, <1>3, CommitKept DEF PairOK
  <2>2. MendedInv'  BY <1>1, <1>2, <1>3, MendedKept
  <2>3. \A q \in Ops : ScanInv(q)'  BY <1>1, <1>2, <1>3, ScanKept
  <2>4. \A q \in Ops : GiveBackInv(q)'  BY <1>1, <1>2, <1>3, GiveBackKept
  <2>5. \A q \in Ops : UndeleteInv(q)'  BY <1>1, <1>2, <1>3, UndeleteKept
  <2>. QED  BY <2>1, <2>2, <2>3, <2>4, <2>5 DEF PairOK
<1>4. CASE \/ \E b \in Backups : RemoveHold(b) \/ Lapse(b) \/ GCSweep(b)
           \/ GCScan \/ UNCHANGED vars
  BY <1>1, <1>2, <1>4, WorldPair
<1>. QED  BY <1>3, <1>4 DEF Next

\* A behaviour whose operations two at a time leave chains whole: no cascade, and no
\* batch beside an undelete.
Pairable == "cascade" \notin mix /\ ~({"batch", "undelete"} \subseteq mix)

\* However two commits, deletes, undeletes and holds race (Commit's parent check
\* against SoftDelete's re-scan, Undelete's second walk against both), no live
\* incremental is left on a deleted parent once they have returned, for any set
\* of backups and any chains, unless one of them said that it could not finish its
\* checks.
THEOREM ChainStaysIntact ==
  ASSUME TwoOps, NoCycle
  PROVE  Spec => [](Pairable => ChainIntact)
<1>1. Init => BaseInv /\ PairInv  BY InitBase, InitPair
<1>2. BaseInv /\ PairInv /\ [Next]_vars => (BaseInv /\ PairInv)'  BY BaseKept, PairInvKept
<1>3. BaseInv /\ PairInv => (Pairable => ChainIntact)
  <2>1. SUFFICES ASSUME PairInv, Pairable, Settled, ~Admitted, swept = {}, \A p \in Ops : res[p] # "undone",
                        NEW b \in Backups, Live(b), Parent[b] # 0, ~Live(Parent[b])
                 PROVE  FALSE
    BY DEF ChainIntact
  <2>2. PICK p \in Ops : Mends(p, b)  BY <2>1 DEF PairInv, Sound, Pairable, PairOK, MendedInv
  <2>. QED  BY <2>1, <2>2 DEF Settled, Mends, Committing
<1>. QED  BY <1>1, <1>2, <1>3, PTL DEF Spec
=============================================================================
