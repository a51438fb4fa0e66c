--------------------------- MODULE ApprovalsProofs ---------------------------
(* Proofs about Approvals, for every set of requests, approvers and calls.   *)
EXTENDS Approvals, FiniteSetTheorems, TLAPS

\* The numbers are natural numbers, spelled out for the provers.
LEMMA ConstantTypes ==
    /\ Skew \in Nat /\ TTL \in Nat /\ MaxTime \in Nat /\ MinThreshold \in Nat
    /\ Threshold \in [Requests -> Nat] /\ Allow \in [Requests -> SUBSET Keys]
    /\ For \in [Requests -> Targets] /\ Trusted \subseteq Keys
    /\ IsFiniteSet(Keys) /\ NoRequest \notin Requests
  BY ApprovalAssumption

-----------------------------------------------------------------------------
(* Type correctness: what a call has read is a request that was filed.       *)

GateType == gate \in [Gates -> [pc : {"new", "judge", "consume", "go", "refused"},
                                req : Requests \cup {NoRequest}, wants : Targets \cup {NoRequest},
                                revoked : BOOLEAN, late : BOOLEAN]]

RevokeType == revoke \in [Revokes -> [pc : {"new", "write", "done"}, req : Requests \cup {NoRequest},
                                      kept : BOOLEAN]]

SweepType == sweep \in [Sweeps -> [pc : {"new", "write"}, req : Requests \cup {NoRequest}, kept : BOOLEAN]]

CallsKnown ==
    /\ \A g \in Gates : gate[g].pc # "new" => gate[g].req \in filed
    /\ \A v \in Revokes : revoke[v].pc # "new" => revoke[v].req \in filed
    /\ \A s \in Sweeps : sweep[s].pc # "new" => sweep[s].req \in filed

ObjectType ==
    /\ now \in 0 .. MaxTime
    /\ filed \subseteq Requests /\ recalled \subseteq Requests
    /\ revoked \subseteq filed /\ stamped \subseteq filed /\ consumed \subseteq filed
    /\ votes \in [Requests -> SUBSET Keys]
    /\ voting \subseteq Keys \X Requests

TypeInv == ObjectType /\ GateType /\ RevokeType /\ SweepType /\ CallsKnown

\* The invariant is the type invariant with CallsKnown.
LEMMA TypeInvImpliesTypeOK == TypeInv => TypeOK
  BY DEF TypeInv, TypeOK, ObjectType, GateType, RevokeType, SweepType

\* It holds in the initial states.
LEMMA InitTypeInv == Init => TypeInv
  BY ConstantTypes DEF Init, TypeInv, ObjectType, GateType, RevokeType, SweepType, CallsKnown, NoGate, NoRMW

\* A gate that goes on to its next phase keeps what it has read.
LEMMA GateMoves ==
    ASSUME GateType, NEW g \in Gates, NEW pc \in {"new", "judge", "consume", "go", "refused"},
           gate' = [gate EXCEPT ![g].pc = pc]
    PROVE  /\ GateType'
           /\ \A h \in Gates : /\ gate'[h].req = gate[h].req /\ gate'[h].wants = gate[h].wants
                               /\ gate'[h].revoked = gate[h].revoked /\ gate'[h].late = gate[h].late
                               /\ gate'[h].pc = IF h = g THEN pc ELSE gate[h].pc
<1> DEFINE moved == [pc |-> pc, req |-> gate[g].req, wants |-> gate[g].wants,
                     revoked |-> gate[g].revoked, late |-> gate[g].late]
<1>1. gate[g].revoked \in BOOLEAN /\ gate[g].late \in BOOLEAN
  BY Zenon DEF GateType
<1>2. gate[g].req \in Requests \cup {NoRequest} /\ gate[g].wants \in Targets \cup {NoRequest}
  BY DEF GateType
<1>3. [gate[g] EXCEPT !.pc = pc] = moved
  BY DEF GateType
<1>4. gate' = [gate EXCEPT ![g] = moved]
  BY <1>3
<1>5. GateType'
  <2> HIDE DEF moved
  <2>1. moved \in [pc : {"new", "judge", "consume", "go", "refused"},
                   req : Requests \cup {NoRequest}, wants : Targets \cup {NoRequest},
                   revoked : BOOLEAN, late : BOOLEAN]
    BY <1>1, <1>2 DEF moved
  <2> QED  BY <1>4, <2>1 DEF GateType
<1> QED  BY <1>4, <1>5 DEF GateType

\* Every step keeps it.
LEMMA StepTypeInv == TypeInv /\ [Next]_vars => TypeInv'
<1> SUFFICES ASSUME TypeInv, [Next]_vars PROVE TypeInv'
  OBVIOUS
<1> USE ConstantTypes DEF TypeInv, ObjectType, GateType, RevokeType, SweepType, CallsKnown, body
<1>1. CASE UNCHANGED vars  BY <1>1 DEF vars
<1>2. CASE Tick  BY <1>2 DEF Tick
<1>3. ASSUME NEW r \in Requests, Create(r) PROVE TypeInv'
  BY <1>3 DEF Create
<1>4. ASSUME NEW k \in Keys, NEW r \in Requests, Approve(k, r) PROVE TypeInv'
  BY <1>4 DEF Approve
<1>5. ASSUME NEW k \in Keys, NEW r \in Requests, Vote(k, r) PROVE TypeInv'
  BY <1>5 DEF Vote
<1>6. ASSUME NEW v \in Revokes, NEW r \in Requests, ReadRevoke(v, r) PROVE TypeInv'
  <2>1. PICK kept \in BOOLEAN, pc \in {"write", "done"} :
          revoke' = [revoke EXCEPT ![v] = [pc |-> pc, req |-> r, kept |-> kept]]
    <3>1. (r \in stamped) \in BOOLEAN /\ FALSE \in BOOLEAN  OBVIOUS
    <3>2. CASE r \in revoked  BY <1>6, <3>2, Zenon DEF ReadRevoke
    <3>3. CASE r \notin revoked
      <4>1. revoke' = [revoke EXCEPT ![v] = [pc |-> "write", req |-> r, kept |-> r \in stamped]]
        BY <1>6, <3>3 DEF ReadRevoke
      <4> QED  BY <3>1, <4>1, Zenon
    <3> QED  BY <3>2, <3>3
  <2>2. RevokeType'  BY <2>1
  <2>3. CallsKnown'  BY <1>6, <2>1 DEF ReadRevoke, Known
  <2> QED  BY <1>6, <2>2, <2>3 DEF ReadRevoke
<1>7. ASSUME NEW v \in Revokes, WriteRevoke(v) PROVE TypeInv'
  BY <1>7 DEF WriteRevoke, With
<1>8. ASSUME NEW s \in Sweeps, NEW r \in Requests, ReadSweep(s, r) PROVE TypeInv'
  BY <1>8 DEF ReadSweep, Known
<1>9. ASSUME NEW s \in Sweeps, WriteSweep(s) \/ SkipSweep(s) PROVE TypeInv'
  <2>1. sweep' = [sweep EXCEPT ![s] = NoRMW]  BY <1>9 DEF WriteSweep, SkipSweep
  <2>2. SweepType'  BY <2>1 DEF NoRMW
  <2>3. sweep[s].pc # "new" /\ sweep[s].req \in filed  BY <1>9 DEF WriteSweep, SkipSweep
  <2>4. ObjectType'  BY <1>9, <2>3 DEF WriteSweep, SkipSweep, With
  <2>5. CallsKnown'  BY <1>9, <2>1 DEF WriteSweep, SkipSweep, NoRMW
  <2> QED  BY <1>9, <2>2, <2>4, <2>5 DEF WriteSweep, SkipSweep
<1>10. ASSUME NEW g \in Gates, NEW r \in Requests, NEW wanted \in Targets, ReadGate(g, r, wanted)
       PROVE  TypeInv'
  <2>1. PICK isRevoked \in BOOLEAN, isLate \in BOOLEAN :
          gate' = [gate EXCEPT ![g] = [pc |-> "judge", req |-> r, wants |-> wanted,
                                       revoked |-> isRevoked, late |-> isLate]]
    <3>1. (r \in revoked) \in BOOLEAN /\ (r \in recalled) \in BOOLEAN  OBVIOUS
    <3>2. gate' = [gate EXCEPT ![g] = [pc |-> "judge", req |-> r, wants |-> wanted,
                                       revoked |-> r \in revoked, late |-> r \in recalled]]
      BY <1>10 DEF ReadGate
    <3> QED  BY <3>1, <3>2, Zenon
  <2>2. GateType'  BY <2>1
  <2>3. CallsKnown'  BY <1>10, <2>1 DEF ReadGate, Known
  <2> QED  BY <1>10, <2>2, <2>3 DEF ReadGate
<1>11. ASSUME NEW g \in Gates, Judge(g) PROVE TypeInv'
  <2>1. gate' = [gate EXCEPT ![g].pc = "consume"] \/ gate' = [gate EXCEPT ![g].pc = "refused"]
    BY <1>11 DEF Judge
  <2>2. GateType' /\ \A h \in Gates : /\ gate'[h].req = gate[h].req
                                      /\ gate'[h].pc # "new" => gate[h].pc # "new"
    BY ZenonT(60), <1>11, <2>1, GateMoves DEF Judge
  <2>3. CallsKnown'  BY <1>11, <2>2 DEF Judge
  <2> QED  BY <1>11, <2>2, <2>3 DEF Judge
<1>12. ASSUME NEW g \in Gates, Consume(g) \/ ConsumeFails(g) PROVE TypeInv'
  <2>1. gate' = [gate EXCEPT ![g].pc = "go"] \/ gate' = [gate EXCEPT ![g].pc = "refused"]
    BY <1>12 DEF Consume, ConsumeFails
  <2>2. GateType' /\ \A h \in Gates : /\ gate'[h].req = gate[h].req
                                      /\ gate'[h].pc # "new" => gate[h].pc # "new"
    BY <1>12, <2>1, GateMoves DEF Consume, ConsumeFails
  <2>3. gate[g].req \in filed  BY <1>12 DEF Consume, ConsumeFails
  <2>4. consumed' \subseteq filed  BY <1>12, <2>3 DEF Consume, ConsumeFails
  <2>5. CallsKnown'  BY <1>12, <2>2 DEF Consume, ConsumeFails
  <2> QED  BY <1>12, <2>2, <2>4, <2>5 DEF Consume, ConsumeFails
<1> QED
  BY <1>1, <1>2, <1>3, <1>4, <1>5, <1>6, <1>7, <1>8, <1>9, <1>10, <1>11, <1>12 DEF Next

\* The types are kept; only what was filed is revoked, stamped or consumed.
THEOREM TypeCorrect == Spec => []TypeOK
<1>1. Spec => []TypeInv  BY InitTypeInv, StepTypeInv, PTL DEF Spec
<1> QED  BY <1>1, TypeInvImpliesTypeOK, PTL

-----------------------------------------------------------------------------
(* The marker: whoever goes on has written it, and nobody writes it twice.   *)

MarkerInv == \A g \in Gates : gate[g].pc = "go" => gate[g].req \in consumed

UseInv == MarkerInv /\ SingleUse

\* What a step does to the gates: nothing, begin one, or move one to its next phase.
LEMMA GateSteps ==
    ASSUME TypeInv, [Next]_vars
    PROVE  \/ gate' = gate /\ consumed' = consumed
           \/ \E g \in Gates, r \in Requests, wanted \in Targets : ReadGate(g, r, wanted)
           \/ \E g \in Gates : Judge(g) \/ Consume(g) \/ ConsumeFails(g)
  BY DEF Next, vars, body, Tick, Create, Approve, Vote, ReadRevoke, WriteRevoke, ReadSweep,
         WriteSweep, SkipSweep

\* A gate that begins is in phase "judge"; the others stay.
LEMMA GateBegins ==
    ASSUME TypeInv, NEW g \in Gates, NEW r \in Requests, NEW wanted \in Targets, ReadGate(g, r, wanted)
    PROVE  /\ consumed' = consumed
           /\ gate'[g].pc = "judge" /\ gate'[g].req = r
           /\ \A h \in Gates : h # g => gate'[h] = gate[h]
  BY DEF ReadGate, TypeInv, GateType

\* Judge moves one gate on, to the marker only if the request permits it.
LEMMA JudgeMoves ==
    ASSUME TypeInv, NEW g \in Gates, Judge(g)
    PROVE  /\ \A h \in Gates : /\ gate'[h].req = gate[h].req /\ gate'[h].wants = gate[h].wants
                               /\ gate'[h].late = gate[h].late /\ gate'[h].revoked = gate[h].revoked
                               /\ h # g => gate'[h].pc = gate[h].pc
                               /\ gate'[h].pc = "go" => gate[h].pc = "go"
           /\ gate'[g].pc \in {"consume", "refused"}
           /\ gate'[g].pc = "consume" => Permits(g)
<1>1. CASE Permits(g)
  <2>1. gate' = [gate EXCEPT ![g].pc = "consume"]  BY <1>1 DEF Judge
  <2>2. GateType  BY DEF TypeInv
  <2> QED  BY <1>1, <2>1, <2>2 DEF GateType
<1>2. CASE ~Permits(g)
  <2>1. gate' = [gate EXCEPT ![g].pc = "refused"]  BY <1>2 DEF Judge
  <2>2. GateType  BY DEF TypeInv
  <2> QED  BY <1>2, <2>1, <2>2 DEF GateType
<1> QED  BY <1>1, <1>2

\* The marker's write moves one gate on, to the operation only if it was first.
LEMMA ConsumeMoves ==
    ASSUME TypeInv, NEW g \in Gates, Consume(g) \/ ConsumeFails(g)
    PROVE  /\ \A h \in Gates : /\ gate'[h].req = gate[h].req /\ gate'[h].wants = gate[h].wants
                               /\ gate'[h].late = gate[h].late /\ gate'[h].revoked = gate[h].revoked
                               /\ h # g => gate'[h].pc = gate[h].pc
           /\ gate'[g].pc \in {"go", "refused"} /\ gate[g].pc = "consume"
           /\ gate'[g].pc = "go" => Consume(g) /\ FirstToConsume(g)
<1>1. CASE Consume(g) /\ FirstToConsume(g)
  <2>1. gate' = [gate EXCEPT ![g].pc = "go"]  BY <1>1 DEF Consume
  <2>2. GateType  BY DEF TypeInv
  <2> QED  BY <1>1, <2>1, <2>2 DEF GateType, Consume
<1>2. CASE ~(Consume(g) /\ FirstToConsume(g))
  <2>1. gate' = [gate EXCEPT ![g].pc = "refused"]  BY <1>2 DEF Consume, ConsumeFails
  <2>2. GateType  BY DEF TypeInv
  <2> QED  BY <2>1, <2>2 DEF GateType, Consume, ConsumeFails
<1> QED  BY <1>1, <1>2

\* Every step keeps UseInv if the marker is written under IfNotExists.
LEMMA StepUseInv ==
    ASSUME ConditionalPut, TypeInv, UseInv, [Next]_vars
    PROVE  UseInv'
<1>1. CASE gate' = gate /\ consumed' = consumed
  BY <1>1 DEF UseInv, MarkerInv, SingleUse, Went
<1>2. ASSUME NEW g \in Gates, NEW r \in Requests, NEW wanted \in Targets, ReadGate(g, r, wanted)
      PROVE  UseInv'
  BY <1>2, GateBegins DEF UseInv, MarkerInv, SingleUse, Went
<1>3. ASSUME NEW g \in Gates, Judge(g) PROVE UseInv'
  <2>1. \A h \in Gates : gate'[h].req = gate[h].req /\ (gate'[h].pc = "go" => gate[h].pc = "go")
    BY <1>3, JudgeMoves
  <2>2. consumed' = consumed  BY <1>3 DEF Judge
  <2> QED  BY <2>1, <2>2 DEF UseInv, MarkerInv, SingleUse, Went
<1>4. ASSUME NEW g \in Gates, Consume(g) \/ ConsumeFails(g) PROVE UseInv'
  <2>1. /\ \A h \in Gates : gate'[h].req = gate[h].req /\ (h # g => gate'[h].pc = gate[h].pc)
        /\ gate'[g].pc = "go" => Consume(g) /\ FirstToConsume(g)
    BY <1>4, ConsumeMoves
  <2>2. consumed \subseteq consumed'  BY <1>4 DEF Consume, ConsumeFails
  <2>3. gate'[g].pc = "go" => gate[g].req \in consumed' /\ gate[g].req \notin consumed
    BY <2>1 DEF Consume, FirstToConsume
  <2>4. MarkerInv'  BY <2>1, <2>2, <2>3 DEF UseInv, MarkerInv
  <2>5. SingleUse'  BY <2>1, <2>3 DEF UseInv, MarkerInv, SingleUse, Went
  <2> QED  BY <2>4, <2>5 DEF UseInv
<1> QED  BY <1>1, <1>2, <1>3, <1>4, GateSteps

\* With a storage plugin whose conditional put is atomic, an approval is
\* redeemed at most once, by any number of commands.
THEOREM RedeemedOnce == ASSUME ConditionalPut PROVE Spec => []SingleUse
<1>1. Init => UseInv  BY DEF Init, UseInv, MarkerInv, SingleUse, Went, NoGate
<1>2. TypeInv /\ UseInv /\ [Next]_vars => UseInv'  BY StepUseInv
<1>3. UseInv => SingleUse  BY DEF UseInv
<1> QED  BY <1>1, <1>2, <1>3, InitTypeInv, StepTypeInv, PTL DEF Spec

-----------------------------------------------------------------------------
(* The quorum: it was there when the gate judged, and votes are never taken  *)
(* back.                                                                     *)

RosterVotes(v, r) == v[r] \cap Allow[r] \cap Trusted

QuorumInv ==
    \A g \in Gates : gate[g].pc \in {"consume", "go"} =>
       /\ gate[g].wants = For[gate[g].req]
       /\ Cardinality(RosterVotes(votes, gate[g].req)) >= Required(gate[g].req)

\* Votes only come in.
LEMMA VotesGrow ==
    ASSUME TypeInv, [Next]_vars, NEW r \in Requests
    PROVE  votes[r] \subseteq votes'[r]
<1>1. ASSUME NEW k \in Keys, NEW q \in Requests, Vote(k, q) PROVE votes[r] \subseteq votes'[r]
  BY <1>1 DEF Vote, TypeInv, ObjectType
<1>2. CASE ~\E k \in Keys, q \in Requests : Vote(k, q)
  <2>1. votes' = votes
    BY <1>2 DEF Next, vars, body, Tick, Create, Approve, ReadRevoke, WriteRevoke, ReadSweep,
                WriteSweep, SkipSweep, ReadGate, Judge, Consume, ConsumeFails
  <2> QED  BY <2>1
<1> QED  BY <1>1, <1>2

\* So a quorum stays one.
LEMMA QuorumStays ==
    ASSUME TypeInv, TypeInv', [Next]_vars, NEW r \in Requests,
           Cardinality(RosterVotes(votes, r)) >= Required(r)
    PROVE  Cardinality(RosterVotes(votes', r)) >= Required(r)
<1>1. RosterVotes(votes, r) \in SUBSET RosterVotes(votes', r)  BY VotesGrow DEF RosterVotes
<1>2. RosterVotes(votes', r) \in SUBSET Keys  BY ConstantTypes DEF RosterVotes
<1>3. IsFiniteSet(RosterVotes(votes', r))  BY <1>2, ConstantTypes, FS_Subset
<1>4. Cardinality(RosterVotes(votes, r)) <= Cardinality(RosterVotes(votes', r))  BY <1>1, <1>3, FS_Subset
<1>5. IsFiniteSet(RosterVotes(votes, r))  BY <1>1, <1>3, FS_Subset
<1>6. Cardinality(RosterVotes(votes, r)) \in Nat /\ Cardinality(RosterVotes(votes', r)) \in Nat
  BY <1>3, <1>5, FS_CardinalityType
<1>7. Required(r) \in Nat  BY ConstantTypes DEF Required
<1> QED  BY <1>4, <1>6, <1>7

\* Every step keeps QuorumInv: Judge establishes it for its gate.
LEMMA StepQuorumInv ==
    ASSUME TypeInv, TypeInv', QuorumInv, [Next]_vars
    PROVE  QuorumInv'
<1>1. \A g \in Gates : gate[g].pc # "new" => gate[g].req \in Requests
  BY DEF TypeInv, CallsKnown, ObjectType
<1> DEFINE Kept(g) == /\ gate'[g].req = gate[g].req /\ gate'[g].wants = gate[g].wants
                      /\ gate[g].pc \in {"consume", "go"}
<1> DEFINE Good(g) == /\ gate'[g].wants = For[gate'[g].req]
                      /\ Cardinality(RosterVotes(votes', gate'[g].req)) >= Required(gate'[g].req)
<1>2. ASSUME NEW g \in Gates, Kept(g) PROVE Good(g)
  <2>1. gate[g].req \in Requests  BY <1>1, <1>2
  <2>2. Cardinality(RosterVotes(votes, gate[g].req)) >= Required(gate[g].req)  BY <1>2 DEF QuorumInv
  <2>3. Cardinality(RosterVotes(votes', gate[g].req)) >= Required(gate[g].req)  BY <2>1, <2>2, QuorumStays
  <2> QED  BY <1>2, <2>3 DEF QuorumInv
<1>3. ASSUME NEW g \in Gates, Judge(g), gate'[g].pc = "consume" PROVE Good(g)
  <2>1. Permits(g) /\ gate'[g].req = gate[g].req /\ gate'[g].wants = gate[g].wants
    BY <1>3, JudgeMoves
  <2>2. votes' = votes  BY <1>3 DEF Judge
  <2>3. RosterVotes(votes', gate'[g].req) = TrustedApprovals(gate[g].req)
    BY <2>1, <2>2 DEF RosterVotes, TrustedApprovals, ValidApprovers
  <2> QED  BY <2>1, <2>3 DEF Permits, PolicyMet
<1>4. ASSUME NEW g \in Gates, gate'[g].pc \in {"consume", "go"}
      PROVE  Kept(g) \/ (Judge(g) /\ gate'[g].pc = "consume")
  <2>1. CASE gate' = gate  BY <1>4, <2>1
  <2>2. ASSUME NEW h \in Gates, NEW r \in Requests, NEW wanted \in Targets, ReadGate(h, r, wanted)
        PROVE  Kept(g)
    BY <1>4, <2>2, GateBegins
  <2>3. ASSUME NEW h \in Gates, Judge(h) PROVE Kept(g) \/ (Judge(g) /\ gate'[g].pc = "consume")
    BY <1>4, <2>3, JudgeMoves
  <2>4. ASSUME NEW h \in Gates, Consume(h) \/ ConsumeFails(h) PROVE Kept(g)
    BY <1>4, <2>4, ConsumeMoves
  <2> QED  BY <2>1, <2>2, <2>3, <2>4, GateSteps
<1>5. \A g \in Gates : gate'[g].pc \in {"consume", "go"} => Good(g)
  BY <1>2, <1>3, <1>4
<1> QED  BY <1>5 DEF QuorumInv, RosterVotes, Required

\* A command goes on only with a quorum of the operator's roster behind a
\* request for its own operation and target, whatever the request names.
THEOREM QuorumAlways == Spec => []QuorumBehind
<1>1. Init => QuorumInv  BY DEF Init, QuorumInv, NoGate
<1>2. TypeInv /\ TypeInv' /\ QuorumInv /\ [Next]_vars => QuorumInv'  BY StepQuorumInv
<1>3. QuorumInv => QuorumBehind  BY DEF QuorumInv, QuorumBehind, Went, RosterVotes
<1> QED  BY <1>1, <1>2, <1>3, InitTypeInv, StepTypeInv, PTL DEF Spec

-----------------------------------------------------------------------------
(* Revocation: a body that was written back over a revocation is past its    *)
(* time to live, on the clock that every gate reads later.                   *)

RecallInv == \A r \in recalled : r \in revoked \/ Expired(now)

LateInv ==
    \A g \in Gates : gate[g].late =>
       /\ gate[g].pc \notin {"consume", "go"}
       /\ gate[g].pc = "judge" => gate[g].revoked \/ Expired(now)

\* A step either keeps time or lets one unit of it pass.
LEMMA ExpiryStays ==
    ASSUME TypeInv, [Next]_vars, Expired(now)
    PROVE  Expired(now')
<1>1. now' = now \/ now' = now + 1
  BY DEF Next, vars, body, Tick, Create, Approve, Vote, ReadRevoke, WriteRevoke, ReadSweep,
         WriteSweep, SkipSweep, ReadGate, Judge, Consume, ConsumeFails
<1> QED  BY <1>1, ConstantTypes DEF Expired, TypeInv, ObjectType

\* Every step keeps RecallInv if the sweeper's clock is not ahead.
LEMMA StepRecallInv ==
    ASSUME Skew = 0, TypeInv, RecallInv, [Next]_vars
    PROVE  RecallInv'
<1> SUFFICES ASSUME NEW r \in recalled' PROVE r \in revoked' \/ Expired(now')
  BY DEF RecallInv, Expired
<1>1. ASSUME NEW v \in Revokes, NEW q \in Requests, ReadRevoke(v, q)
      PROVE  r \in revoked' \/ Expired(now')
  <2>1. r \in recalled \/ r \in revoked  BY <1>1 DEF ReadRevoke
  <2>2. revoked' = revoked /\ now' = now  BY <1>1 DEF ReadRevoke, body
  <2> QED  BY <2>1, <2>2 DEF RecallInv
<1>2. ASSUME NEW v \in Revokes, WriteRevoke(v) PROVE r \in revoked' \/ Expired(now')
  BY <1>2 DEF WriteRevoke, RecallInv
<1>3. ASSUME NEW s \in Sweeps, WriteSweep(s) PROVE r \in revoked' \/ Expired(now')
  <2>1. recalled' = recalled /\ now' = now /\ Expired(now + Skew)  BY <1>3 DEF WriteSweep, Lapsed
  <2>2. now + Skew = now  BY DEF TypeInv, ObjectType
  <2> QED  BY <2>1, <2>2
<1>4. CASE /\ ~\E v \in Revokes : WriteRevoke(v) \/ \E q \in Requests : ReadRevoke(v, q)
           /\ ~\E s \in Sweeps : WriteSweep(s)
  <2>1. recalled' = recalled /\ revoked' = revoked
    BY <1>4 DEF Next, vars, body, Tick, Create, Approve, Vote, ReadSweep, SkipSweep, ReadGate,
                Judge, Consume, ConsumeFails
  <2> QED  BY <2>1, ExpiryStays DEF RecallInv
<1> QED  BY <1>1, <1>2, <1>3, <1>4

\* Every step keeps LateInv: a gate that begins late reads the revocation, or
\* a request that has expired, and is not permitted.
LEMMA StepLateInv ==
    ASSUME TypeInv, RecallInv, LateInv, [Next]_vars
    PROVE  LateInv'
<1> DEFINE Good(g) == gate'[g].late => /\ gate'[g].pc \notin {"consume", "go"}
                                       /\ gate'[g].pc = "judge" => gate'[g].revoked \/ Expired(now')
<1>1. ASSUME NEW g \in Gates, gate'[g] = gate[g] PROVE Good(g)
  BY <1>1, ExpiryStays DEF LateInv
<1>2. CASE gate' = gate
  <2>1. \A g \in Gates : Good(g)  BY <1>1, <1>2
  <2> QED  BY <2>1 DEF LateInv, Expired
<1>3. ASSUME NEW g \in Gates, NEW r \in Requests, NEW wanted \in Targets, ReadGate(g, r, wanted)
      PROVE  LateInv'
  <2>1. now' = now  BY <1>3 DEF ReadGate
  <2>2. /\ gate'[g].late <=> r \in recalled
        /\ gate'[g].revoked <=> r \in revoked
        /\ gate'[g].pc = "judge"
    BY <1>3 DEF ReadGate, TypeInv, GateType
  <2>3. Good(g)  BY <2>1, <2>2 DEF RecallInv
  <2>4. \A h \in Gates : Good(h)  BY <1>1, <1>3, <2>3, GateBegins
  <2> QED  BY <2>4 DEF LateInv, Expired
<1>4. ASSUME NEW g \in Gates, Judge(g) PROVE LateInv'
  <2>1. now' = now  BY <1>4 DEF Judge
  <2>2. gate[g].pc = "judge"  BY <1>4 DEF Judge
  <2>3. gate[g].late => ~Permits(g)
    BY <2>2 DEF LateInv, Permits, Status
  <2>4. \A h \in Gates : Good(h)  BY <2>1, <2>3, <1>4, JudgeMoves DEF LateInv
  <2> QED  BY <2>4 DEF LateInv, Expired
<1>5. ASSUME NEW g \in Gates, Consume(g) \/ ConsumeFails(g) PROVE LateInv'
  <2>1. now' = now  BY <1>5 DEF Consume, ConsumeFails
  <2>2. \A h \in Gates : Good(h)  BY <2>1, <1>5, ConsumeMoves DEF LateInv
  <2> QED  BY <2>2 DEF LateInv, Expired
<1> QED  BY <1>2, <1>3, <1>4, <1>5, GateSteps

\* When no sweeper's clock is ahead of the gates', a request whose Revoke has
\* returned is refused by every gate that begins later.
THEOREM RevocationHolds == ASSUME Skew = 0 PROVE Spec => []RevokedStaysRefused
<1>1. Init => RecallInv /\ LateInv  BY DEF Init, RecallInv, LateInv, NoGate
<1>2. TypeInv /\ RecallInv /\ LateInv /\ [Next]_vars => RecallInv' /\ LateInv'
  BY StepRecallInv, StepLateInv
<1>3. LateInv => RevokedStaysRefused  BY DEF LateInv, RevokedStaysRefused
<1> QED  BY <1>1, <1>2, <1>3, InitTypeInv, StepTypeInv, PTL DEF Spec
=============================================================================
