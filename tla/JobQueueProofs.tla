--------------------------- MODULE JobQueueProofs ---------------------------
(* Proofs about JobQueue, for any jobs, agents and control planes.           *)
EXTENDS JobQueue, FiniteSetTheorems, WellFoundedInduction, TLAPS

-----------------------------------------------------------------------------
(* The invariant.                                                            *)

\* A claim under way has locked a job that is still queued, and no other claim
\* has locked it.
ClaimInv ==
    /\ \A p \in ControlPlanes : tx[p].job # NoJob =>
         tx[p].agent # Nobody /\ state[tx[p].job] = "queued"
    /\ \A p, q \in ControlPlanes : tx[p].job # NoJob /\ tx[p].job = tx[q].job => p = q

\* A job has an owner from its claim on.
OwnerInv == \A j \in Jobs : state[j] \in {"none", "queued"} => owner[j] = Nobody

\* Requests about a job come from its owner, and report a success only when
\* there was one.
RequestInv ==
    \A r \in requests : r.kind # "claim" =>
      /\ r.job \in Jobs /\ owner[r.job] = r.agent
      /\ r.kind = "complete" /\ r.ok => r.job \in worked

\* An agent is told of a job once, before it begins it.
AnswerInv ==
    \A a \in Agents : answer[a].what = "job" =>
      answer[a].job \in Jobs /\ owner[answer[a].job] = a /\ answer[a].job \notin begun

\* An agent works on a job that it owns and has begun.
RunInv ==
    /\ \A a \in Agents : run[a].pc \in {"exec", "report"} =>
         /\ run[a].job \in Jobs /\ owner[run[a].job] = a /\ run[a].job \in begun
         /\ run[a].pc = "report" /\ run[a].ok => run[a].job \in worked
         /\ run[a].pc = "exec" => run[a].tries = 0
    /\ worked \subseteq begun /\ \A j \in begun : owner[j] # Nobody

\* An agent that has used up its attempts waits for the answer to the last.
RetryInv ==
    \A a \in Agents : run[a].pc = "report" /\ run[a].tries = MaxAttempts => Waiting(a)

\* The inductive invariant.
LifeInv == TypeOK /\ ClaimInv /\ OwnerInv /\ RequestInv /\ AnswerInv /\ RunInv /\ RetryInv

\* The requests, and the claims under way, whose answer agent a awaits.
HeardRequests(a) == {r \in requests : r.agent = a /\ r.heard}
HeardClaims(a) == {p \in ControlPlanes : tx[p].agent = a /\ tx[p].heard}

\* Request r is of the phase that agent a is in.
InPhase(a, r) ==
    /\ r.kind = "claim" => run[a].pc = "claim"
    /\ r.kind = "progress" => run[a].pc = "exec"
    /\ r.kind = "complete" => run[a].pc = "report" /\ r.job = run[a].job /\ r.ok = run[a].ok

\* An agent waits for one thing, and that is of its present phase: no answer
\* to what it gave up reaches it later.
HeardOf(a) ==
    /\ HeardRequests(a) # {} => HeardClaims(a) = {} /\ answer[a] = Silent
    /\ HeardClaims(a) # {} => answer[a] = Silent /\ run[a].pc = "claim"
    /\ answer[a] # Silent => run[a].pc \in {"claim", "exec", "report"}
    /\ \A r, q \in HeardRequests(a) : r = q
    /\ \A p, q \in HeardClaims(a) : p = q
    /\ \A r \in HeardRequests(a) : InPhase(a, r)

\* And of every agent.
HeardInv == \A a \in Agents : HeardOf(a)

\* A success that is acknowledged, or about to be, is on record.
AckInv ==
    /\ AckedIsCompleted
    /\ \A a \in Agents : run[a].pc = "report" /\ run[a].ok /\ answer[a].what = "ok" =>
         state[run[a].job] \in {"completed", "gone"}

\* The inductive invariant of what is reported.
ReportInv == LifeInv /\ HeardInv /\ AckInv

\* Under a cap claims are made one at a time, and one that has a job has room.
CapInv ==
    Cap > 0 =>
      /\ Cardinality(Running) <= Cap
      /\ \A p, q \in ControlPlanes : tx[p] # Idle /\ tx[q] # Idle => p = q
      /\ \A p \in ControlPlanes : tx[p].job # NoJob => Cardinality(Running) < Cap

-----------------------------------------------------------------------------
(* Types.                                                                    *)

\* The assumptions on the constants, spelled out for the provers.
LEMMA ConstantTypes ==
    /\ Jobs \subseteq Nat /\ IsFiniteSet(Jobs) /\ Hangs \subseteq Jobs
    /\ Serves \in [Agents -> SUBSET Jobs]
    /\ Cap \in Nat /\ MaxAttempts \in Nat /\ MaxAttempts > 0 /\ MaxFaults \in Nat
    /\ Nobody \notin Agents /\ NoJob \notin Jobs
  BY JobsAssumption

\* A non-empty set of natural numbers has a least element.
LEMMA MinMember ==
    ASSUME NEW S \in SUBSET Nat, S # {}
    PROVE  Min(S) \in S
<1> DEFINE Less == {ss \in Nat \X Nat : ss[1] < ss[2]}
<1>1. IsWellFoundedOn(Less, Nat)
  BY NatLessThanWellFounded, Zenon DEF OpToRel
<1> HIDE DEF Less
<1>2. PICK x \in S : \A y \in S : ~(<<y, x>> \in Less)
  BY <1>1, WFMin, Zenon
<1>3. ASSUME NEW y \in S PROVE x <= y
  <2>1. y < x => <<y, x>> \in Less  BY DEF Less
  <2> QED  BY <1>2, <2>1
<1> QED  BY <1>3 DEF Min

TypeOfTable == /\ state \in [Jobs -> States] /\ owner \in [Jobs -> Agents \cup {Nobody}]
               /\ overdue \subseteq Running
TypeOfTx == tx \in [ControlPlanes -> [agent : Agents \cup {Nobody}, job : Jobs \cup {NoJob}, heard : BOOLEAN]]
TypeOfRequests == requests \subseteq Requests
TypeOfAnswer == answer \in [Agents -> Answers]
TypeOfRun == run \in [Agents -> Runs]
TypeOfHistory == begun \subseteq Jobs /\ worked \subseteq Jobs /\ acked \subseteq Jobs

\* A request that is sent is one.
LEMMA SendType ==
    ASSUME TypeOfRequests, NEW kind \in Kinds, NEW a \in Agents, NEW j \in Jobs \cup {NoJob},
           NEW good \in BOOLEAN, Send(kind, a, j, good)
    PROVE  TypeOfRequests'
<1>1. [kind |-> kind, agent |-> a, job |-> j, ok |-> good, heard |-> TRUE] \in Requests
  BY Zenon DEF Requests
<1> QED  BY <1>1 DEF TypeOfRequests, Send

\* Nobody is told anything strange.
LEMMA TellType ==
    ASSUME TypeOfAnswer, NEW a, NEW heard, NEW what \in Answers, Tell(a, heard, what)
    PROVE  TypeOfAnswer'
  BY DEF TypeOfAnswer, Tell

\* An agent that stops listening changes no type.
LEMMA DeafenType ==
    ASSUME TypeOfRequests, TypeOfTx, TypeOfAnswer, NEW a, Deafen(a)
    PROVE  TypeOfRequests' /\ TypeOfTx' /\ TypeOfAnswer'
<1>1. ASSUME NEW r \in requests PROVE [r EXCEPT !.heard = @ /\ r.agent # a] \in Requests
  BY <1>1 DEF TypeOfRequests, Requests
<1>2. ASSUME NEW p \in ControlPlanes
      PROVE [tx[p] EXCEPT !.heard = @ /\ tx[p].agent # a] \in 
       [agent : Agents \cup {Nobody}, job : Jobs \cup {NoJob}, heard : BOOLEAN]
  BY <1>2 DEF TypeOfTx
<1>3. Silent \in Answers BY DEF Silent, Answer, Answers
<1> QED  BY <1>1, <1>2, <1>3 DEF TypeOfRequests, TypeOfTx, TypeOfAnswer, Deafen, Hear

\* The types, taken apart and put together again.
Types == /\ TypeOfTable /\ TypeOfTx /\ TypeOfRequests /\ TypeOfAnswer /\ TypeOfRun
         /\ TypeOfHistory /\ faults \in 0 .. MaxFaults

\* TypeOK, split into the parts the proofs take one at a time.
LEMMA TypeParts == (TypeOK <=> Types) /\ (TypeOK' <=> Types')
  BY DEF TypeOK, Types, TypeOfTable, TypeOfTx, TypeOfRequests, TypeOfAnswer, TypeOfRun, TypeOfHistory, Running

\* What a claim finds is a queued job that nobody else has locked.
LEMMA ClaimableJob ==
    ASSUME TypeOK, NEW a \in Agents, Claimable(a) # {}
    PROVE  /\ Min(Claimable(a)) \in Jobs /\ Min(Claimable(a)) \notin Locked
           /\ state[Min(Claimable(a))] = "queued"
           /\ Cap = 0 \/ Cardinality(Running) < Cap
<1>1. Claimable(a) \in SUBSET Nat  BY ConstantTypes DEF Claimable
<1>2. Min(Claimable(a)) \in Claimable(a)  BY <1>1, MinMember
<1> QED  BY <1>2, ConstantTypes DEF Claimable, Counted

\* A fresh control plane is well-typed.
LEMMA InitType == Init => TypeOK
<1> SUFFICES ASSUME Init PROVE TypeOK  OBVIOUS
<1> USE ConstantTypes DEF Init
<1>1. TypeOfTable  BY DEF TypeOfTable, States, Running
<1>2. TypeOfTx  BY DEF TypeOfTx, Idle
<1>3. TypeOfRequests  BY DEF TypeOfRequests
<1>4. TypeOfAnswer  BY DEF TypeOfAnswer, Silent, Answer, Answers
<1>5. TypeOfRun  BY DEF TypeOfRun, Free, Runs
<1>6. TypeOfHistory /\ faults \in 0 .. MaxFaults  BY DEF TypeOfHistory
<1> QED  BY <1>1, <1>2, <1>3, <1>4, <1>5, <1>6, TypeParts DEF Types

\* The answers that are given.
LEMMA AnswerType ==
    /\ Silent \in Answers
    /\ \A what \in {"error", "ok", "conflict", "notfound"} : Answer(what) \in Answers
    /\ \A j \in Jobs : [what |-> "job", job |-> j] \in Answers
  BY DEF Silent, Answer, Answers

\* An agent that begins anew.
LEMMA FreeType ==
    /\ Free \in Runs
    /\ [Free EXCEPT !.pc = "claim"] \in Runs /\ [Free EXCEPT !.pc = "down"] \in Runs
    /\ \A j \in Jobs : [Free EXCEPT !.pc = "exec", !.job = j] \in Runs
<1>1. 0 \in 0 .. MaxAttempts  BY ConstantTypes
<1>2. Free \in Runs  BY <1>1 DEF Free, Runs
<1>3. [Free EXCEPT !.pc = "claim"] \in Runs  BY <1>2, Zenon DEF Runs
<1>4. [Free EXCEPT !.pc = "down"] \in Runs  BY <1>2, Zenon DEF Runs
<1>5. ASSUME NEW j \in Jobs PROVE [Free EXCEPT !.pc = "exec", !.job = j] \in Runs  BY <1>2, Zenon DEF Runs
<1> QED  BY <1>2, <1>3, <1>4, <1>5

\* The job table, and the transactions on it, keep their types.
LEMMA RegistryType ==
    ASSUME TypeOK, Serve \/ SweepAbandoned \/ Environment
    PROVE  TypeOK'
<1> USE ConstantTypes, AnswerType
<1>0. /\ TypeOfTable /\ TypeOfTx /\ TypeOfRequests /\ TypeOfAnswer /\ TypeOfRun
      /\ TypeOfHistory /\ faults \in 0 .. MaxFaults
  BY TypeParts DEF Types
<1>1. ASSUME NEW p \in ControlPlanes, ClaimRow(p) PROVE TypeOK'
  <2>1. tx[p].agent \in Agents  BY <1>0, <1>1 DEF ClaimRow, TypeOfTx
  <2>2. Min(Claimable(tx[p].agent)) \in Jobs  BY <1>1, <2>1, ClaimableJob DEF ClaimRow
  <2>3. TypeOfTx'  BY <1>0, <1>1, <2>2 DEF ClaimRow, TypeOfTx
  <2> QED  BY <1>0, <1>1, <2>3, TypeParts DEF Types, ClaimRow, table, history, NoFault,
              TypeOfTable, Running, TypeOfRequests, TypeOfAnswer, TypeOfRun, TypeOfHistory
<1>2. ASSUME NEW p \in ControlPlanes, NoRow(p) PROVE TypeOK'
  <2>1. TypeOfAnswer'  BY <1>0, <1>2, TellType DEF NoRow
  <2>2. TypeOfTx'  BY <1>0, <1>2 DEF NoRow, TypeOfTx, Idle
  <2> QED  BY <1>0, <1>2, <2>1, <2>2, TypeParts DEF Types, NoRow, table, history, NoFault,
              TypeOfTable, Running, TypeOfRequests, TypeOfRun, TypeOfHistory
<1>3. ASSUME NEW p \in ControlPlanes, CommitClaim(p) PROVE TypeOK'
  <2>1. tx[p].job \in Jobs /\ tx[p].agent \in Agents \cup {Nobody}  BY <1>0, <1>3 DEF CommitClaim, TypeOfTx
  <2>2. TypeOfAnswer'  BY <1>0, <1>3, <2>1, TellType DEF CommitClaim
  <2>3. TypeOfTx'  BY <1>0, <1>3 DEF CommitClaim, TypeOfTx, Idle
  <2>4. TypeOfTable'  BY <1>0, <1>3, <2>1 DEF CommitClaim, TypeOfTable, States, Running
  <2> QED  BY <1>0, <1>3, <2>2, <2>3, <2>4, TypeParts DEF Types, CommitClaim, history, NoFault,
              TypeOfRequests, TypeOfRun, TypeOfHistory
<1>4. ASSUME NEW p \in ControlPlanes, NEW r \in requests, BeginClaim(p, r) PROVE TypeOK'
  <2>1. r.agent \in Agents  BY <1>0 DEF TypeOfRequests, Requests
  <2>2. r.heard \in BOOLEAN  BY <1>0, Zenon DEF TypeOfRequests, Requests
  <2>3. TypeOfTx'  BY <1>0, <1>4, <2>1, <2>2 DEF BeginClaim, TypeOfTx
  <2> QED  BY <1>0, <1>4, <2>3, TypeParts DEF Types, BeginClaim, table, history, NoFault,
              TypeOfTable, Running, TypeOfRequests, TypeOfAnswer, TypeOfRun, TypeOfHistory
<1>5. ASSUME NEW r \in requests, AppendProgress(r) PROVE TypeOK'
  <2>1. TypeOfAnswer'  BY <1>0, <1>5, TellType DEF AppendProgress
  <2>2. TypeOfTable'  BY <1>0, <1>5 DEF AppendProgress, TypeOfTable, Running
  <2> QED  BY <1>0, <1>5, <2>1, <2>2, TypeParts DEF Types, AppendProgress, history, NoFault,
              TypeOfTx, TypeOfRequests, TypeOfRun, TypeOfHistory
<1>6. ASSUME NEW r \in requests, Complete(r) PROVE TypeOK'
  <2>0. Answer(Verdict(r)) \in Answers  BY DEF Verdict
  <2>1. TypeOfAnswer'  BY <1>0, <1>6, <2>0, TellType DEF Complete
  <2>2. Recorded(r) \in Terminal  BY DEF Recorded, Terminal
  <2>3. TypeOfTable'
    <3>1. CASE state[r.job] \in Terminal \cup {"gone"}
      BY <1>0, <1>6, <3>1 DEF Complete, TypeOfTable, Running
    <3>2. CASE state[r.job] \notin Terminal \cup {"gone"}
      <4>1. /\ state' = [state EXCEPT ![r.job] = Recorded(r)] /\ overdue' = overdue \ {r.job}
            /\ owner' = owner
        BY <1>6, <3>2 DEF Complete
      <4>2. Recorded(r) \in States  BY <2>2 DEF States
      <4> QED  BY <1>0, <4>1, <4>2 DEF TypeOfTable, Running
    <3> QED  BY <3>1, <3>2
  <2> QED  BY <1>0, <1>6, <2>1, <2>3, TypeParts DEF Types, Complete, history, NoFault,
              TypeOfTx, TypeOfRequests, TypeOfRun, TypeOfHistory
<1>7. ASSUME SweepAbandoned \/ \E j \in Jobs : Enqueue(j) \/ Cancel(j) \/ Silence(j) \/ PruneTerminal(j)
      PROVE TypeOK'
  <2>1. TypeOfTable'
    BY ZenonT(60), <1>0, <1>7 DEF Enqueue, Cancel, Silence, PruneTerminal, SweepAbandoned, Abandoned, TypeOfTable,
                      Running, States, Terminal
  <2>2. UNCHANGED <<network, run, history, faults>>
    BY <1>7 DEF Enqueue, Cancel, Silence, PruneTerminal, SweepAbandoned, NoFault
  <2> QED  BY <1>0, <2>1, <2>2, TypeParts DEF Types, network, history, TypeOfTx, TypeOfRequests,
              TypeOfAnswer, TypeOfRun, TypeOfHistory
<1>8. ASSUME NEW p \in ControlPlanes, AbortClaim(p) PROVE TypeOK'
  <2>1. TypeOfAnswer'  BY <1>0, <1>8, TellType DEF AbortClaim
  <2>2. TypeOfTx'  BY <1>0, <1>8 DEF AbortClaim, TypeOfTx, Idle
  <2> QED  BY <1>0, <1>8, <2>1, <2>2, TypeParts DEF Types, AbortClaim, table, history, Fault,
              TypeOfTable, Running, TypeOfRequests, TypeOfRun, TypeOfHistory
<1>9. ASSUME NEW r \in requests, Lose(r) PROVE TypeOK'
  BY <1>0, <1>9, TypeParts DEF Types, Lose, table, history, NoFault,
     TypeOfTable, Running, TypeOfTx, TypeOfRequests, TypeOfAnswer, TypeOfRun, TypeOfHistory
<1>10. ASSUME NEW a \in Agents, Report(a) PROVE TypeOK'
  <2>1. run[a].job \in Jobs \cup {NoJob}  BY <1>0 DEF TypeOfRun, Runs
  <2>2. TypeOfRequests'  BY <1>0, <1>10, <2>1, SendType DEF Report, Kinds
  <2> QED  BY <1>0, <1>10, <2>2, TypeParts DEF Types, Report, table, history, NoFault,
              TypeOfTable, Running, TypeOfTx, TypeOfAnswer, TypeOfRun, TypeOfHistory
<1>11. ASSUME NEW a \in Agents, TimeOut(a) \/ Crash(a) PROVE TypeOK'
  <2>1. TypeOfRequests' /\ TypeOfTx' /\ TypeOfAnswer'
    BY <1>0, <1>11, DeafenType DEF TimeOut, Crash
  <2>2. Free \in Runs /\ [Free EXCEPT !.pc = "down"] \in Runs  BY FreeType
  <2>3. run[a] \in Runs  BY <1>0 DEF TypeOfRun
  <2>4. TypeOfRun'  BY <1>0, <1>11, <2>2, <2>3 DEF TimeOut, Crash, Become, Retried, TypeOfRun
  <2> QED  BY <1>0, <1>11, <2>1, <2>4, TypeParts DEF Types, TimeOut, Crash, table, history, Fault,
              TypeOfTable, Running, TypeOfHistory
<1>12. ASSUME NEW a \in Agents, Restart(a) PROVE TypeOK'
  <2>1. TypeOfRun'  BY <1>0, <1>12 DEF Restart, Become, Free, Runs, TypeOfRun
  <2> QED  BY <1>0, <1>12, <2>1, TypeParts DEF Types, Restart, table, network, history, NoFault,
              TypeOfTable, Running, TypeOfTx, TypeOfRequests, TypeOfAnswer, TypeOfHistory
<1>13. ASSUME NEW a \in Agents, WatchMisled(a) PROVE TypeOK'
  <2>1. run[a] \in Runs  BY <1>0 DEF TypeOfRun
  <2>2. [run[a] EXCEPT !.revoked = TRUE] \in Runs  BY <2>1, Zenon DEF Runs
  <2>3. TypeOfRun'  BY <1>0, <1>13, <2>2 DEF WatchMisled, Become, TypeOfRun
  <2> QED  BY <1>0, <1>13, <2>3, TypeParts DEF Types, WatchMisled, table, network, history, Fault,
              TypeOfTable, Running, TypeOfTx, TypeOfRequests, TypeOfAnswer, TypeOfHistory
<1> QED  BY <1>1, <1>2, <1>3, <1>4, <1>5, <1>6, <1>7, <1>8, <1>9, <1>10, <1>11, <1>12, <1>13
         DEF Serve, Environment

\* Agents, and what travels between them and the control plane, keep theirs.
LEMMA AgentType ==
    ASSUME TypeOK, AnswerInv, RunInv, RetryInv, NEW a \in Agents, AgentStep(a)
    PROVE  TypeOK'
<1> USE ConstantTypes, AnswerType
<1>0. /\ TypeOfTable /\ TypeOfTx /\ TypeOfRequests /\ TypeOfAnswer /\ TypeOfRun
      /\ TypeOfHistory /\ faults \in 0 .. MaxFaults
  BY TypeParts DEF Types
<1>1. run[a] \in Runs /\ answer[a] \in Answers  BY <1>0 DEF TypeOfRun, TypeOfAnswer
<1>2. run[a].job \in Jobs \cup {NoJob} /\ run[a].tries \in 0 .. MaxAttempts  BY <1>1 DEF Runs
<1>3. run[a].ok \in BOOLEAN  BY <1>1, Zenon DEF Runs
<1>4. CASE Poll(a)
  <2>1. TypeOfRequests'  BY <1>0, <1>4, SendType DEF Poll, Kinds
  <2>2. TypeOfRun'  BY <1>0, <1>4, FreeType DEF Poll, Become, TypeOfRun
  <2> QED  BY <1>0, <1>4, <2>1, <2>2, TypeParts DEF Types, Poll, table, history, NoFault,
              TypeOfTable, Running, TypeOfTx, TypeOfAnswer, TypeOfHistory
<1>5. CASE Claimed(a)
  <2>1. TypeOfAnswer'  BY <1>0, <1>5 DEF Claimed, Hear, TypeOfAnswer
  <2>2. answer[a].job \in Jobs \cup {NoJob}  BY <1>1 DEF Answers
  <2>3. CASE answer[a].what = "job"
    <3>1. answer[a].job \in Jobs  BY <2>3 DEF AnswerInv
    <3>2. TypeOfRun' /\ TypeOfHistory'
      BY <1>0, <1>5, <2>3, <3>1, FreeType DEF Claimed, Become, TypeOfRun, TypeOfHistory
    <3> QED  BY <1>0, <1>5, <2>1, <3>2, TypeParts DEF Types, Claimed, table, NoFault,
                TypeOfTable, Running, TypeOfTx, TypeOfRequests
  <2>4. CASE answer[a].what # "job"
    <3>1. TypeOfRun' /\ TypeOfHistory'
      BY <1>0, <1>5, <2>4, FreeType DEF Claimed, Become, TypeOfRun, TypeOfHistory
    <3> QED  BY <1>0, <1>5, <2>1, <3>1, TypeParts DEF Types, Claimed, table, NoFault,
                TypeOfTable, Running, TypeOfTx, TypeOfRequests
  <2> QED  BY <2>3, <2>4
<1>6. CASE Reported(a)
  <2>1. TypeOfAnswer'  BY <1>0, <1>6 DEF Reported, Hear, TypeOfAnswer
  <2>2. [run[a] EXCEPT !.revoked = @ \/ answer[a].what = "conflict"] \in Runs  BY <1>1, Zenon DEF Runs
  <2>3. TypeOfRun'  BY <1>0, <1>6, <2>2 DEF Reported, Become, TypeOfRun
  <2> QED  BY <1>0, <1>6, <2>1, <2>3, TypeParts DEF Types, Reported, table, history, NoFault,
              TypeOfTable, Running, TypeOfTx, TypeOfRequests, TypeOfHistory
<1>7. CASE Watch(a) \/ WatchMisled(a)
  <2>1. [run[a] EXCEPT !.revoked = TRUE] \in Runs  BY <1>1, Zenon DEF Runs
  <2>2. TypeOfRun'  BY <1>0, <1>7, <2>1 DEF Watch, WatchMisled, Become, TypeOfRun
  <2> QED  BY <1>0, <1>7, <2>2, TypeParts DEF Types, Watch, WatchMisled, table, network, history, NoFault, Fault,
              TypeOfTable, Running, TypeOfTx, TypeOfRequests, TypeOfAnswer, TypeOfHistory
<1>8. ASSUME NEW good \in BOOLEAN, Executed(a, good) PROVE TypeOK'
  <2>1. TypeOfRequests' /\ TypeOfTx' /\ TypeOfAnswer'  BY <1>0, <1>8, DeafenType DEF Executed
  <2>2. [run[a] EXCEPT !.pc = "report", !.ok = good] \in Runs  BY <1>1, Zenon DEF Runs
  <2>3. TypeOfRun'  BY <1>0, <1>8, <2>2, FreeType DEF Executed, Become, TypeOfRun
  <2>4. run[a].job \in Jobs  BY <1>8 DEF Executed, RunInv
  <2>5. TypeOfHistory'  BY <1>0, <1>8, <2>4 DEF Executed, TypeOfHistory
  <2> QED  BY <1>0, <1>8, <2>1, <2>3, <2>5, TypeParts DEF Types, Executed, table, NoFault,
              TypeOfTable, Running
<1>9. CASE SendComplete(a)
  <2>1. TypeOfRequests'  BY <1>0, <1>9, <1>2, <1>3, SendType DEF SendComplete, Kinds
  <2>2. run[a].tries + 1 \in 0 .. MaxAttempts
    <3>1. run[a].tries # MaxAttempts  BY <1>9, Zenon DEF SendComplete, RetryInv
    <3> QED  BY <1>2, <3>1
  <2>3. [run[a] EXCEPT !.tries = @ + 1] \in Runs  BY <1>1, <2>2, Zenon DEF Runs
  <2>4. TypeOfRun'  BY <1>0, <1>9, <2>3 DEF SendComplete, Become, TypeOfRun
  <2> QED  BY <1>0, <1>9, <2>1, <2>4, TypeParts DEF Types, SendComplete, table, history, NoFault,
              TypeOfTable, Running, TypeOfTx, TypeOfAnswer, TypeOfHistory
<1>10. CASE Completed(a)
  <2>1. TypeOfAnswer'  BY <1>0, <1>10 DEF Completed, Hear, TypeOfAnswer
  <2>2. TypeOfRun'  BY <1>0, <1>1, <1>10, FreeType DEF Completed, Become, Retried, TypeOfRun
  <2>3. run[a].job \in Jobs  BY <1>10 DEF Completed, RunInv
  <2>4. TypeOfHistory'  BY <1>0, <1>10, <2>3 DEF Completed, TypeOfHistory
  <2> QED  BY <1>0, <1>10, <2>1, <2>2, <2>4, TypeParts DEF Types, Completed, table, NoFault,
              TypeOfTable, Running, TypeOfTx, TypeOfRequests
<1> QED  BY <1>4, <1>5, <1>6, <1>7, <1>8, <1>9, <1>10 DEF AgentStep

\* Every step, and none, keeps the types.
LEMMA NextType ==
    ASSUME TypeOK, AnswerInv, RunInv, RetryInv, [Next]_vars
    PROVE  TypeOK'
<1>1. CASE UNCHANGED vars
  BY <1>1 DEF vars, table, network, history, TypeOK, Running
<1> QED  BY <1>1, RegistryType, AgentType DEF Next

-----------------------------------------------------------------------------
(* What the steps do.                                                        *)

\* Requests and claims under way stay what they are when an agent stops
\* listening; only nobody hears the answer.
LEMMA Deafened ==
    ASSUME TypeOK, NEW a \in Agents, Deafen(a)
    PROVE  /\ \A n \in requests' : \E r \in requests :
                /\ n.kind = r.kind /\ n.agent = r.agent /\ n.job = r.job /\ n.ok = r.ok
                /\ n.heard => n \in requests /\ n.agent # a
           /\ \A r \in requests : r.agent # a => r \in requests'
           /\ \A p \in ControlPlanes :
                /\ tx'[p].agent = tx[p].agent /\ tx'[p].job = tx[p].job
                /\ tx'[p].heard <=> tx[p].heard /\ tx[p].agent # a
           /\ answer' = [answer EXCEPT ![a] = Silent]
<1> DEFINE deaf(r) == [r EXCEPT !.heard = @ /\ r.agent # a]
<1>1. requests' = {deaf(r) : r \in requests}  BY DEF Deafen
<1>2. ASSUME NEW r \in requests
      PROVE  /\ deaf(r).kind = r.kind /\ deaf(r).agent = r.agent /\ deaf(r).job = r.job
             /\ deaf(r).ok = r.ok
             /\ deaf(r).heard <=> r.heard /\ r.agent # a
             /\ r.agent # a => deaf(r) = r
  <2>1. r \in Requests  BY DEF TypeOK
  <2> QED  BY <2>1, Zenon DEF Requests
<1>3. ASSUME NEW p \in ControlPlanes
      PROVE  /\ tx'[p].agent = tx[p].agent /\ tx'[p].job = tx[p].job
             /\ tx'[p].heard <=> tx[p].heard /\ tx[p].agent # a
  <2>1. tx'[p] = [tx[p] EXCEPT !.heard = @ /\ tx[p].agent # a]  BY Zenon DEF Deafen
  <2>2. tx[p] \in [agent : Agents \cup {Nobody}, job : Jobs \cup {NoJob}, heard : BOOLEAN]
    BY DEF TypeOK
  <2> QED  BY <2>1, <2>2, Zenon
<1>4. answer' = [answer EXCEPT ![a] = Silent]  BY DEF Deafen, Hear
<1> HIDE DEF deaf
<1>5. ASSUME NEW n \in requests'
      PROVE  \E r \in requests : /\ n.kind = r.kind /\ n.agent = r.agent /\ n.job = r.job /\ n.ok = r.ok
                                 /\ n.heard => n \in requests /\ n.agent # a
  <2>1. PICK r \in requests : n = deaf(r)  BY <1>1, Zenon
  <2> QED  BY <1>2, <2>1, Zenon
<1>6. ASSUME NEW r \in requests, r.agent # a PROVE r \in requests'
  BY <1>1, <1>2, <1>6, Zenon
<1> QED  BY <1>3, <1>4, <1>5, <1>6, Zenon

\* What happens to the table: jobs go forward, and only a claim gives an owner.
LEMMA TableMoves ==
    ASSUME LifeInv, [Next]_vars
    PROVE  /\ \A j \in Jobs : owner'[j] = owner[j] \/ (state[j] = "queued" /\ state'[j] = "running")
           /\ \A j \in Jobs : state'[j] \in {"none", "queued"} => state[j] \in {"none", "queued"}
           /\ begun \subseteq begun' /\ worked \subseteq worked'
<1> USE ConstantTypes DEF LifeInv
<1>1. ASSUME NEW p \in ControlPlanes, CommitClaim(p)
      PROVE  /\ \A j \in Jobs : owner'[j] = owner[j] \/ (state[j] = "queued" /\ state'[j] = "running")
             /\ \A j \in Jobs : state'[j] \in {"none", "queued"} => state[j] \in {"none", "queued"}
  BY <1>1 DEF CommitClaim, TypeOK, ClaimInv
<1>2. ASSUME NEW r \in requests, Complete(r)
      PROVE  \A j \in Jobs : state'[j] \in {"none", "queued"} => state[j] \in {"none", "queued"}
  <2>1. Recorded(r) \in {"completed", "failed"}  BY DEF Recorded
  <2> QED  BY <1>2, <2>1 DEF Complete, TypeOK
<1>3. ASSUME SweepAbandoned \/ \E j \in Jobs : Enqueue(j) \/ Cancel(j) \/ Silence(j) \/ PruneTerminal(j)
      PROVE  \A j \in Jobs : state'[j] \in {"none", "queued"} => state[j] \in {"none", "queued"}
  BY <1>3 DEF SweepAbandoned, Abandoned, Enqueue, Cancel, Silence, PruneTerminal, TypeOK
<1>4. (\E p \in ControlPlanes : CommitClaim(p)) \/ UNCHANGED owner
  BY DEF Next, Serve, Environment, AgentStep, vars, table, ClaimRow, NoRow, BeginClaim, AppendProgress, Complete,
         SweepAbandoned, Enqueue, Cancel, Silence, PruneTerminal, AbortClaim, Lose, Report, TimeOut, Crash, Restart,
         Poll, Claimed, Reported, Watch, WatchMisled, Executed, SendComplete, Completed
<1>5. \/ \E p \in ControlPlanes : CommitClaim(p)
      \/ \E r \in requests : Complete(r)
      \/ SweepAbandoned \/ \E j \in Jobs : Enqueue(j) \/ Cancel(j) \/ Silence(j) \/ PruneTerminal(j)
      \/ UNCHANGED state
  BY DEF Next, Serve, Environment, AgentStep, vars, table, ClaimRow, NoRow, BeginClaim, AppendProgress,
         AbortClaim, Lose, Report, TimeOut, Crash, Restart,
         Poll, Claimed, Reported, Watch, WatchMisled, Executed, SendComplete, Completed
<1>6. begun \subseteq begun' /\ worked \subseteq worked'
  BY DEF Next, Serve, Environment, AgentStep, vars, history, ClaimRow, NoRow, CommitClaim, BeginClaim, AppendProgress,
         Complete, SweepAbandoned, Enqueue, Cancel, Silence, PruneTerminal, AbortClaim, Lose, Report, TimeOut,
         Crash, Restart, Poll, Claimed, Reported, Watch, WatchMisled, Executed, SendComplete, Completed
<1> QED  BY <1>1, <1>2, <1>3, <1>4, <1>5, <1>6

\* Once a job has an owner, it keeps it.
LEMMA OwnerStays ==
    ASSUME LifeInv, [Next]_vars, NEW j \in Jobs, owner[j] # Nobody
    PROVE  owner'[j] = owner[j]
  BY TableMoves DEF LifeInv, OwnerInv

-----------------------------------------------------------------------------
(* The parts of LifeInv, one after the other.                                *)

\* A job gets its owner with its claim, and not before.
LEMMA OwnerInvKept == ASSUME LifeInv, [Next]_vars PROVE OwnerInv'
  BY TableMoves DEF LifeInv, OwnerInv

\* A locked job is claimed or stays queued: reports, cancellations and the
\* sweeper are about others.
LEMMA LockedStays ==
    ASSUME LifeInv, [Next]_vars, NEW q \in ControlPlanes, tx[q].job # NoJob
    PROVE  state'[tx[q].job] = "queued" \/ CommitClaim(q)
<1> USE ConstantTypes DEF LifeInv
<1>1. tx[q].job \in Jobs /\ tx[q].job \in Locked /\ state[tx[q].job] = "queued"
  BY DEF TypeOK, ClaimInv, Locked
<1>2. ASSUME NEW p \in ControlPlanes, CommitClaim(p), p # q PROVE state'[tx[q].job] = "queued"
  BY <1>1, <1>2 DEF CommitClaim, ClaimInv, TypeOK
<1>3. ASSUME NEW r \in requests, Complete(r) PROVE state'[tx[q].job] = "queued"
  BY <1>1, <1>3 DEF Complete, TypeOK
<1>4. ASSUME SweepAbandoned PROVE state'[tx[q].job] = "queued"
  BY <1>1, <1>4 DEF SweepAbandoned, Running, TypeOK
<1>5. ASSUME NEW j \in Jobs, Enqueue(j) \/ Cancel(j) \/ Silence(j) \/ PruneTerminal(j)
      PROVE  state'[tx[q].job] = "queued"
  BY ZenonT(60), <1>1, <1>5 DEF Enqueue, Cancel, Silence, PruneTerminal, Terminal, TypeOK
<1>6. \/ \E p \in ControlPlanes : CommitClaim(p)
      \/ \E r \in requests : Complete(r)
      \/ SweepAbandoned \/ \E j \in Jobs : Enqueue(j) \/ Cancel(j) \/ Silence(j) \/ PruneTerminal(j)
      \/ UNCHANGED state
  BY DEF Next, Serve, Environment, AgentStep, vars, table, ClaimRow, NoRow, BeginClaim, AppendProgress,
         AbortClaim, Lose, Report, TimeOut, Crash, Restart,
         Poll, Claimed, Reported, Watch, WatchMisled, Executed, SendComplete, Completed
<1> QED  BY <1>1, <1>2, <1>3, <1>4, <1>5, <1>6

\* The steps in which agent a hears its answer, or stops listening.
Hears(a) ==
    \/ Claimed(a) \/ Reported(a) \/ Completed(a)
    \/ \E good \in BOOLEAN : Executed(a, good)
    \/ TimeOut(a) \/ Crash(a)

\* What may become of the claims under way.
LEMMA TxMoves ==
    ASSUME LifeInv, [Next]_vars
    PROVE  \/ UNCHANGED tx
           \/ \E p \in ControlPlanes, r \in requests : BeginClaim(p, r)
           \/ \E p \in ControlPlanes : ClaimRow(p)
           \/ \E p \in ControlPlanes : (NoRow(p) \/ CommitClaim(p) \/ AbortClaim(p)) /\ tx' = [tx EXCEPT ![p] = Idle]
           \/ \E a \in Agents : Deafen(a) /\ Hears(a) /\ UNCHANGED table
  BY DEF Hears, Next, Serve, Environment, AgentStep, vars, network, NoRow, CommitClaim, AppendProgress, Complete,
         SweepAbandoned, Enqueue, Cancel, Silence, PruneTerminal, AbortClaim, Lose, Report, TimeOut,
         Crash, Restart, Poll, Claimed, Reported, Watch, WatchMisled, Executed, SendComplete, Completed

\* The lock of a claim under way keeps its job queued, and other claims off it.
LEMMA ClaimInvKept == ASSUME LifeInv, [Next]_vars PROVE ClaimInv'
<1> USE ConstantTypes DEF LifeInv
<1>1. CASE UNCHANGED tx
  <2>1. ASSUME NEW p \in ControlPlanes, CommitClaim(p) PROVE FALSE
    <3>1. tx[p].job # NoJob /\ tx'[p] = Idle  BY <2>1 DEF CommitClaim, TypeOK
    <3> QED  BY <1>1, <3>1 DEF Idle
  <2> QED  BY <1>1, <2>1, LockedStays DEF ClaimInv
<1>2. ASSUME NEW p \in ControlPlanes, NEW r \in requests, BeginClaim(p, r) PROVE ClaimInv'
  <2>1. UNCHANGED state  BY <1>2 DEF BeginClaim, table
  <2>2. /\ tx'[p].job = NoJob
        /\ \A q \in ControlPlanes : q # p => tx'[q] = tx[q]
    BY <1>2 DEF BeginClaim, TypeOK
  <2> QED  BY <2>1, <2>2 DEF ClaimInv
<1>3. ASSUME NEW p \in ControlPlanes, ClaimRow(p) PROVE ClaimInv'
  <2>1. UNCHANGED state  BY <1>3 DEF ClaimRow, table
  <2>2. tx[p].agent \in Agents  BY <1>3 DEF ClaimRow, TypeOK
  <2> DEFINE j == Min(Claimable(tx[p].agent))
  <2>3. j \in Jobs /\ j \notin Locked /\ state[j] = "queued"
    BY <1>3, <2>2, ClaimableJob DEF ClaimRow
  <2> HIDE DEF j
  <2>4. /\ tx'[p].job = j /\ tx'[p].agent = tx[p].agent
        /\ \A q \in ControlPlanes : q # p => tx'[q] = tx[q]
    BY <1>3 DEF ClaimRow, TypeOK, j
  <2> QED  BY <2>1, <2>2, <2>3, <2>4 DEF ClaimInv, Locked
<1>4. ASSUME NEW p \in ControlPlanes, NoRow(p) \/ CommitClaim(p) \/ AbortClaim(p), tx' = [tx EXCEPT ![p] = Idle]
      PROVE  ClaimInv'
  <2>1. /\ tx'[p].job = NoJob
        /\ \A q \in ControlPlanes : q # p => tx'[q] = tx[q]
    BY <1>4 DEF TypeOK, Idle
  <2>2. ASSUME NEW q \in ControlPlanes, q # p, tx[q].job # NoJob PROVE state'[tx[q].job] = "queued"
    <3>1. CASE CommitClaim(q)
      <4>1. tx'[q] = Idle  BY <3>1 DEF CommitClaim, TypeOK
      <4> QED  BY <2>1, <2>2, <4>1 DEF Idle
    <3> QED  BY <2>2, <3>1, LockedStays
  <2> QED  BY <2>1, <2>2 DEF ClaimInv
<1>5. ASSUME NEW a \in Agents, Deafen(a), UNCHANGED table PROVE ClaimInv'
  <2>1. \A p \in ControlPlanes : tx'[p].agent = tx[p].agent /\ tx'[p].job = tx[p].job
    BY <1>5, Deafened, Zenon
  <2> QED  BY <1>5, <2>1 DEF ClaimInv, table
<1> QED  BY <1>1, <1>2, <1>3, <1>4, <1>5, TxMoves

\* What is sent about a job is sent by its owner.
LEMMA RequestInvKept == ASSUME LifeInv, [Next]_vars PROVE RequestInv'
<1> USE ConstantTypes DEF LifeInv
<1>1. ASSUME NEW r \in requests, NEW n, n.kind = r.kind, n.agent = r.agent, n.job = r.job, n.ok = r.ok, n.kind # "claim"
      PROVE  /\ n.job \in Jobs /\ owner'[n.job] = n.agent
             /\ n.kind = "complete" /\ n.ok => n.job \in worked'
  <2>1. r.agent \in Agents  BY DEF TypeOK, Requests
  <2>2. r.job \in Jobs /\ owner[r.job] = r.agent  BY <1>1, Zenon DEF RequestInv
  <2>3. r.kind = "complete" /\ r.ok => r.job \in worked  BY <1>1, Zenon DEF RequestInv
  <2>4. owner'[r.job] = owner[r.job]  BY <2>1, <2>2, OwnerStays
  <2>5. worked \subseteq worked'  BY TableMoves
  <2> QED  BY <1>1, <2>2, <2>3, <2>4, <2>5, Zenon
<1>2. CASE requests' \subseteq requests
  BY <1>1, <1>2, Zenon DEF RequestInv
<1>3. ASSUME NEW a \in Agents, Poll(a) PROVE RequestInv'
  <2> DEFINE n == [kind |-> "claim", agent |-> a, job |-> NoJob, ok |-> FALSE, heard |-> TRUE]
  <2>1. requests' = requests \cup {n}  BY <1>3 DEF Poll, Send
  <2>2. n.kind = "claim"  OBVIOUS
  <2> HIDE DEF n
  <2> QED  BY <1>1, <2>1, <2>2, Zenon DEF RequestInv
<1>4. ASSUME NEW a \in Agents, NEW kind \in {"progress", "complete"}, NEW good, Send(kind, a, run[a].job, good),
             run[a].pc \in {"exec", "report"}, kind = "complete" /\ good => run[a].job \in worked
      PROVE RequestInv'
  <2> DEFINE n == [kind |-> kind, agent |-> a, job |-> run[a].job, ok |-> good, heard |-> TRUE]
  <2>1. requests' = requests \cup {n}  BY <1>4 DEF Send
  <2>2. n.kind = kind /\ n.agent = a /\ n.job = run[a].job /\ n.ok = good  BY Zenon
  <2> HIDE DEF n
  <2>3. run[a].job \in Jobs /\ owner[run[a].job] = a  BY <1>4 DEF RunInv
  <2>4. owner'[run[a].job] = a  BY <2>3, OwnerStays
  <2>5. worked \subseteq worked'  BY TableMoves
  <2>6. n.job \in Jobs /\ owner'[n.job] = n.agent  BY <2>2, <2>3, <2>4
  <2>7. n.kind = "complete" /\ n.ok => n.job \in worked'  BY <1>4, <2>2, <2>5, Zenon
  <2> QED  BY <1>1, <2>1, <2>6, <2>7, Zenon DEF RequestInv
<1>5. ASSUME NEW a \in Agents, Report(a) PROVE RequestInv'
  <2>1. Send("progress", a, run[a].job, FALSE) /\ run[a].pc = "exec"  BY <1>5 DEF Report
  <2> QED  BY <1>4, <2>1
<1>6. ASSUME NEW a \in Agents, SendComplete(a) PROVE RequestInv'
  <2>1. Send("complete", a, run[a].job, run[a].ok) /\ run[a].pc = "report"  BY <1>6 DEF SendComplete
  <2>2. run[a].ok => run[a].job \in worked  BY <2>1, Zenon DEF RunInv
  <2> QED  BY <1>4, <2>1, <2>2, Zenon
<1>7. ASSUME NEW a \in Agents, Deafen(a) PROVE RequestInv'
  <2>1. \A n \in requests' : \E r \in requests :
          n.kind = r.kind /\ n.agent = r.agent /\ n.job = r.job /\ n.ok = r.ok
    <3> SUFFICES ASSUME NEW n \in requests'
                 PROVE  \E r \in requests : n.kind = r.kind /\ n.agent = r.agent /\ n.job = r.job /\ n.ok = r.ok
      OBVIOUS
    <3>1. \A m \in requests' : \E r \in requests :
            /\ m.kind = r.kind /\ m.agent = r.agent /\ m.job = r.job /\ m.ok = r.ok
            /\ m.heard => m \in requests /\ m.agent # a
      BY <1>7, Deafened
    <3> QED  BY <3>1, Zenon
  <2> QED  BY <1>1, <2>1, Zenon DEF RequestInv
<1>8. \/ requests' \subseteq requests
      \/ \E a \in Agents : Poll(a) \/ Report(a) \/ SendComplete(a) \/ Deafen(a)
  BY DEF Next, Serve, Environment, AgentStep, vars, network, ClaimRow, NoRow, CommitClaim, BeginClaim, AppendProgress,
         Complete, SweepAbandoned, Enqueue, Cancel, Silence, PruneTerminal, AbortClaim, Lose, TimeOut,
         Crash, Restart, Claimed, Reported, Watch, WatchMisled, Executed, Completed
<1> QED  BY <1>2, <1>3, <1>5, <1>6, <1>7, <1>8

\* An agent's answer stays, is heard or dropped, or is given: of a job only by
\* the commit of its claim.
LEMMA AnswerMoves ==
    ASSUME LifeInv, [Next]_vars, NEW a \in Agents
    PROVE  \/ answer'[a] = answer[a] \/ answer'[a] = Silent
           \/ \E what \in {"error", "ok", "conflict", "notfound"} : answer'[a] = Answer(what)
           \/ \E p \in ControlPlanes : /\ CommitClaim(p) /\ tx[p].agent = a
                                        /\ answer'[a] = [what |-> "job", job |-> tx[p].job]
<1> USE DEF LifeInv
<1>1. ASSUME NEW p \in ControlPlanes, CommitClaim(p)
      PROVE  answer'[a] = answer[a] \/ (tx[p].agent = a /\ answer'[a] = [what |-> "job", job |-> tx[p].job])
  BY <1>1 DEF CommitClaim, Tell, TypeOK
<1>2. ASSUME NEW p \in ControlPlanes, NoRow(p) \/ AbortClaim(p)
      PROVE  answer'[a] \in {answer[a], Answer("error")}
  BY <1>2 DEF NoRow, AbortClaim, Tell, TypeOK
<1>3. ASSUME NEW r \in requests, AppendProgress(r)
      PROVE  answer'[a] \in {answer[a], Answer("ok"), Answer("conflict"), Answer("notfound")}
  BY <1>3 DEF AppendProgress, Tell, TypeOK
<1>4. ASSUME NEW r \in requests, Complete(r)
      PROVE  answer'[a] \in {answer[a], Answer("ok"), Answer("conflict"), Answer("notfound")}
  <2>1. Verdict(r) \in {"ok", "conflict", "notfound"}  BY DEF Verdict
  <2>2. answer'[a] \in {answer[a], Answer(Verdict(r))}  BY <1>4 DEF Complete, Tell, TypeOK
  <2> QED  BY <2>1, <2>2
<1>5. ASSUME NEW b \in Agents, Hear(b) PROVE answer'[a] \in {answer[a], Silent}
  BY <1>5 DEF Hear, TypeOK
<1>6. \/ UNCHANGED answer \/ \E b \in Agents : Hear(b)
      \/ \E p \in ControlPlanes : CommitClaim(p) \/ NoRow(p) \/ AbortClaim(p)
      \/ \E r \in requests : AppendProgress(r) \/ Complete(r)
  BY DEF Next, Serve, Environment, AgentStep, vars, network, ClaimRow, BeginClaim,
         SweepAbandoned, Enqueue, Cancel, Silence, PruneTerminal, Lose, TimeOut, Deafen,
         Crash, Restart, Poll, Report, Claimed, Reported, Watch, WatchMisled, Executed, SendComplete, Completed
<1> QED  BY <1>1, <1>2, <1>3, <1>4, <1>5, <1>6

\* Jobs are begun by the agent that was told of them.
LEMMA HistoryMoves ==
    ASSUME LifeInv, [Next]_vars
    PROVE  /\ begun' = begun \/ \E a \in Agents :
                Claimed(a) /\ answer[a].what = "job" /\ begun' = begun \cup {answer[a].job}
           /\ worked' = worked \/ \E a \in Agents :
                run[a].pc = "exec" /\ worked' = worked \cup {run[a].job} /\ UNCHANGED <<begun, table>>
<1>1. ASSUME NEW a \in Agents, Claimed(a)
      PROVE  begun' = begun \/ (answer[a].what = "job" /\ begun' = begun \cup {answer[a].job})
  BY <1>1 DEF Claimed
<1>2. ASSUME NEW a \in Agents, NEW good \in BOOLEAN, Executed(a, good)
      PROVE  /\ UNCHANGED <<begun, table>>
             /\ worked' = worked \/ (run[a].pc = "exec" /\ worked' = worked \cup {run[a].job})
  BY <1>2 DEF Executed
<1>3. (\E a \in Agents : Claimed(a)) \/ UNCHANGED begun
  BY DEF Next, Serve, Environment, AgentStep, vars, history, ClaimRow, NoRow, CommitClaim, BeginClaim, AppendProgress,
         Complete, SweepAbandoned, Enqueue, Cancel, Silence, PruneTerminal, AbortClaim, Lose, Report, TimeOut,
         Crash, Restart, Poll, Reported, Watch, WatchMisled, Executed, SendComplete, Completed
<1>4. (\E a \in Agents, good \in BOOLEAN : Executed(a, good)) \/ UNCHANGED worked
  BY DEF Next, Serve, Environment, AgentStep, vars, history, ClaimRow, NoRow, CommitClaim, BeginClaim, AppendProgress,
         Complete, SweepAbandoned, Enqueue, Cancel, Silence, PruneTerminal, AbortClaim, Lose, Report, TimeOut,
         Crash, Restart, Poll, Claimed, Reported, Watch, WatchMisled, SendComplete, Completed
<1>5. ASSUME NEW a \in Agents, NEW good \in BOOLEAN, Executed(a, good)
      PROVE  UNCHANGED begun
  BY <1>5 DEF Executed
<1> QED  BY <1>1, <1>2, <1>3, <1>4, <1>5

\* An answer that gives a job gives it to the agent it names.
LEMMA AnswerInvKept == ASSUME LifeInv, [Next]_vars PROVE AnswerInv'
<1> USE ConstantTypes DEF LifeInv
<1> SUFFICES ASSUME NEW a \in Agents, answer'[a].what = "job"
             PROVE  /\ answer'[a].job \in Jobs /\ owner'[answer'[a].job] = a
                    /\ answer'[a].job \notin begun'
  BY DEF AnswerInv
<1>1. CASE answer'[a] = answer[a]
  <2>1. answer[a].job \in Jobs /\ owner[answer[a].job] = a /\ answer[a].job \notin begun
    BY <1>1 DEF AnswerInv
  <2>2. owner'[answer[a].job] = a  BY <2>1, OwnerStays
  <2>3. ASSUME NEW b \in Agents, Claimed(b), answer[b].what = "job", begun' = begun \cup {answer[b].job}
        PROVE  answer[a].job # answer[b].job
    <3>1. CASE b = a
      <4>1. answer'[a] = Silent  BY <2>3, <3>1 DEF Claimed, Hear, TypeOK
      <4> QED  BY <4>1 DEF Silent, Answer
    <3>2. CASE b # a
      BY <2>1, <2>3, <3>2 DEF AnswerInv
    <3> QED  BY <3>1, <3>2
  <2>4. answer[a].job \notin begun'  BY <2>1, <2>3, HistoryMoves
  <2> QED  BY <1>1, <2>1, <2>2, <2>4
<1>2. CASE answer'[a] = Silent \/ \E what \in {"error", "ok", "conflict", "notfound"} : answer'[a] = Answer(what)
  BY <1>2 DEF Silent, Answer
<1>3. ASSUME NEW p \in ControlPlanes, CommitClaim(p), tx[p].agent = a,
             answer'[a] = [what |-> "job", job |-> tx[p].job]
      PROVE  /\ answer'[a].job \in Jobs /\ owner'[answer'[a].job] = a
             /\ answer'[a].job \notin begun'
  <2>1. tx[p].job \in Jobs /\ state[tx[p].job] = "queued"  BY <1>3 DEF CommitClaim, TypeOK, ClaimInv
  <2>2. tx[p].job \notin begun  BY <2>1 DEF OwnerInv, RunInv
  <2>3. begun' = begun  BY <1>3 DEF CommitClaim, history
  <2>4. owner'[tx[p].job] = a  BY <1>3, <2>1 DEF CommitClaim, TypeOK
  <2> QED  BY <1>3, <2>1, <2>2, <2>3, <2>4
<1> QED  BY <1>1, <1>2, <1>3, AnswerMoves

\* An agent that is idle, claims or is down has no job.
LEMMA FreeFields ==
    /\ Free.pc = "idle"
    /\ [Free EXCEPT !.pc = "claim"].pc = "claim" /\ [Free EXCEPT !.pc = "down"].pc = "down"
  BY Zenon DEF Free

\* An agent stays as it is, leaves its job, begins the one it was told of,
\* goes on with it, reports its end, or tries that once more.
LEMMA RunMoves ==
    ASSUME LifeInv, [Next]_vars, NEW a \in Agents
    PROVE  \/ run'[a] = run[a]
           \/ run'[a].pc \in {"idle", "claim", "down"}
           \/ /\ Claimed(a) /\ answer[a].what = "job"
              /\ run'[a].pc = "exec" /\ run'[a].job = answer[a].job /\ run'[a].tries = 0
           \/ /\ run[a].pc = "exec" /\ run'[a].pc = "exec" /\ run'[a].job = run[a].job
              /\ run'[a].tries = run[a].tries /\ UNCHANGED requests
           \/ \E good \in BOOLEAN :
                /\ Executed(a, good) /\ run[a].pc = "exec" /\ run'[a].pc = "report" /\ run'[a].job = run[a].job
                /\ run'[a].ok = good /\ run'[a].tries = run[a].tries
           \/ /\ SendComplete(a) /\ run[a].pc = "report" /\ run'[a].pc = "report"
              /\ run'[a].job = run[a].job /\ run'[a].ok = run[a].ok
<1>0. run[a] \in Runs /\ run \in [Agents -> Runs]  BY DEF LifeInv, TypeOK
<1>1. ASSUME NEW b \in Agents, NEW what, Become(b, what)
      PROVE  run'[a] = IF a = b THEN what ELSE run[a]
  BY <1>0, <1>1 DEF Become
<1>2. ASSUME Poll(a) \/ Restart(a) \/ Crash(a)
      PROVE  run'[a].pc \in {"idle", "claim", "down"}
  <2>1. run'[a] \in {[Free EXCEPT !.pc = "claim"], Free, [Free EXCEPT !.pc = "down"]}
    BY <1>1, <1>2 DEF Poll, Restart, Crash
  <2> QED  BY <2>1, FreeFields, Zenon
<1>3. ASSUME Claimed(a)
      PROVE  \/ run'[a].pc \in {"idle", "claim", "down"}
             \/ /\ answer[a].what = "job"
                /\ run'[a].pc = "exec" /\ run'[a].job = answer[a].job /\ run'[a].tries = 0
  <2>1. CASE answer[a].what = "job"
    <3>1. run'[a] = [Free EXCEPT !.pc = "exec", !.job = answer[a].job]
      BY <1>1, <1>3, <2>1 DEF Claimed
    <3> QED  BY <2>1, <3>1, Zenon DEF Free
  <2>2. CASE answer[a].what # "job"
    <3>1. run'[a] = Free  BY <1>1, <1>3, <2>2 DEF Claimed
    <3> QED  BY <3>1, FreeFields, Zenon
  <2> QED  BY <2>1, <2>2
<1>4. ASSUME Reported(a) \/ Watch(a) \/ WatchMisled(a)
      PROVE  /\ run[a].pc = "exec" /\ run'[a].pc = "exec" /\ run'[a].job = run[a].job
             /\ run'[a].tries = run[a].tries /\ UNCHANGED requests
  <2>1. PICK b : run'[a] = [run[a] EXCEPT !.revoked = b]
    BY <1>1, <1>4, Zenon DEF Reported, Watch, WatchMisled
  <2>2. run[a].pc = "exec" /\ UNCHANGED requests  BY <1>4 DEF Reported, Watch, WatchMisled, network
  <2> QED  BY <1>0, <2>1, <2>2, Zenon DEF Runs
<1>5. ASSUME NEW good \in BOOLEAN, Executed(a, good)
      PROVE  \/ run'[a].pc \in {"idle", "claim", "down"}
             \/ /\ run[a].pc = "exec" /\ run'[a].pc = "report" /\ run'[a].job = run[a].job
                /\ run'[a].ok = good /\ run'[a].tries = run[a].tries
  <2>1. run'[a] = Free \/ run'[a] = [run[a] EXCEPT !.pc = "report", !.ok = good]
    BY <1>1, <1>5, Zenon DEF Executed
  <2>2. run[a].pc = "exec"  BY <1>5 DEF Executed
  <2>3. CASE run'[a] = Free  BY <2>3, FreeFields
  <2>4. CASE run'[a] = [run[a] EXCEPT !.pc = "report", !.ok = good]
    BY <1>0, <2>2, <2>4, Zenon DEF Runs
  <2> QED  BY <2>1, <2>3, <2>4
<1>6. ASSUME SendComplete(a)
      PROVE  /\ run[a].pc = "report" /\ run'[a].pc = "report"
             /\ run'[a].job = run[a].job /\ run'[a].ok = run[a].ok
  <2>1. PICK n : run'[a] = [run[a] EXCEPT !.tries = n]
    BY <1>1, <1>6, Zenon DEF SendComplete
  <2>2. run[a].pc = "report"  BY <1>6 DEF SendComplete
  <2> QED  BY <1>0, <2>1, <2>2, Zenon DEF Runs
<1>7. ASSUME Completed(a) \/ TimeOut(a)
      PROVE  run'[a] = run[a] \/ run'[a].pc \in {"idle", "claim", "down"}
  <2>1. run'[a] \in {run[a], Free}
    BY <1>1, <1>7 DEF Completed, TimeOut, Retried
  <2> QED  BY <2>1, FreeFields, Zenon
<1>8. \/ UNCHANGED run
      \/ \E b \in Agents : b # a /\ \E what : Become(b, what)
      \/ Poll(a) \/ Restart(a) \/ Crash(a) \/ Claimed(a) \/ Reported(a) \/ Watch(a) \/ WatchMisled(a)
      \/ \E good \in BOOLEAN : Executed(a, good)
      \/ SendComplete(a) \/ Completed(a) \/ TimeOut(a)
  <2>1. \/ UNCHANGED run \/ \E b \in Agents : AgentStep(b) \/ WatchMisled(b) \/ TimeOut(b) \/ Crash(b) \/ Restart(b)
    BY DEF Next, Serve, Environment, vars, ClaimRow, NoRow, BeginClaim, AppendProgress, CommitClaim,
           Complete, SweepAbandoned, Enqueue, Cancel, Silence, PruneTerminal, AbortClaim, Lose, Report
  <2>2. ASSUME NEW b \in Agents, AgentStep(b) \/ WatchMisled(b) \/ TimeOut(b) \/ Crash(b) \/ Restart(b)
        PROVE  \E what : Become(b, what)
    BY <2>2, Zenon DEF AgentStep, TimeOut, Crash, Restart, Poll, Claimed, Reported, Watch, WatchMisled, Executed,
                       SendComplete, Completed
  <2> QED  BY <2>1, <2>2 DEF AgentStep
<1> QED  BY <1>1, <1>2, <1>3, <1>4, <1>5, <1>6, <1>7, <1>8

\* Agents begin the jobs they were given, and work on nothing else.
LEMMA RunInvKept == ASSUME LifeInv, [Next]_vars PROVE RunInv'
<1> USE ConstantTypes DEF LifeInv
<1>1. begun \subseteq begun' /\ worked \subseteq worked'  BY TableMoves
<1>2. ASSUME NEW a \in Agents, run'[a].pc \in {"exec", "report"}
      PROVE  /\ run'[a].job \in Jobs /\ owner'[run'[a].job] = a /\ run'[a].job \in begun'
             /\ run'[a].pc = "report" /\ run'[a].ok => run'[a].job \in worked'
             /\ run'[a].pc = "exec" => run'[a].tries = 0
  <2>1. ASSUME run[a].pc \in {"exec", "report"}, run'[a].job = run[a].job
        PROVE  run'[a].job \in Jobs /\ owner'[run'[a].job] = a /\ run'[a].job \in begun'
    <3>1. run[a].job \in Jobs /\ owner[run[a].job] = a /\ run[a].job \in begun  BY <2>1 DEF RunInv
    <3> QED  BY <1>1, <2>1, <3>1, OwnerStays
  <2>2. CASE run'[a] = run[a]
    <3>1. run[a].pc = "report" /\ run[a].ok => run[a].job \in worked  BY <1>2, <2>2, Zenon DEF RunInv
    <3>2. run[a].pc = "exec" => run[a].tries = 0  BY <1>2, <2>2 DEF RunInv
    <3> QED  BY <1>1, <1>2, <2>1, <2>2, <3>1, <3>2, Zenon
  <2>3. CASE /\ Claimed(a) /\ answer[a].what = "job"
             /\ run'[a].pc = "exec" /\ run'[a].job = answer[a].job /\ run'[a].tries = 0
    <3>1. answer[a].job \in Jobs /\ owner[answer[a].job] = a  BY <2>3 DEF AnswerInv
    <3>2. owner'[answer[a].job] = a  BY <3>1, OwnerStays
    <3>3. answer[a].job \in begun'  BY <2>3 DEF Claimed
    <3> QED  BY <2>3, <3>1, <3>2, <3>3
  <2>4. CASE /\ run[a].pc = "exec" /\ run'[a].pc = "exec" /\ run'[a].job = run[a].job
             /\ run'[a].tries = run[a].tries
    <3>1. run[a].tries = 0  BY <2>4 DEF RunInv
    <3> QED  BY <2>1, <2>4, <3>1
  <2>5. ASSUME NEW good \in BOOLEAN, Executed(a, good), run[a].pc = "exec", run'[a].pc = "report",
               run'[a].job = run[a].job, run'[a].ok = good
        PROVE  /\ run'[a].job \in Jobs /\ owner'[run'[a].job] = a /\ run'[a].job \in begun'
               /\ run'[a].pc = "report" /\ run'[a].ok => run'[a].job \in worked'
    <3>1. good => run[a].job \in worked'  BY <2>5 DEF Executed
    <3> QED  BY <2>1, <2>5, <3>1, Zenon
  <2>6. CASE /\ run[a].pc = "report" /\ run'[a].pc = "report"
             /\ run'[a].job = run[a].job /\ run'[a].ok = run[a].ok
    <3>1. run[a].ok => run[a].job \in worked  BY <2>6, Zenon DEF RunInv
    <3> QED  BY <1>1, <2>1, <2>6, <3>1, Zenon
  <2> QED  BY <1>2, <2>2, <2>3, <2>4, <2>5, <2>6, RunMoves
<1>3. worked' \subseteq begun'
  <2>1. ASSUME NEW a \in Agents, run[a].pc = "exec" PROVE run[a].job \in begun  BY <2>1 DEF RunInv
  <2> QED  BY <1>1, <2>1, HistoryMoves DEF RunInv
<1>4. ASSUME NEW j \in begun' PROVE owner'[j] # Nobody
  <2>1. ASSUME NEW a \in Agents, answer[a].what = "job", j = answer[a].job
        PROVE  j \in Jobs /\ owner[j] # Nobody
    BY <2>1 DEF AnswerInv
  <2>2. j \in Jobs /\ owner[j] # Nobody
    <3>1. CASE j \in begun  BY <3>1 DEF RunInv, TypeOK
    <3> QED  BY <2>1, <3>1, HistoryMoves
  <2> QED  BY <2>2, OwnerStays
<1> QED  BY <1>2, <1>3, <1>4 DEF RunInv

\* Agent a goes on waiting until it hears its answer or stops listening.
LEMMA WaitingStays ==
    ASSUME LifeInv, [Next]_vars, NEW a \in Agents, Waiting(a)
    PROVE  Waiting(a)' \/ Hears(a)
<1> USE ConstantTypes DEF LifeInv
<1>0. /\ answer \in [Agents -> Answers] /\ requests \subseteq Requests
      /\ tx \in [ControlPlanes -> [agent : Agents \cup {Nobody}, job : Jobs \cup {NoJob}, heard : BOOLEAN]]
  BY DEF TypeOK
<1>1. ASSUME NEW heard, NEW what, NEW b, Tell(b, heard, what), what # Silent, answer[a] # Silent
      PROVE  answer'[a] # Silent
  BY <1>0, <1>1 DEF Tell
<1>2. ASSUME NEW what, Tell(a, TRUE, what), what # Silent PROVE answer'[a] # Silent
  BY <1>0, <1>2 DEF Tell
<1>3. /\ \A what \in {"error", "ok", "conflict", "notfound"} : Answer(what) # Silent
      /\ \A j : [what |-> "job", job |-> j] # Silent
      /\ \A r : Answer(Verdict(r)) # Silent
  BY DEF Silent, Answer, Verdict
<1>4. ASSUME answer[a] # Silent PROVE answer'[a] # Silent \/ Hears(a)
  <2>1. ASSUME NEW b \in Agents, b # a, Hear(b) PROVE answer'[a] # Silent
    BY <1>0, <1>4, <2>1 DEF Hear
  <2>2. ASSUME NEW p \in ControlPlanes, CommitClaim(p) \/ NoRow(p) \/ AbortClaim(p) PROVE answer'[a] # Silent
    BY <1>1, <1>3, <1>4, <2>2 DEF CommitClaim, NoRow, AbortClaim
  <2>3. ASSUME NEW r \in requests, AppendProgress(r) \/ Complete(r) PROVE answer'[a] # Silent
    BY <1>1, <1>3, <1>4, <2>3 DEF AppendProgress, Complete
  <2>4. \/ UNCHANGED answer \/ \E b \in Agents : Hear(b) /\ Hears(b)
        \/ \E p \in ControlPlanes : CommitClaim(p) \/ NoRow(p) \/ AbortClaim(p)
        \/ \E r \in requests : AppendProgress(r) \/ Complete(r)
    BY DEF Hears, Next, Serve, Environment, AgentStep, vars, network, ClaimRow, BeginClaim,
           SweepAbandoned, Enqueue, Cancel, Silence, PruneTerminal, Lose, TimeOut, Deafen,
           Crash, Restart, Poll, Report, Claimed, Reported, Watch, WatchMisled, Executed, SendComplete, Completed
  <2> QED  BY <1>4, <2>1, <2>2, <2>3, <2>4
<1>5. ASSUME NEW p \in ControlPlanes, tx[p].agent = a, tx[p].heard
      PROVE  (tx'[p].agent = a /\ tx'[p].heard) \/ answer'[a] # Silent \/ Hears(a)
  <2>1. ASSUME CommitClaim(p) \/ NoRow(p) \/ AbortClaim(p) PROVE answer'[a] # Silent
    BY <1>2, <1>3, <1>5, <2>1 DEF CommitClaim, NoRow, AbortClaim
  <2>2. ASSUME NEW q \in ControlPlanes, q # p, tx' = [tx EXCEPT ![q] = Idle] PROVE tx'[p] = tx[p]
    BY <1>0, <2>2
  <2>3. ASSUME NEW q \in ControlPlanes, ClaimRow(q) PROVE tx'[p].agent = tx[p].agent /\ tx'[p].heard = tx[p].heard
    BY <1>0, <2>3, Zenon DEF ClaimRow
  <2>4. ASSUME NEW q \in ControlPlanes, NEW r \in requests, BeginClaim(q, r) PROVE tx'[p] = tx[p]
    BY <1>0, <1>5, <2>4 DEF BeginClaim, Idle
  <2>5. ASSUME NEW b \in Agents, Deafen(b), b # a PROVE tx'[p].agent = a /\ tx'[p].heard
    <3>1. TypeOK  OBVIOUS
    <3>2. tx'[p].agent = tx[p].agent /\ (tx'[p].heard <=> tx[p].heard /\ tx[p].agent # b)
      BY <2>5, <3>1, Deafened, Zenon
    <3> QED  BY <1>5, <2>5, <3>2, Zenon
  <2> QED  BY <1>5, <2>1, <2>2, <2>3, <2>4, <2>5, TxMoves, Zenon
<1>6. ASSUME NEW r \in requests, r.agent = a, r.heard
      PROVE  r \in requests' \/ answer'[a] # Silent \/ Hears(a)
                 \/ \E p \in ControlPlanes : tx'[p].agent = a /\ tx'[p].heard
  <2>1. ASSUME AppendProgress(r) \/ Complete(r) PROVE answer'[a] # Silent
    BY <1>2, <1>3, <1>6, <2>1 DEF AppendProgress, Complete
  <2>2. ASSUME NEW p \in ControlPlanes, BeginClaim(p, r) PROVE tx'[p].agent = a /\ tx'[p].heard
    BY <1>0, <1>6, <2>2 DEF BeginClaim
  <2>3. ASSUME NEW b \in Agents, Deafen(b), b # a PROVE r \in requests'
    <3>1. TypeOK  OBVIOUS
    <3> QED  BY <1>6, <2>3, <3>1, Deafened, Zenon
  <2>4. ASSUME NEW q \in requests, q # r,
               AppendProgress(q) \/ Complete(q) \/ Lose(q) \/ \E p \in ControlPlanes : BeginClaim(p, q)
        PROVE  r \in requests'
    BY <2>4 DEF AppendProgress, Complete, Lose, BeginClaim
  <2>5. \/ requests \subseteq requests'
        \/ \E q \in requests : AppendProgress(q) \/ Complete(q) \/ Lose(q) \/ \E p \in ControlPlanes : BeginClaim(p, q)
        \/ \E b \in Agents : Deafen(b) /\ Hears(b)
    BY DEF Hears, Next, Serve, Environment, AgentStep, vars, network, ClaimRow, NoRow, CommitClaim,
           SweepAbandoned, Enqueue, Cancel, Silence, PruneTerminal, AbortClaim, TimeOut, Send,
           Crash, Restart, Poll, Report, Claimed, Reported, Watch, WatchMisled, Executed, SendComplete, Completed
  <2>6. ~Lose(r)  BY <1>6, Zenon DEF Lose
  <2> QED  BY <2>1, <2>2, <2>3, <2>4, <2>5, <2>6, Zenon
<1> QED  BY <1>4, <1>5, <1>6, Zenon DEF Waiting

\* An agent gives up only when its last attempt was answered.
LEMMA RetryInvKept == ASSUME LifeInv, [Next]_vars PROVE RetryInv'
<1> USE ConstantTypes DEF LifeInv
<1> SUFFICES ASSUME NEW a \in Agents, run'[a].pc = "report", run'[a].tries = MaxAttempts
             PROVE  Waiting(a)'
  BY DEF RetryInv
<1>0. run \in [Agents -> Runs] /\ run[a] \in Runs  BY DEF TypeOK
<1>1. CASE run'[a] = run[a]
  <2>1. Waiting(a)  BY <1>1, Zenon DEF RetryInv
  <2>2. ASSUME Hears(a) PROVE FALSE
    <3>1. ~Claimed(a) /\ ~Reported(a) /\ \A good \in BOOLEAN : ~Executed(a, good)
      BY <1>1 DEF Claimed, Reported, Executed
    <3>2. ASSUME Completed(a) \/ TimeOut(a) PROVE run'[a] = Free
      <4>1. Retried(a) = Free  BY <1>0, <1>1 DEF Retried
      <4> QED  BY <1>0, <1>1, <3>2, <4>1 DEF Completed, TimeOut, Become
    <3>3. ASSUME Crash(a) PROVE run'[a] = [Free EXCEPT !.pc = "down"]
      BY <1>0, <3>3 DEF Crash, Become
    <3> QED  BY <2>2, <3>1, <3>2, <3>3, FreeFields DEF Hears
  <2> QED  BY <2>1, <2>2, WaitingStays
<1>2. ASSUME NEW good \in BOOLEAN, run[a].pc = "exec", run'[a].tries = run[a].tries PROVE FALSE
  BY <1>2 DEF RunInv
<1>3. CASE SendComplete(a)
  <2> DEFINE n == [kind |-> "complete", agent |-> a, job |-> run[a].job, ok |-> run[a].ok, heard |-> TRUE]
  <2>1. n \in requests'  BY <1>3 DEF SendComplete, Send
  <2>2. n.agent = a /\ n.heard  BY Zenon
  <2> HIDE DEF n
  <2> QED  BY <2>1, <2>2, Zenon DEF Waiting
<1> QED  BY <1>1, <1>2, <1>3, RunMoves

-----------------------------------------------------------------------------
(* Type correctness, and the life of a job.                                  *)

\* Nothing is under way at first.
LEMMA InitLife == Init => LifeInv
<1> SUFFICES ASSUME Init PROVE LifeInv  OBVIOUS
<1>1. TypeOK  BY InitType
<1>2. \A p \in ControlPlanes : tx[p].job = NoJob  BY DEF Init, Idle
<1>3. \A a \in Agents : answer[a].what = "none"  BY DEF Init, Silent, Answer
<1>4. \A a \in Agents : run[a].pc = "idle"  BY DEF Init, Free
<1>5. OwnerInv  BY DEF Init, OwnerInv
<1>6. RequestInv /\ worked \subseteq begun /\ begun = {}  BY DEF Init, RequestInv
<1> QED  BY <1>1, <1>2, <1>3, <1>4, <1>5, <1>6 DEF LifeInv, ClaimInv, AnswerInv, RunInv, RetryInv

\* The parts together are inductive.
LEMMA LifeInductive == LifeInv /\ [Next]_vars => LifeInv'
<1> SUFFICES ASSUME LifeInv, [Next]_vars PROVE LifeInv'  OBVIOUS
<1>1. TypeOK'  BY NextType DEF LifeInv
<1> QED  BY <1>1, ClaimInvKept, OwnerInvKept, RequestInvKept, AnswerInvKept, RunInvKept, RetryInvKept DEF LifeInv

\* So they always hold.
LEMMA LifeAlways == Spec => []LifeInv
  BY InitLife, LifeInductive, PTL DEF Spec

\* The registry, the requests and the agents keep their types: no overdue job
\* that does not run, and never more reports of an end than
\* completeMaxAttempts (agent/controlplane.go postCompleteWithRetry).
THEOREM TypeCorrect == Spec => []TypeOK
<1>1. LifeInv => TypeOK  BY DEF LifeInv
<1> QED  BY <1>1, LifeAlways, PTL

\* A report of a success comes from an agent that did the job, so that every
\* step of the registry and the agents is one of the job's life, or none.
LEMMA LifeStep == ASSUME LifeInv, [Next]_vars PROVE [Life!Next]_(Life!vars)
<1> USE ConstantTypes DEF LifeInv
<1>0. state \in [Jobs -> States] /\ owner \in [Jobs -> Agents \cup {Nobody}]  BY DEF TypeOK
<1>1. ASSUME NEW j \in Jobs, Enqueue(j) PROVE Life!Ask(j)
  BY <1>1 DEF Enqueue, history, Life!Ask
<1>2. ASSUME NEW p \in ControlPlanes, CommitClaim(p) PROVE Life!Next
  <2>1. tx[p].job \in Jobs /\ tx[p].agent \in Agents /\ state[tx[p].job] = "queued"
    BY <1>2 DEF CommitClaim, TypeOK, ClaimInv
  <2>2. owner[tx[p].job] = Nobody  BY <2>1 DEF OwnerInv
  <2>3. Life!Give(tx[p].job, tx[p].agent)
    BY <1>2, <2>1, <2>2 DEF CommitClaim, history, Life!Give
  <2> QED  BY <2>1, <2>3 DEF Life!Next
<1>3. ASSUME NEW a \in Agents, Claimed(a) PROVE Life!Next \/ UNCHANGED Life!vars
  <2>1. CASE answer[a].what = "job"
    <3>1. answer[a].job \in Jobs /\ owner[answer[a].job] = a /\ answer[a].job \notin begun
      BY <2>1 DEF AnswerInv
    <3>2. Life!Begin(answer[a].job)  BY <1>3, <2>1, <3>1 DEF Claimed, table, Life!Begin
    <3> QED  BY <3>1, <3>2 DEF Life!Next
  <2>2. CASE answer[a].what # "job"
    BY <1>3, <2>2 DEF Claimed, table, Life!vars
  <2> QED  BY <2>1, <2>2
<1>4. ASSUME NEW a \in Agents, NEW good \in BOOLEAN, Executed(a, good) PROVE Life!Next \/ UNCHANGED Life!vars
  <2>1. run[a].job \in Jobs /\ run[a].job \in begun  BY <1>4 DEF Executed, RunInv
  <2>2. CASE worked' = worked  BY <1>4, <2>2 DEF Executed, table, Life!vars
  <2>3. CASE worked' # worked
    <3>1. Life!Work(run[a].job)  BY <1>4, <2>1, <2>3 DEF Executed, table, Life!Work
    <3> QED  BY <2>1, <3>1 DEF Life!Next
  <2> QED  BY <2>2, <2>3
<1>5. ASSUME NEW r \in requests, Complete(r) PROVE Life!Next \/ UNCHANGED Life!vars
  <2>1. CASE state[r.job] \in Terminal \cup {"gone"}
    BY <1>5, <2>1 DEF Complete, history, Life!vars
  <2>2. CASE state[r.job] \notin Terminal \cup {"gone"}
    <3>1. r.kind = "complete"  BY <1>5 DEF Complete
    <3>2. r.job \in Jobs /\ owner[r.job] = r.agent /\ r.agent \in Agents
      BY <3>1 DEF RequestInv, TypeOK, Requests
    <3>3. r.ok => r.job \in worked  BY <3>1, Zenon DEF RequestInv
    <3>4. Recorded(r) \in {"completed", "failed"} /\ (Recorded(r) = "completed" => r.job \in worked)
      BY <3>3 DEF Recorded
    <3>5. state[r.job] = "running"
      BY <1>0, <2>2, <3>2 DEF OwnerInv, States, Terminal
    <3>6. /\ state' = [state EXCEPT ![r.job] = Recorded(r)]
          /\ UNCHANGED <<owner, begun, worked>>
      BY <1>5, <2>2 DEF Complete, history
    <3>7. Life!End({r.job})
      BY <1>0, <3>2, <3>4, <3>5, <3>6 DEF Life!End, Life!Ends, States, Terminal
    <3> QED  BY <3>2, <3>7 DEF Life!Next
  <2> QED  BY <2>1, <2>2
<1>6. ASSUME NEW j \in Jobs, Cancel(j) PROVE Life!Next
  <2>1. Life!End({j})  BY <1>0, <1>6 DEF Cancel, history, Life!End, Life!Ends, States, Terminal
  <2> QED  BY <2>1 DEF Life!Next
<1>7. ASSUME SweepAbandoned PROVE Life!Next
  <2>1. overdue \subseteq Running  BY DEF TypeOK
  <2>2. Life!End(overdue)
    BY <1>0, <1>7, <2>1 DEF SweepAbandoned, Abandoned, Running, history, Life!End, Life!Ends, States, Terminal
  <2>3. overdue \in SUBSET Jobs  BY <2>1 DEF Running
  <2> QED  BY <2>2, <2>3 DEF Life!Next
<1>8. ASSUME NEW j \in Jobs, PruneTerminal(j) PROVE Life!Drop(j)
  BY <1>8 DEF PruneTerminal, history, Terminal, Life!Drop, Life!Ends
<1>9. \/ \E j \in Jobs : Enqueue(j) \/ Cancel(j) \/ PruneTerminal(j)
      \/ \E p \in ControlPlanes : CommitClaim(p)
      \/ \E a \in Agents : Claimed(a) \/ \E good \in BOOLEAN : Executed(a, good)
      \/ \E r \in requests : Complete(r)
      \/ SweepAbandoned
      \/ UNCHANGED <<state, owner, begun, worked>>
  BY DEF Next, Serve, Environment, AgentStep, vars, table, history, ClaimRow, NoRow, BeginClaim, AppendProgress,
         Silence, AbortClaim, Lose, Report, TimeOut, Crash, Restart, Poll, Reported, Watch, WatchMisled, SendComplete, Completed
<1> QED  BY <1>1, <1>2, <1>3, <1>4, <1>5, <1>6, <1>7, <1>8, <1>9 DEF Life!Next, Life!vars

\* Whatever is lost, late, cancelled or given up, and however many control
\* planes serve the table: a job is given to one agent, begun once, on record
\* as completed only when it was done, and keeps its end (jobs_pg.go).
THEOREM ImplementsJobLife == Spec => IsJobLife
<1>1. Init => Life!Init  BY DEF Init, Life!Init
<1>2. LifeInv /\ [Next]_vars => [Life!Next]_(Life!vars)  BY LifeStep
<1> QED  BY <1>1, <1>2, LifeAlways, PTL DEF Spec, IsJobLife, Life!Spec

-----------------------------------------------------------------------------
(* What agents wait for.                                                     *)

\* HeardOf(a) follows when agent a waits for less than before, ...
LEMMA HeardLess ==
    ASSUME NEW a \in Agents, HeardOf(a),
           HeardRequests(a)' \subseteq HeardRequests(a), HeardClaims(a)' \subseteq HeardClaims(a),
           answer'[a] = answer[a], run'[a].pc = run[a].pc, run'[a].job = run[a].job, run'[a].ok = run[a].ok
    PROVE  HeardOf(a)'
<1>1. ASSUME NEW r \in HeardRequests(a)' PROVE InPhase(a, r)'
  <2>1. r \in HeardRequests(a)  OBVIOUS
  <2>2. InPhase(a, r)  BY <2>1, Zenon DEF HeardOf
  <2> QED  BY <2>2, Zenon DEF InPhase
<1> HIDE DEF HeardRequests, HeardClaims
<1> QED  BY <1>1, Zenon DEF HeardOf

\* ... for nothing but an answer that it has, ...
LEMMA HeardAnswer ==
    ASSUME NEW a \in Agents, HeardRequests(a)' = {}, HeardClaims(a)' = {},
           answer'[a] # Silent => run'[a].pc \in {"claim", "exec", "report"}
    PROVE  HeardOf(a)'
  BY Zenon DEF HeardOf

\* ... for one claim under way, ...
LEMMA HeardClaim ==
    ASSUME NEW a \in Agents, NEW p, HeardRequests(a)' = {}, HeardClaims(a)' = {p},
           answer'[a] = Silent, run'[a].pc = "claim"
    PROVE  HeardOf(a)'
  BY Zenon DEF HeardOf

\* ... or for one request.
LEMMA HeardRequest ==
    ASSUME NEW a \in Agents, NEW r, HeardRequests(a)' = {r}, HeardClaims(a)' = {},
           answer'[a] = Silent, InPhase(a, r)'
    PROVE  HeardOf(a)'
  BY Zenon DEF HeardOf

\* An agent that waits for nothing has no heard requests or claims.
LEMMA NotWaiting ==
    ASSUME NEW a \in Agents
    PROVE  ~Waiting(a) => HeardRequests(a) = {} /\ HeardClaims(a) = {} /\ answer[a] = Silent
  BY Zenon DEF Waiting, HeardRequests, HeardClaims

\* An agent that sends, sends one request, and has waited for nothing.
LEMMA HeardSend ==
    ASSUME TypeOK, HeardInv, NEW a \in Agents, NEW kind \in Kinds, NEW j, NEW good, Send(kind, a, j, good),
           HeardRequests(a) = {}, HeardClaims(a) = {}, answer[a] = Silent,
           UNCHANGED <<tx, answer>>,
           kind = "claim" => run'[a].pc = "claim",
           kind = "progress" => run'[a].pc = "exec",
           kind = "complete" => run'[a].pc = "report" /\ j = run'[a].job /\ good = run'[a].ok
    PROVE  HeardOf(a)'
<1> DEFINE n == [kind |-> kind, agent |-> a, job |-> j, ok |-> good, heard |-> TRUE]
<1>1. requests' = requests \cup {n}  BY DEF Send
<1>2. n.kind = kind /\ n.agent = a /\ n.job = j /\ n.ok = good /\ n.heard  BY Zenon
<1> HIDE DEF n
<1>3. HeardRequests(a)' = {n}  BY <1>1, <1>2, Zenon DEF HeardRequests
<1>4. HeardClaims(a)' = {}  BY Zenon DEF HeardClaims
<1>5. InPhase(a, n)'  BY <1>2, Zenon DEF InPhase
<1> QED  BY <1>3, <1>4, <1>5, HeardRequest, Zenon

\* Another agent's request is no business of agent a.
LEMMA OthersSend ==
    ASSUME NEW a \in Agents, NEW b \in Agents, a # b, NEW kind, NEW j, NEW good, Send(kind, b, j, good)
    PROVE  HeardRequests(a)' \subseteq HeardRequests(a)
<1> DEFINE n == [kind |-> kind, agent |-> b, job |-> j, ok |-> good, heard |-> TRUE]
<1>1. requests' = requests \cup {n}  BY DEF Send
<1>2. n.agent = b  BY Zenon
<1> HIDE DEF n
<1> QED  BY <1>1, <1>2, Zenon DEF HeardRequests

\* Who stops listening waits for nothing; the others wait on.
LEMMA HeardDeafen ==
    ASSUME TypeOK, NEW a \in Agents, NEW b \in Agents, Deafen(b)
    PROVE  /\ a = b => HeardRequests(a)' = {} /\ HeardClaims(a)' = {} /\ answer'[a] = Silent
           /\ a # b => /\ HeardRequests(a)' \subseteq HeardRequests(a) /\ HeardClaims(a)' \subseteq HeardClaims(a)
                       /\ answer'[a] = answer[a]
<1>1. \A n \in requests' : n.heard => n \in requests /\ n.agent # b
  <2>1. \A n \in requests' : \E r \in requests :
          /\ n.kind = r.kind /\ n.agent = r.agent /\ n.job = r.job /\ n.ok = r.ok
          /\ n.heard => n \in requests /\ n.agent # b
    BY Deafened
  <2> QED  BY <2>1, Zenon
<1>2. \A p \in ControlPlanes :
        /\ tx'[p].agent = tx[p].agent /\ tx'[p].job = tx[p].job
        /\ tx'[p].heard <=> tx[p].heard /\ tx[p].agent # b
  BY Deafened
<1>3. answer'[a] = IF a = b THEN Silent ELSE answer[a]
  BY Deafened DEF TypeOK
<1>4. a = b => HeardRequests(a)' = {} /\ HeardClaims(a)' = {}
  BY <1>1, <1>2, Zenon DEF HeardRequests, HeardClaims
<1>5. a # b => HeardRequests(a)' \subseteq HeardRequests(a) /\ HeardClaims(a)' \subseteq HeardClaims(a)
  BY <1>1, <1>2, Zenon DEF HeardRequests, HeardClaims
<1> QED  BY <1>3, <1>4, <1>5

\* Whom an answer reaches, it reaches while that agent waits for it.
LEMMA HeardInvKept == ASSUME LifeInv, HeardInv, [Next]_vars PROVE HeardInv'
<1> SUFFICES ASSUME NEW a \in Agents PROVE HeardOf(a)'  BY DEF HeardInv
<1> USE ConstantTypes
<1>0. HeardOf(a) /\ TypeOK  BY DEF HeardInv, LifeInv
<1>T. /\ answer \in [Agents -> Answers] /\ run \in [Agents -> Runs] /\ run[a] \in Runs
       /\ requests \subseteq Requests
       /\ tx \in [ControlPlanes -> [agent : Agents \cup {Nobody}, job : Jobs \cup {NoJob}, heard : BOOLEAN]]
  BY <1>0 DEF TypeOK
<1>1. ASSUME NEW b \in Agents, NEW what, Become(b, what)
      PROVE  run'[a] = IF a = b THEN what ELSE run[a]
  BY <1>T, <1>1 DEF Become
<1>2. ASSUME NEW b \in Agents, Hear(b) PROVE answer'[a] = IF a = b THEN Silent ELSE answer[a]
  BY <1>T, <1>2 DEF Hear
<1>3. ASSUME UNCHANGED <<tx, answer, run>>, requests' \subseteq requests PROVE HeardOf(a)'
  <2>1. HeardRequests(a)' \subseteq HeardRequests(a)  BY <1>3, Zenon DEF HeardRequests
  <2>2. HeardClaims(a)' \subseteq HeardClaims(a)  BY <1>3, Zenon DEF HeardClaims
  <2> QED  BY <1>0, <1>3, <2>1, <2>2, HeardLess, Zenon
<1>4. ASSUME NEW p \in ControlPlanes, ClaimRow(p) PROVE HeardOf(a)'
  <2>1. \A q \in ControlPlanes : tx'[q].agent = tx[q].agent /\ tx'[q].heard = tx[q].heard
    BY <1>T, <1>4, Zenon DEF ClaimRow
  <2>2. HeardClaims(a)' \subseteq HeardClaims(a)  BY <2>1, Zenon DEF HeardClaims
  <2>3. HeardRequests(a)' \subseteq HeardRequests(a)  BY <1>4, Zenon DEF HeardRequests, ClaimRow
  <2>4. answer'[a] = answer[a] /\ run'[a] = run[a]  BY <1>4 DEF ClaimRow
  <2> QED  BY <1>0, <2>2, <2>3, <2>4, HeardLess, Zenon
<1>5. ASSUME NEW p \in ControlPlanes, NEW r \in requests, BeginClaim(p, r) PROVE HeardOf(a)'
  <2>1. /\ r.kind = "claim" /\ requests' = requests \ {r}
        /\ answer'[a] = answer[a] /\ run'[a] = run[a]
    BY <1>5 DEF BeginClaim
  <2>2. tx'[p].agent = r.agent /\ tx'[p].heard = r.heard /\ \A q \in ControlPlanes : q # p => tx'[q] = tx[q]
    BY <1>T, <1>5, Zenon DEF BeginClaim
  <2>3. HeardRequests(a)' = HeardRequests(a) \ {r}  BY <2>1, Zenon DEF HeardRequests
  <2>4. CASE r \in HeardRequests(a)
    <3>1. /\ HeardClaims(a) = {} /\ answer[a] = Silent /\ HeardRequests(a) = {r}
          /\ InPhase(a, r)
      BY <1>0, <2>4, Zenon DEF HeardOf
    <3>2. HeardRequests(a)' = {}  BY <2>3, <3>1, Zenon
    <3>3. HeardClaims(a)' = {p}  BY <2>2, <2>4, <3>1, Zenon DEF HeardClaims, HeardRequests
    <3>4. run'[a].pc = "claim"  BY <2>1, <3>1, Zenon DEF InPhase
    <3> QED  BY <2>1, <3>1, <3>2, <3>3, <3>4, HeardClaim, Zenon
  <2>5. CASE r \notin HeardRequests(a)
    <3>1. HeardClaims(a)' \subseteq HeardClaims(a)  BY <2>2, <2>5, Zenon DEF HeardClaims, HeardRequests
    <3> QED  BY <1>0, <2>1, <2>3, <3>1, HeardLess, Zenon
  <2> QED  BY <2>4, <2>5
<1>6. ASSUME NEW p \in ControlPlanes, NEW what, tx' = [tx EXCEPT ![p] = Idle], Tell(tx[p].agent, tx[p].heard, what),
             UNCHANGED <<requests, run>>
      PROVE  HeardOf(a)'
  <2>1. ~tx'[p].heard /\ \A q \in ControlPlanes : q # p => tx'[q] = tx[q]
    BY <1>T, <1>6, Zenon DEF Idle
  <2>2. HeardClaims(a)' = HeardClaims(a) \ {p}  BY <2>1, Zenon DEF HeardClaims
  <2>3. HeardRequests(a)' = HeardRequests(a)  BY <1>6, Zenon DEF HeardRequests
  <2>4. CASE p \in HeardClaims(a)
    <3>1. HeardClaims(a) = {p} /\ HeardRequests(a) = {} /\ run[a].pc = "claim"
      BY <1>0, <2>4, Zenon DEF HeardOf
    <3>2. HeardClaims(a)' = {}  BY <2>2, <3>1, Zenon
    <3> QED  BY <1>6, <2>3, <3>1, <3>2, HeardAnswer
  <2>5. CASE p \notin HeardClaims(a)
    <3>1. tx[p].agent # a \/ ~tx[p].heard  BY <2>5, Zenon DEF HeardClaims
    <3>2. answer'[a] = answer[a]  BY <1>T, <1>6, <3>1 DEF Tell
    <3> QED  BY <1>0, <1>6, <2>2, <2>3, <3>2, HeardLess, Zenon
  <2> QED  BY <2>4, <2>5
<1>7. ASSUME NEW p \in ControlPlanes, NoRow(p) \/ CommitClaim(p) \/ AbortClaim(p) PROVE HeardOf(a)'
  BY <1>6, <1>7 DEF NoRow, CommitClaim, AbortClaim
<1>8. ASSUME NEW r \in requests, r.kind # "claim", NEW what, requests' = requests \ {r}, Tell(r.agent, r.heard, what),
             UNCHANGED <<tx, run>>
      PROVE  HeardOf(a)'
  <2>1. HeardClaims(a)' = HeardClaims(a)  BY <1>8, Zenon DEF HeardClaims
  <2>2. HeardRequests(a)' = HeardRequests(a) \ {r}  BY <1>8, Zenon DEF HeardRequests
  <2>3. CASE r \in HeardRequests(a)
    <3>1. HeardRequests(a) = {r} /\ HeardClaims(a) = {} /\ InPhase(a, r)
      BY <1>0, <2>3, Zenon DEF HeardOf
    <3>2. r.kind \in Kinds  BY <1>T DEF Requests
    <3>3. run[a].pc \in {"claim", "exec", "report"}  BY <1>8, <3>1, <3>2 DEF InPhase, Kinds
    <3>4. HeardRequests(a)' = {}  BY <2>2, <3>1, Zenon
    <3> QED  BY <1>8, <2>1, <3>1, <3>3, <3>4, HeardAnswer
  <2>4. CASE r \notin HeardRequests(a)
    <3>1. r.agent # a \/ ~r.heard  BY <2>4, Zenon DEF HeardRequests
    <3>2. answer'[a] = answer[a]  BY <1>T, <1>8, <3>1 DEF Tell
    <3> QED  BY <1>0, <1>8, <2>1, <2>2, <3>2, HeardLess, Zenon
  <2> QED  BY <2>3, <2>4
<1>9. ASSUME NEW r \in requests, AppendProgress(r) \/ Complete(r) PROVE HeardOf(a)'
  BY <1>8, <1>9 DEF AppendProgress, Complete
<1>10. ASSUME NEW b \in Agents, b # a, UNCHANGED <<tx, answer>>, run'[a] = run[a],
              NEW kind, NEW j, NEW good, Send(kind, b, j, good)
       PROVE  HeardOf(a)'
  <2>1. HeardRequests(a)' \subseteq HeardRequests(a)  BY <1>10, OthersSend, Zenon
  <2>2. HeardClaims(a)' \subseteq HeardClaims(a)  BY <1>10, Zenon DEF HeardClaims
  <2> QED  BY <1>0, <1>10, <2>1, <2>2, HeardLess, Zenon
<1>11. ASSUME NEW b \in Agents, b # a, Poll(b) \/ Report(b) \/ SendComplete(b) PROVE HeardOf(a)'
  <2>1. run'[a] = run[a]  BY <1>1, <1>11 DEF Poll, Report, SendComplete
  <2>2. UNCHANGED <<tx, answer>>  BY <1>11 DEF Poll, Report, SendComplete
  <2>3. \E kind, j, good : Send(kind, b, j, good)  BY <1>11, Zenon DEF Poll, Report, SendComplete
  <2> QED  BY <1>10, <1>11, <2>1, <2>2, <2>3, Zenon
<1>12. ASSUME NEW b \in Agents, b # a, Hear(b), UNCHANGED <<tx, requests>>, NEW what, Become(b, what)
       PROVE  HeardOf(a)'
  <2>1. HeardRequests(a)' \subseteq HeardRequests(a)  BY <1>12, Zenon DEF HeardRequests
  <2>2. HeardClaims(a)' \subseteq HeardClaims(a)  BY <1>12, Zenon DEF HeardClaims
  <2>3. answer'[a] = answer[a] /\ run'[a] = run[a]  BY <1>1, <1>2, <1>12
  <2> QED  BY <1>0, <2>1, <2>2, <2>3, HeardLess, Zenon
<1>13. ASSUME NEW b \in Agents, b # a, Claimed(b) \/ Reported(b) \/ Completed(b) PROVE HeardOf(a)'
  <2>1. Hear(b) /\ UNCHANGED <<tx, requests>>  BY <1>13 DEF Claimed, Reported, Completed
  <2>2. \E what : Become(b, what)  BY <1>13, Zenon DEF Claimed, Reported, Completed
  <2> QED  BY <1>12, <1>13, <2>1, <2>2, Zenon
<1>14. ASSUME NEW b \in Agents, Deafen(b), NEW what, Become(b, what) PROVE HeardOf(a)'
  <2>1. CASE a = b  BY <1>0, <1>14, <2>1, HeardDeafen, HeardAnswer
  <2>2. CASE a # b
    <3>1. /\ HeardRequests(a)' \subseteq HeardRequests(a) /\ HeardClaims(a)' \subseteq HeardClaims(a)
          /\ answer'[a] = answer[a]
      BY <1>0, <1>14, <2>2, HeardDeafen
    <3>2. run'[a] = run[a]  BY <1>1, <1>14, <2>2
    <3> QED  BY <1>0, <3>1, <3>2, HeardLess, Zenon
  <2> QED  BY <2>1, <2>2
<1>15. ASSUME NEW b \in Agents, TimeOut(b) \/ Crash(b) \/ \E good \in BOOLEAN : Executed(b, good) PROVE HeardOf(a)'
  <2>1. Deafen(b)  BY <1>15 DEF TimeOut, Crash, Executed
  <2>2. \E what : Become(b, what)  BY <1>15, Zenon DEF TimeOut, Crash, Executed
  <2> QED  BY <1>14, <2>1, <2>2, Zenon
<1>16. ASSUME NEW b \in Agents, Watch(b) \/ WatchMisled(b) \/ Restart(b) PROVE HeardOf(a)'
  <2>1. UNCHANGED <<tx, requests, answer>>  BY <1>16 DEF Watch, WatchMisled, Restart, network
  <2>2. HeardRequests(a)' = HeardRequests(a)  BY <2>1, Zenon DEF HeardRequests
  <2>3. HeardClaims(a)' = HeardClaims(a)  BY <2>1, Zenon DEF HeardClaims
  <2>4. CASE a # b
    <3>1. run'[a] = run[a]  BY <1>1, <1>16, <2>4 DEF Watch, WatchMisled, Restart
    <3> QED  BY <1>0, <2>1, <2>2, <2>3, <3>1, HeardLess, Zenon
  <2>5. CASE Watch(a) \/ WatchMisled(a)
    <3>1. run'[a] = [run[a] EXCEPT !.revoked = TRUE]  BY <1>1, <2>5 DEF Watch, WatchMisled
    <3>2. run'[a].pc = run[a].pc /\ run'[a].job = run[a].job /\ run'[a].ok = run[a].ok
      BY <1>T, <3>1, Zenon DEF Runs
    <3> QED  BY <1>0, <2>1, <2>2, <2>3, <3>2, HeardLess, Zenon
  <2>6. CASE Restart(a)
    <3>1. run[a].pc = "down"  BY <2>6 DEF Restart
    <3>2. ASSUME NEW r \in HeardRequests(a) PROVE FALSE
      <4>1. InPhase(a, r)  BY <1>0, <3>2, Zenon DEF HeardOf
      <4>2. r.kind \in Kinds  BY <1>T, <3>2 DEF HeardRequests, Requests
      <4> QED  BY <3>1, <4>1, <4>2 DEF InPhase, Kinds
    <3>3. HeardClaims(a) = {} /\ answer[a] = Silent  BY <1>0, <3>1 DEF HeardOf
    <3> QED  BY <2>1, <2>2, <2>3, <3>2, <3>3, HeardAnswer
  <2> QED  BY <1>16, <2>4, <2>5, <2>6
<1>17. CASE Poll(a)
  <2>1. run[a].pc = "idle"  BY <1>17 DEF Poll
  <2>2. ASSUME NEW r \in HeardRequests(a) PROVE FALSE
    <3>1. InPhase(a, r)  BY <1>0, <2>2, Zenon DEF HeardOf
    <3>2. r.kind \in Kinds  BY <1>T, <2>2 DEF HeardRequests, Requests
    <3> QED  BY <2>1, <3>1, <3>2 DEF InPhase, Kinds
  <2>3. HeardClaims(a) = {} /\ answer[a] = Silent  BY <1>0, <2>1 DEF HeardOf
  <2>4. Send("claim", a, NoJob, FALSE) /\ UNCHANGED <<tx, answer>>  BY <1>17 DEF Poll
  <2>5. run'[a] = [Free EXCEPT !.pc = "claim"]  BY <1>1, <1>17 DEF Poll
  <2>6. run'[a].pc = "claim"  BY <2>5, FreeFields
  <2> QED  BY <1>0, <2>2, <2>3, <2>4, <2>6, HeardSend DEF Kinds
<1>18. CASE Report(a)
  <2>1. HeardRequests(a) = {} /\ HeardClaims(a) = {} /\ answer[a] = Silent
    BY <1>18, NotWaiting, Zenon DEF Report
  <2>2. Send("progress", a, run[a].job, FALSE) /\ UNCHANGED <<tx, answer>> /\ run'[a].pc = "exec"
    BY <1>18 DEF Report
  <2> QED  BY <1>0, <2>1, <2>2, HeardSend DEF Kinds
<1>19. CASE SendComplete(a)
  <2>1. HeardRequests(a) = {} /\ HeardClaims(a) = {} /\ answer[a] = Silent
    BY <1>19, NotWaiting, Zenon DEF SendComplete
  <2>2. Send("complete", a, run[a].job, run[a].ok) /\ UNCHANGED <<tx, answer>> /\ run[a].pc = "report"
    BY <1>19 DEF SendComplete
  <2>3. PICK n : run'[a] = [run[a] EXCEPT !.tries = n]  BY <1>1, <1>19, Zenon DEF SendComplete
  <2>4. run'[a].pc = run[a].pc /\ run'[a].job = run[a].job /\ run'[a].ok = run[a].ok
    BY <1>T, <2>3, Zenon DEF Runs
  <2> QED  BY <1>0, <2>1, <2>2, <2>4, HeardSend DEF Kinds
<1>20. CASE Claimed(a) \/ Reported(a) \/ Completed(a)
  <2>1. answer[a] # Silent /\ Hear(a) /\ UNCHANGED <<tx, requests>>
    BY <1>20 DEF Claimed, Reported, Completed
  <2>2. HeardRequests(a) = {} /\ HeardClaims(a) = {}  BY <1>0, <2>1, Zenon DEF HeardOf
  <2>3. HeardRequests(a)' = {} /\ HeardClaims(a)' = {}  BY <2>1, <2>2, Zenon DEF HeardRequests, HeardClaims
  <2>4. answer'[a] = Silent  BY <1>2, <2>1
  <2> QED  BY <2>3, <2>4, HeardAnswer
<1>21. \/ UNCHANGED <<tx, answer, run>> /\ requests' \subseteq requests
       \/ \E p \in ControlPlanes : ClaimRow(p) \/ NoRow(p) \/ CommitClaim(p) \/ AbortClaim(p)
       \/ \E p \in ControlPlanes, r \in requests : BeginClaim(p, r)
       \/ \E r \in requests : AppendProgress(r) \/ Complete(r)
       \/ \E b \in Agents : Report(b) \/ WatchMisled(b) \/ TimeOut(b) \/ Crash(b) \/ Restart(b) \/ AgentStep(b)
  BY DEF Next, Serve, Environment, vars, network, SweepAbandoned, Enqueue, Cancel, Silence, PruneTerminal, Lose
<1> QED  BY <1>3, <1>4, <1>5, <1>7, <1>9, <1>11, <1>13, <1>15, <1>16, <1>17, <1>18, <1>19, <1>20, <1>21
         DEF AgentStep

-----------------------------------------------------------------------------
(* Acknowledged successes.                                                   *)

\* A job that is completed stays so, until its record is dropped.
LEMMA CompletedStays ==
    ASSUME LifeInv, [Next]_vars, NEW j \in Jobs, state[j] \in {"completed", "gone"}
    PROVE  state'[j] \in {"completed", "gone"}
<1>0. state \in [Jobs -> States]  BY DEF LifeInv, TypeOK
<1>1. [Life!Next]_(Life!vars)  BY LifeStep
<1> QED  BY <1>0, <1>1 DEF Life!Next, Life!vars, Life!Ask, Life!Give, Life!Begin, Life!Work, Life!End, Life!Drop

\* An answer "ok" to a report of success is given when the job is completed.
LEMMA OkMeansCompleted ==
    ASSUME LifeInv, HeardInv, [Next]_vars, NEW a \in Agents,
           run[a].pc = "report", run[a].ok, answer'[a] # answer[a], answer'[a].what = "ok"
    PROVE  state'[run[a].job] = "completed"
<1> USE ConstantTypes
<1>0. /\ answer \in [Agents -> Answers] /\ requests \subseteq Requests /\ state \in [Jobs -> States]
      /\ HeardOf(a)
  BY DEF LifeInv, TypeOK, HeardInv
<1>1. Silent.what = "none" /\ Answer("error").what = "error" /\ \A j : [what |-> "job", job |-> j].what = "job"
  BY DEF Silent, Answer
<1>2. ASSUME NEW b \in Agents, Hear(b) PROVE FALSE
  BY <1>0, <1>1, <1>2 DEF Hear
<1>3. ASSUME NEW p \in ControlPlanes, CommitClaim(p) \/ NoRow(p) \/ AbortClaim(p) PROVE FALSE
  BY <1>0, <1>1, <1>3 DEF CommitClaim, NoRow, AbortClaim, Tell
<1>4. ASSUME NEW r \in requests, NEW what, Tell(r.agent, r.heard, what)
      PROVE  r \in HeardRequests(a) /\ InPhase(a, r) /\ answer'[a] = what
  <2>1. r.heard /\ r.agent = a /\ answer'[a] = what  BY <1>0, <1>4 DEF Tell
  <2>2. r \in HeardRequests(a)  BY <2>1, Zenon DEF HeardRequests
  <2> QED  BY <1>0, <2>1, <2>2, Zenon DEF HeardOf
<1>5. ASSUME NEW r \in requests, AppendProgress(r) PROVE FALSE
  <2>1. InPhase(a, r) /\ r.kind = "progress"  BY <1>4, <1>5 DEF AppendProgress
  <2> QED  BY <2>1 DEF InPhase
<1>6. ASSUME NEW r \in requests, Complete(r) PROVE state'[run[a].job] = "completed"
  <2>1. r.kind = "complete" /\ Tell(r.agent, r.heard, Answer(Verdict(r)))  BY <1>6 DEF Complete
  <2>2. InPhase(a, r) /\ answer'[a] = Answer(Verdict(r))  BY <1>4, <2>1
  <2>3. r.job = run[a].job /\ r.ok  BY <2>1, <2>2, Zenon DEF InPhase
  <2>4. Verdict(r) = "ok"  BY <2>2 DEF Answer
  <2>5. state[r.job] # "gone" /\ state[r.job] \notin {"failed", "cancelled"}  BY <2>3, <2>4 DEF Verdict
  <2>6. r.job \in Jobs  BY <2>1 DEF LifeInv, RequestInv
  <2>7. Recorded(r) = "completed"  BY <2>3 DEF Recorded
  <2> QED  BY <1>0, <1>6, <2>3, <2>5, <2>6, <2>7 DEF Complete, Terminal
<1>7. \/ UNCHANGED answer \/ \E b \in Agents : Hear(b)
      \/ \E p \in ControlPlanes : CommitClaim(p) \/ NoRow(p) \/ AbortClaim(p)
      \/ \E r \in requests : AppendProgress(r) \/ Complete(r)
  BY DEF Next, Serve, Environment, AgentStep, vars, network, ClaimRow, BeginClaim,
         SweepAbandoned, Enqueue, Cancel, Silence, PruneTerminal, Lose, TimeOut, Deafen,
         Crash, Restart, Poll, Report, Claimed, Reported, Watch, WatchMisled, Executed, SendComplete, Completed
<1> QED  BY <1>2, <1>3, <1>5, <1>6, <1>7

\* A report that was acknowledged is on record.
LEMMA AckInvKept == ASSUME ReportInv, [Next]_vars PROVE AckInv'
<1> USE ConstantTypes
<1>0. LifeInv /\ HeardInv /\ AckInv  BY DEF ReportInv
<1>T. acked \subseteq Jobs /\ run \in [Agents -> Runs] /\ answer \in [Agents -> Answers]
  BY <1>0 DEF LifeInv, TypeOK
<1>1. AckedIsCompleted'
  <2> SUFFICES ASSUME NEW j \in acked' PROVE state'[j] \in {"completed", "gone"}  BY DEF AckedIsCompleted
  <2>1. CASE j \in acked
    <3>1. state[j] \in {"completed", "gone"}  BY <1>0, <2>1 DEF AckInv, AckedIsCompleted
    <3> QED  BY <1>0, <1>T, <2>1, <3>1, CompletedStays
  <2>2. ASSUME NEW a \in Agents, Completed(a), j \notin acked PROVE state'[j] \in {"completed", "gone"}
    <3>1. run[a].pc = "report" /\ run[a].ok /\ answer[a].what = "ok" /\ j = run[a].job
      BY <2>2, Zenon DEF Completed
    <3>2. run[a].job \in Jobs  BY <1>0, <3>1 DEF LifeInv, RunInv
    <3>3. state[run[a].job] \in {"completed", "gone"}  BY <1>0, <3>1, Zenon DEF AckInv
    <3> QED  BY <1>0, <3>1, <3>2, <3>3, CompletedStays
  <2>3. (\E a \in Agents : Completed(a)) \/ UNCHANGED acked
    BY DEF Next, Serve, Environment, AgentStep, vars, history, ClaimRow, NoRow, CommitClaim, BeginClaim, AppendProgress,
           Complete, SweepAbandoned, Enqueue, Cancel, Silence, PruneTerminal, AbortClaim, Lose, Report, TimeOut,
           Crash, Restart, Poll, Claimed, Reported, Watch, WatchMisled, Executed, SendComplete
  <2> QED  BY <2>1, <2>2, <2>3
<1>2. ASSUME NEW a \in Agents, run'[a].pc = "report", run'[a].ok, answer'[a].what = "ok"
      PROVE  state'[run'[a].job] \in {"completed", "gone"}
  <2>1. ASSUME run[a].pc = "report", run[a].ok, run'[a].job = run[a].job
        PROVE  state'[run'[a].job] \in {"completed", "gone"}
    <3>1. CASE answer'[a] = answer[a]
      <4>1. run[a].job \in Jobs  BY <1>0, <2>1 DEF LifeInv, RunInv
      <4>2. state[run[a].job] \in {"completed", "gone"}  BY <1>0, <1>2, <2>1, <3>1, Zenon DEF AckInv
      <4> QED  BY <1>0, <2>1, <4>1, <4>2, CompletedStays
    <3>2. CASE answer'[a] # answer[a]
      BY <1>0, <1>2, <2>1, <3>2, OkMeansCompleted
    <3> QED  BY <3>1, <3>2
  <2>2. ASSUME NEW good \in BOOLEAN, Executed(a, good) PROVE FALSE
    <3>1. answer'[a] = Silent  BY <1>T, <2>2 DEF Executed, Deafen, Hear
    <3> QED  BY <1>2, <3>1 DEF Silent, Answer
  <2> QED  BY <1>0, <1>2, <2>1, <2>2, RunMoves, Zenon
<1> QED  BY <1>1, <1>2, Zenon DEF AckInv

\* What is known of reports always holds.
LEMMA ReportAlways == Spec => []ReportInv
<1>1. Init => ReportInv
  <2> SUFFICES ASSUME Init PROVE ReportInv  OBVIOUS
  <2>1. LifeInv  BY InitLife
  <2>2. ASSUME NEW a \in Agents PROVE HeardOf(a)
    <3>1. HeardRequests(a) = {}  BY Zenon DEF Init, HeardRequests
    <3>2. HeardClaims(a) = {}  BY Zenon DEF Init, HeardClaims, Idle
    <3>3. answer[a] = Silent  BY Zenon DEF Init
    <3> QED  BY <3>1, <3>2, <3>3, Zenon DEF HeardOf
  <2>3. AckInv
    <3>1. acked = {} /\ \A a \in Agents : answer[a].what = "none"  BY DEF Init, Silent, Answer
    <3> QED  BY <3>1 DEF AckInv, AckedIsCompleted
  <2> QED  BY <2>1, <2>2, <2>3 DEF ReportInv, HeardInv
<1>2. ReportInv /\ [Next]_vars => ReportInv'
  <2> SUFFICES ASSUME ReportInv, [Next]_vars PROVE ReportInv'  OBVIOUS
  <2>1. LifeInv'  BY LifeInductive DEF ReportInv
  <2>2. HeardInv'  BY HeardInvKept DEF ReportInv
  <2> QED  BY <2>1, <2>2, AckInvKept DEF ReportInv
<1> QED  BY <1>1, <1>2, PTL DEF Spec

\* An agent that was told 200 for a success can rely on it (jobs_pg.go
\* Complete, routes.go, controlplane.go postCompleteWithRetry): with any number
\* of agents and control planes, lost and late requests, retries, sweeps and
\* cancellations, the job is completed on record until it is pruned.
THEOREM AcknowledgedIsCompleted == Spec => []AckedIsCompleted
<1>1. ReportInv => AckedIsCompleted  BY DEF ReportInv, AckInv
<1> QED  BY <1>1, ReportAlways, PTL

-----------------------------------------------------------------------------
(* The cap.                                                                  *)

\* Only the commit of a claim makes a job run.
LEMMA RunningMoves ==
    ASSUME LifeInv, [Next]_vars
    PROVE  Running' \subseteq Running \/ \E p \in ControlPlanes : CommitClaim(p) /\ Running' = Running \cup {tx[p].job}
<1>0. state \in [Jobs -> States]  BY DEF LifeInv, TypeOK
<1>1. ASSUME NEW p \in ControlPlanes, CommitClaim(p) PROVE Running' = Running \cup {tx[p].job}
  <2>1. tx[p].job \in Jobs  BY <1>1 DEF CommitClaim, LifeInv, TypeOK
  <2> QED  BY <1>0, <1>1, <2>1 DEF CommitClaim, Running
<1>2. ASSUME NEW r \in requests, Complete(r) PROVE Running' \subseteq Running
  <2>1. Recorded(r) # "running"  BY DEF Recorded
  <2> QED  BY <1>0, <1>2, <2>1 DEF Complete, Running
<1>3. ASSUME SweepAbandoned \/ \E j \in Jobs : Enqueue(j) \/ Cancel(j) \/ Silence(j) \/ PruneTerminal(j)
      PROVE  Running' \subseteq Running
  BY <1>0, <1>3 DEF SweepAbandoned, Abandoned, Enqueue, Cancel, Silence, PruneTerminal, Running
<1>4. \/ \E p \in ControlPlanes : CommitClaim(p)
      \/ \E r \in requests : Complete(r)
      \/ SweepAbandoned \/ \E j \in Jobs : Enqueue(j) \/ Cancel(j) \/ Silence(j) \/ PruneTerminal(j)
      \/ UNCHANGED state
  BY DEF Next, Serve, Environment, AgentStep, vars, table, ClaimRow, NoRow, BeginClaim, AppendProgress,
         AbortClaim, Lose, Report, TimeOut, Crash, Restart,
         Poll, Claimed, Reported, Watch, WatchMisled, Executed, SendComplete, Completed
<1> QED  BY <1>1, <1>2, <1>3, <1>4 DEF Running

\* A claim is committed only within the cap.
LEMMA CapInvKept == ASSUME LifeInv, CapInv, [Next]_vars PROVE CapInv'
<1> USE ConstantTypes
<1> SUFFICES ASSUME Cap > 0
             PROVE  /\ Cardinality(Running') <= Cap
                    /\ \A p, q \in ControlPlanes : tx'[p] # Idle /\ tx'[q] # Idle => p = q
                    /\ \A p \in ControlPlanes : tx'[p].job # NoJob => Cardinality(Running') < Cap
  BY DEF CapInv, Running
<1>1. /\ Cardinality(Running) <= Cap
      /\ \A p, q \in ControlPlanes : tx[p] # Idle /\ tx[q] # Idle => p = q
      /\ \A p \in ControlPlanes : tx[p].job # NoJob => Cardinality(Running) < Cap
  BY DEF CapInv
<1>2. IsFiniteSet(Running) /\ Cardinality(Running) \in Nat /\ Idle.job = NoJob
  <2>1. Running \subseteq Jobs  BY DEF Running
  <2>2. IsFiniteSet(Running)  BY <2>1, FS_Subset
  <2> QED  BY <2>2, FS_CardinalityType DEF Idle
<1>3. TypeOK
      /\ tx \in [ControlPlanes -> [agent : Agents \cup {Nobody}, job : Jobs \cup {NoJob}, heard : BOOLEAN]]
  BY DEF LifeInv, TypeOK
<1>4. ASSUME NEW p \in ControlPlanes, CommitClaim(p), Running' = Running \cup {tx[p].job}
      PROVE  /\ Cardinality(Running') <= Cap
             /\ \A q \in ControlPlanes : tx'[q] = Idle
  <2>1. tx[p].job # NoJob /\ tx' = [tx EXCEPT ![p] = Idle]  BY <1>4 DEF CommitClaim
  <2>2. tx[p] # Idle /\ Cardinality(Running) < Cap  BY <1>1, <1>2, <2>1
  <2>3. Cardinality(Running') <= Cardinality(Running) + 1
    <3>1. tx[p].job \in Running => Running' = Running  BY <1>4
    <3>2. tx[p].job \notin Running => Cardinality(Running') = Cardinality(Running) + 1
      BY <1>2, <1>4, FS_AddElement
    <3> QED  BY <1>2, <3>1, <3>2
  <2>4. Cardinality(Running') \in Nat  BY ZenonT(60), <1>2, <1>4, FS_AddElement, FS_CardinalityType
  <2>5. \A q \in ControlPlanes : tx'[q] = Idle  BY <1>1, <1>3, <2>1, <2>2
  <2> QED  BY <1>2, <2>2, <2>3, <2>4, <2>5
<1>5. ASSUME Running' \subseteq Running
      PROVE  Cardinality(Running') \in Nat /\ Cardinality(Running') <= Cardinality(Running)
  <2>1. IsFiniteSet(Running') /\ Cardinality(Running') <= Cardinality(Running)  BY <1>2, <1>5, FS_Subset
  <2> QED  BY <2>1, FS_CardinalityType
<1>6. ASSUME Running' \subseteq Running
      PROVE  /\ \A p, q \in ControlPlanes : tx'[p] # Idle /\ tx'[q] # Idle => p = q
             /\ \A p \in ControlPlanes : tx'[p].job # NoJob => Cardinality(Running) < Cap
  <2>1. CASE UNCHANGED tx  BY <1>1, <2>1
  <2>2. ASSUME NEW p \in ControlPlanes, NEW r \in requests, BeginClaim(p, r)
        PROVE  /\ tx'[p].job = NoJob /\ \A q \in ControlPlanes : tx[q] = Idle
               /\ \A q \in ControlPlanes : q # p => tx'[q] = tx[q]
    BY <1>3, <2>2 DEF BeginClaim, HaveClaimLock
  <2>3. ASSUME NEW p \in ControlPlanes, ClaimRow(p)
        PROVE  /\ tx[p] # Idle /\ Cardinality(Running) < Cap
               /\ \A q \in ControlPlanes : q # p => tx'[q] = tx[q]
    <3>1. tx[p].agent # Nobody /\ tx[p].agent \in Agents  BY <1>3, <2>3 DEF ClaimRow
    <3>2. Cardinality(Running) < Cap  BY <1>3, <2>3, <3>1, ClaimableJob DEF ClaimRow
    <3>3. tx[p] # Idle  BY <3>1 DEF Idle
    <3>4. \A q \in ControlPlanes : q # p => tx'[q] = tx[q]  BY <1>3, <2>3 DEF ClaimRow
    <3> QED  BY <3>2, <3>3, <3>4
  <2>4. ASSUME NEW p \in ControlPlanes, tx' = [tx EXCEPT ![p] = Idle]
        PROVE  \A q \in ControlPlanes : tx'[q] \in {Idle, tx[q]}
    BY <1>3, <2>4
  <2>5. ASSUME NEW a \in Agents, Deafen(a), NEW p \in ControlPlanes
        PROVE  tx'[p].job = tx[p].job /\ (tx[p] = Idle => tx'[p] = Idle)
    <3>1. tx'[p] = [tx[p] EXCEPT !.heard = @ /\ tx[p].agent # a]  BY <2>5, Zenon DEF Deafen
    <3>2. tx'[p].job = tx[p].job  BY <1>3, <2>5, Deafened, Zenon
    <3>3. ASSUME tx[p] = Idle PROVE tx'[p] = Idle
      <4>0. ~tx[p].heard
        <5>1. ~Idle.heard  BY Zenon DEF Idle
        <5> QED  BY <3>3, <5>1
      <4>1. (tx[p].heard /\ tx[p].agent # a) = FALSE  BY <4>0
      <4>2. tx'[p] = [Idle EXCEPT !.heard = FALSE]  BY <3>1, <3>3, <4>1, Zenon
      <4> QED  BY <4>2, Zenon DEF Idle
    <3> QED  BY <3>2, <3>3
  <2> QED  BY <1>1, <1>2, <2>1, <2>2, <2>3, <2>4, <2>5, TxMoves
<1> QED  BY <1>1, <1>2, <1>4, <1>5, <1>6, RunningMoves

\* ClaimOptions.MaxConcurrent is never exceeded by the jobs that run on
\* record, whatever the number of control planes: the advisory lock is held
\* from the count to the commit (jobs_pg.go Claim).
THEOREM CapRespected == Spec => []CapHolds
<1>1. Init => CapInv
  <2> SUFFICES ASSUME Init PROVE CapInv  OBVIOUS
  <2>1. Running = {}  BY DEF Init, Running
  <2>2. Cardinality(Running) = 0  BY <2>1, FS_EmptySet
  <2> QED  BY <2>2, ConstantTypes DEF Init, CapInv, Idle
<1>2. LifeInv /\ CapInv /\ [Next]_vars => CapInv'  BY CapInvKept
<1>3. CapInv => CapHolds  BY DEF CapInv, CapHolds
<1> QED  BY <1>1, <1>2, <1>3, LifeAlways, PTL DEF Spec

=============================================================================
