-------------------------- MODULE AuditChainProofs --------------------------
(* Proofs about AuditChain, for any number of Appends, where the storage      *)
(* plugin creates objects atomically, or where Appends do not overlap and the *)
(* plugin looks before it writes.                                             *)
EXTENDS AuditChain, TLAPS

-----------------------------------------------------------------------------
(* The invariant.                                                            *)

\* The deployments that the log is safe in: the plugin's Put with IfNotExists
\* is atomic (Capabilities().ConditionalPut), or it looks before it writes and
\* Appends do not overlap.
SafeWorld(w) == w.puts = "atomic" \/ (w.puts = "checked" /\ ~w.concurrent)
SafeWorlds == \A w \in Worlds : SafeWorld(w)

\* The hash of the event that e writes, or has written, in its slot.
Own(e) == [id |-> e, seq |-> seq[e]]

\* The slots are taken from the first one on, without a gap.
Prefix == \E k \in 0 .. MaxSeq + 1 : \A n \in Seqs : Taken(n) <=> n < k

\* An Append in its loop has a predecessor that is in the log and aims at the
\* slot behind it; one that writes without a condition has a free slot; one that
\* lost its slot found it taken; one that goes on to the head pointer, or has
\* returned, is in its slot.
AppendInv(e) ==
    /\ pc[e] \in {"probe", "put", "write", "readback", "lost", "point"} =>
         /\ seq[e] = prev[e].seq + 1
         /\ prev[e] = Genesis \/ Present(prev[e])
         /\ attempts[e] < MaxAttempts
    /\ pc[e] = "write" => ~world.concurrent /\ seq[e] \in Seqs /\ ~Taken(seq[e])
    /\ pc[e] = "lost" => seq[e] \in Seqs /\ Taken(seq[e])
    /\ pc[e] \in {"readback", "point", "ok"} => seq[e] \in Seqs /\ Present(Own(e))

\* Where Appends do not overlap there is one under way at most.
Alone == ~world.concurrent => \A e, f \in UnderWay : e = f

ChainInv ==
    /\ TypeOK /\ SafeWorld(world)
    /\ Prefix /\ Linked
    /\ Alone /\ \A e \in Events : AppendInv(e)
    /\ WitnessesHold /\ "break" \notin said

-----------------------------------------------------------------------------
(* The log.                                                                  *)

\* The assumptions on the constants, spelled out for the provers.
LEMMA ConstantTypes ==
    None \notin Events /\ MaxSeq \in Nat /\ MaxAttempts \in Nat /\ MaxAttempts > 0 /\ MaxFaults \in Nat
  BY AuditAssumption

\* A taken slot holds an event, and the event is present.
LEMMA TakenPresent ==
    ASSUME TypeOK, NEW n \in Seqs, Taken(n)
    PROVE  HashAt(n) \in Hashes /\ HashAt(n).seq = n /\ Present(HashAt(n))
  BY DEF TypeOK, Taken, Bodies, Empty, HashAt, Hashes, Present

\* An event that is present is in a taken slot.
LEMMA PresentTaken ==
    ASSUME NEW h, Present(h)
    PROVE  h \in Hashes /\ h.seq \in Seqs /\ Taken(h.seq) /\ HashAt(h.seq) = h
  BY ConstantTypes DEF Present, Hashes, HashAt, Taken

\* A listing finds an event that is present, or none.
LEMMA TipPresent ==
    ASSUME TypeOK, Prefix
    PROVE  Tip = NoHash \/ Present(Tip)
<1> USE ConstantTypes DEF Seqs
<1>1. PICK k \in 0 .. MaxSeq + 1 : \A n \in Seqs : Taken(n) <=> n < k  BY DEF Prefix
<1> DEFINE taken == {n \in Seqs : Taken(n)}
<1>2. CASE k = 0
  <2>1. taken = {}  BY <1>1, <1>2
  <2> QED  BY <2>1 DEF Tip
<1>3. CASE k > 0
  <2>1. k - 1 \in taken /\ \A n \in taken : k - 1 >= n  BY <1>1, <1>3
  <2>2. Max(taken) \in taken  BY <2>1 DEF Max
  <2>3. Present(HashAt(Max(taken)))  BY <2>2, TakenPresent
  <2> QED  BY <2>2, <2>3 DEF Tip
<1> QED  BY <1>1, <1>2, <1>3

\* Writing a free slot behind an event that is present lengthens the chain,
\* and changes nothing that is there.
LEMMA WriteExtends ==
    ASSUME TypeOK, Prefix, Linked, NEW e \in Events, Write(e), UNCHANGED seq,
           seq[e] \in Seqs, ~Taken(seq[e]),
           seq[e] = prev[e].seq + 1, prev[e] = Genesis \/ Present(prev[e])
    PROVE  /\ slot' \in [Seqs -> Bodies \cup {Empty}]
           /\ Prefix' /\ Linked' /\ Present(Own(e))'
           /\ \A h : Present(h) => Present(h)'
           /\ \A n \in Seqs : n # seq[e] => slot'[n] = slot[n]
<1> USE ConstantTypes DEF Seqs
<1> DEFINE m == seq[e]
<1>0. slot \in [Seqs -> Bodies \cup {Empty}] /\ prev[e] \in Hashes \cup {Genesis} /\ m \in Seqs
  BY DEF TypeOK
<1>1. /\ slot'[m] = [id |-> e, prev |-> prev[e]]
      /\ \A n \in Seqs : n # m => slot'[n] = slot[n]
      /\ slot' \in [Seqs -> Bodies \cup {Empty}]
  BY <1>0 DEF Write, Bodies
<1>2. slot'[m].id = e /\ slot'[m].prev = prev[e] /\ e # None  BY <1>1
<1>3. PICK k \in 0 .. MaxSeq + 1 : \A n \in Seqs : Taken(n) <=> n < k  BY DEF Prefix
<1>4. prev[e] # Genesis => m > 0 /\ m - 1 \in Seqs /\ Taken(m - 1) /\ HashAt(m - 1) = prev[e]
  <2> SUFFICES ASSUME prev[e] # Genesis
               PROVE  m > 0 /\ m - 1 \in Seqs /\ Taken(m - 1) /\ HashAt(m - 1) = prev[e]
    OBVIOUS
  <2>1. prev[e].seq \in Seqs /\ Taken(prev[e].seq) /\ HashAt(prev[e].seq) = prev[e]  BY PresentTaken
  <2> QED  BY <2>1
<1>5. prev[e] = Genesis => m = 0  BY DEF Genesis, NoHash
<1>6. k = m
  <2>1. ~(m < k)  BY <1>3
  <2>2. m > 0 => m - 1 < k  BY <1>3, <1>4, <1>5
  <2> QED  BY <1>0, <2>1, <2>2
<1>7. \A n \in Seqs : Taken(n)' <=> n < m + 1
  BY <1>0, <1>1, <1>2, <1>3, <1>6 DEF Taken
<1>8. Prefix'
  <2>1. m + 1 \in 0 .. MaxSeq + 1  BY <1>0
  <2> QED  BY <1>7, <2>1 DEF Prefix
<1>9. \A n \in Seqs : n # m => HashAt(n)' = HashAt(n)  BY <1>1 DEF HashAt
<1>10. Linked'
  <2> SUFFICES ASSUME NEW n \in Seqs, Taken(n)' PROVE LinkOK(n)'  BY DEF Linked
  <2>1. CASE n = m  BY <1>0, <1>2, <1>4, <1>5, <1>9, <2>1 DEF LinkOK, Genesis
  <2>2. CASE n # m
    <3>1. n < m  BY <1>0, <1>7, <2>2
    <3>2. Taken(n)  BY <1>3, <1>6, <3>1
    <3>3. LinkOK(n)  BY <3>2 DEF Linked
    <3>4. n # 0 => HashAt(n - 1)' = HashAt(n - 1)  BY <1>0, <1>9, <3>1
    <3> QED  BY <1>1, <2>2, <3>3, <3>4 DEF LinkOK, Genesis
  <2> QED  BY <2>1, <2>2
<1>11. Present(Own(e))'  BY <1>0, <1>2 DEF Present, Own, Hashes, HashAt
<1>12. ASSUME NEW h, Present(h) PROVE Present(h)'
  <2>1. h \in Hashes /\ h.seq \in Seqs /\ Taken(h.seq) /\ HashAt(h.seq) = h  BY <1>12, PresentTaken
  <2>2. HashAt(h.seq)' = h  BY <1>9, <2>1
  <2> QED  BY <2>1, <2>2 DEF Present
<1> QED  BY <1>1, <1>8, <1>10, <1>11, <1>12

-----------------------------------------------------------------------------
(* The steps of an Append.                                                   *)

\* What a step of Append e does to the log, and to itself: it leaves the log
\* alone, or writes its free slot.
Extends(e) ==
    \/ UNCHANGED slot
    \/ Write(e) /\ pc[e] \in {"put", "write"} /\ seq[e] \in Seqs /\ ~Taken(seq[e]) /\ UNCHANGED <<seq, prev>>

\* The others stay where they are.
OthersStay(e) ==
    /\ \A f \in Events \ {e} :
         /\ pc'[f] = pc[f] /\ seq'[f] = seq[f] /\ prev'[f] = prev[f] /\ attempts'[f] = attempts[f]

\* The log stays one chain, and what is in it stays.
LEMMA LogKept ==
    ASSUME ChainInv, NEW e \in Events, Extends(e)
    PROVE  /\ slot' \in [Seqs -> Bodies \cup {Empty}]
           /\ Prefix' /\ Linked'
           /\ \A n \in Seqs : Taken(n) => slot'[n] = slot[n]
           /\ \A n \in Seqs : slot'[n] = slot[n] \/ (n = seq[e] /\ pc[e] \in {"put", "write"})
<1> USE ConstantTypes DEF ChainInv
<1>1. CASE UNCHANGED slot
  BY <1>1 DEF TypeOK, Prefix, Linked, LinkOK, Taken, HashAt
<1>2. CASE Write(e) /\ pc[e] \in {"put", "write"} /\ seq[e] \in Seqs /\ ~Taken(seq[e]) /\ UNCHANGED <<seq, prev>>
  <2>1. seq[e] = prev[e].seq + 1 /\ (prev[e] = Genesis \/ Present(prev[e]))  BY <1>2 DEF AppendInv
  <2> QED  BY <1>2, <2>1, WriteExtends
<1> QED  BY <1>1, <1>2 DEF Extends

\* What is present stays present.
LEMMA PresentStays ==
    ASSUME NEW h, Present(h), \A n \in Seqs : Taken(n) => slot'[n] = slot[n]
    PROVE  h \in Hashes /\ h.seq \in Seqs /\ slot'[h.seq].id = h.id /\ [id |-> slot'[h.seq].id, seq |-> h.seq] = h
<1>1. h \in Hashes /\ h.seq \in Seqs /\ Taken(h.seq) /\ HashAt(h.seq) = h  BY PresentTaken
<1> QED  BY <1>1 DEF HashAt, Hashes

\* An Append that does nothing keeps its part of the invariant.
LEMMA OthersKept ==
    ASSUME ChainInv, NEW e \in Events, Extends(e), OthersStay(e), UNCHANGED world,
           NEW f \in Events, f # e
    PROVE  AppendInv(f)'
<1> USE ConstantTypes DEF ChainInv
<1>1. /\ pc'[f] = pc[f] /\ seq'[f] = seq[f] /\ prev'[f] = prev[f] /\ attempts'[f] = attempts[f]
      /\ AppendInv(f)
  BY DEF OthersStay
<1>2. /\ \A n \in Seqs : Taken(n) => slot'[n] = slot[n]
      /\ \A n \in Seqs : slot'[n] = slot[n] \/ (n = seq[e] /\ pc[e] \in {"put", "write"})
  BY LogKept
<1>3. pc[f] \in {"probe", "put", "write", "readback", "lost", "point"} =>
         /\ seq'[f] = prev'[f].seq + 1
         /\ (prev[f] = Genesis \/ Present(prev[f]))'
         /\ attempts'[f] < MaxAttempts
  <2>1. Present(prev[f]) => Present(prev[f])'
    BY <1>1, <1>2, PresentStays DEF Present, HashAt
  <2> QED  BY <1>1, <2>1 DEF AppendInv
<1>4. pc[f] = "write" => (~world.concurrent /\ seq[f] \in Seqs /\ ~Taken(seq[f]))'
  <2> SUFFICES ASSUME pc[f] = "write" PROVE ~world.concurrent /\ seq[f] \in Seqs /\ slot'[seq[f]].id = None
    BY <1>1 DEF Taken
  <2>1. ~world.concurrent /\ seq[f] \in Seqs /\ ~Taken(seq[f])  BY <1>1 DEF AppendInv
  <2>2. pc[e] \notin {"put", "write"}  BY <2>1 DEF Alone, UnderWay, Under
  <2> QED  BY <1>2, <2>1, <2>2 DEF Taken
<1>5. pc[f] = "lost" => (seq[f] \in Seqs /\ Taken(seq[f]))'  BY <1>1, <1>2 DEF AppendInv, Taken
<1>6. pc[f] \in {"readback", "point", "ok"} => (seq[f] \in Seqs /\ Present(Own(f)))'
  <2>1. Own(f)' = Own(f)  BY <1>1 DEF Own
  <2>2. Present(Own(f)) => Present(Own(f))'
    BY <1>2, <2>1, PresentStays DEF Present, HashAt
  <2> QED  BY <1>1, <2>2 DEF AppendInv
<1> QED  BY <1>1, <1>3, <1>4, <1>5, <1>6 DEF AppendInv

\* What is known of the state when a step of Append e is taken.
LEMMA Known ==
    ASSUME ChainInv, NEW e \in Events
    PROVE  /\ AppendInv(e) /\ TypeOK
           /\ pc \in [Events -> Under \cup {"new", "ok", "failed", "gaveup", "dead"}]
           /\ seq \in [Events -> 0 .. MaxSeq + 1] /\ prev \in [Events -> Hashes \cup {Genesis}]
           /\ hint \in [Events -> Hashes \cup {NoHash}] /\ attempts \in [Events -> 0 .. MaxAttempts]
           /\ slot \in [Seqs -> Bodies \cup {Empty}] /\ faults \in 0 .. MaxFaults
  BY DEF ChainInv, TypeOK

AppendTypes ==
    /\ pc \in [Events -> Under \cup {"new", "ok", "failed", "gaveup", "dead"}]
    /\ seq \in [Events -> 0 .. MaxSeq + 1] /\ prev \in [Events -> Hashes \cup {Genesis}]
    /\ hint \in [Events -> Hashes \cup {NoHash}] /\ attempts \in [Events -> 0 .. MaxAttempts]
    /\ faults \in 0 .. MaxFaults

\* A step of Append e that extends the log or leaves it alone, and after which
\* its own part of the invariant holds, keeps the whole.
LEMMA StepKeeps ==
    ASSUME ChainInv, NEW e \in Events, Extends(e), OthersStay(e), UNCHANGED <<world, anchors, verifier>>,
           AppendTypes', AppendInv(e)',
           pc'[e] \in Under => pc[e] \in Under \/ world.concurrent \/ UnderWay = {},
           UNCHANGED pointer \/ Present(pointer)'
    PROVE  ChainInv'
<1> USE ConstantTypes
<1>1. /\ slot' \in [Seqs -> Bodies \cup {Empty}]
      /\ Prefix' /\ Linked'
      /\ \A n \in Seqs : Taken(n) => slot'[n] = slot[n]
  BY LogKept
<1>2. \A f \in Events : AppendInv(f)'  BY OthersKept
<1>3. Alone'
  <2> SUFFICES ASSUME ~world.concurrent, NEW f \in Events, NEW g \in Events, pc'[f] \in Under, pc'[g] \in Under
               PROVE  f = g
    BY DEF Alone, UnderWay
  <2>1. \A x \in Events : pc'[x] \in Under => pc[x] \in Under \/ (x = e /\ UnderWay = {})
    BY DEF OthersStay
  <2>2. \A x, y \in Events : pc[x] \in Under /\ pc[y] \in Under => x = y  BY DEF ChainInv, Alone, UnderWay
  <2> QED  BY <2>1, <2>2 DEF UnderWay
<1>4. WitnessesHold'
  <2>1. \A h \in anchors' : Present(h)'
    BY <1>1, PresentStays DEF ChainInv, WitnessesHold, Present, HashAt
  <2>2. pointer' # NoHash => Present(pointer)'
    <3>1. CASE UNCHANGED pointer
      BY <1>1, <3>1, PresentStays DEF ChainInv, WitnessesHold, Present, HashAt
    <3> QED  BY <3>1
  <2> QED  BY <2>1, <2>2 DEF WitnessesHold
<1>5. TypeOK'
  <2>1. pointer' \in Hashes \cup {NoHash}  BY DEF ChainInv, TypeOK, Present
  <2>2. world' \in Worlds /\ anchors' \subseteq Hashes /\ listed' \in Hashes \cup {NoHash} /\ said' \subseteq Findings
    BY DEF ChainInv, TypeOK, verifier
  <2> QED  BY <1>1, <2>1, <2>2 DEF TypeOK, AppendTypes
<1>6. SafeWorld(world') /\ "break" \notin said'  BY DEF ChainInv, verifier
<1> QED  BY <1>1, <1>2, <1>3, <1>4, <1>5, <1>6 DEF ChainInv

\* Append e turns to the slot behind h, with some attempts left or none.
LEMMA BehindKeeps ==
    ASSUME ChainInv, NEW e \in Events, NEW h, h = NoHash \/ Present(h), NEW n \in 0 .. MaxAttempts,
           Behind(e, h), Iterate(e, n), UNCHANGED <<world, slot, pointer, anchors, verifier, faults>>,
           hint' = hint \/ hint' = [hint EXCEPT ![e] = NoHash], pc[e] \in Under
    PROVE  ChainInv'
<1> USE ConstantTypes DEF Seqs
<1>0. AppendTypes  BY DEF ChainInv, TypeOK, AppendTypes
<1>1. h \in Hashes \cup {Genesis} /\ h.seq + 1 \in 0 .. MaxSeq + 1
  BY DEF Present, Hashes, NoHash, Genesis
<1>2. /\ seq' = [seq EXCEPT ![e] = h.seq + 1] /\ prev' = [prev EXCEPT ![e] = h]
      /\ attempts' = [attempts EXCEPT ![e] = n]
      /\ pc' = [pc EXCEPT ![e] = pc'[e]] /\ pc'[e] \in {"gaveup", "put", "probe"}
      /\ pc'[e] # "gaveup" => n < MaxAttempts
  BY <1>0 DEF Behind, Iterate, Goto, AppendTypes
<1>3. AppendTypes'  BY <1>0, <1>1, <1>2 DEF AppendTypes, Under
<1>4. /\ seq'[e] = h.seq + 1 /\ prev'[e] = h /\ attempts'[e] = n  BY <1>0, <1>2 DEF AppendTypes
<1>5. AppendInv(e)'
  BY <1>2, <1>4 DEF AppendInv, Present, HashAt, Genesis
<1>6. OthersStay(e)  BY <1>0, <1>2 DEF OthersStay, AppendTypes
<1> QED  BY <1>3, <1>5, <1>6, StepKeeps DEF Extends

\* Append e goes to another place, and changes nothing but, perhaps, its slot.
LEMMA GotoKeeps ==
    ASSUME ChainInv, NEW e \in Events, NEW where \in Under \cup {"new", "ok", "failed", "gaveup", "dead"},
           Goto(e, where), Extends(e), UNCHANGED <<world, anchors, seq, prev, attempts, verifier>>,
           hint' \in [Events -> Hashes \cup {NoHash}], faults' \in 0 .. MaxFaults,
           AppendInv(e)',
           where \in Under => pc[e] \in Under \/ world.concurrent \/ UnderWay = {},
           UNCHANGED pointer \/ Present(pointer)'
    PROVE  ChainInv'
<1>0. AppendTypes  BY DEF ChainInv, TypeOK, AppendTypes
<1>1. AppendTypes' /\ OthersStay(e) /\ pc'[e] = where  BY <1>0 DEF AppendTypes, Goto, OthersStay
<1> QED  BY <1>1, StepKeeps

\* Every step of an Append, and everything that goes wrong in one, keeps the
\* invariant.
LEMMA AppendKeeps ==
    ASSUME ChainInv, NEW e \in Events, AppendStep(e) \/ AppendFault(e)
    PROVE  ChainInv'
<1> USE ConstantTypes
<1>0. AppendTypes /\ AppendInv(e) /\ TypeOK  BY DEF ChainInv, TypeOK, AppendTypes
<1>T. /\ {"head", "check", "probe", "put", "write", "readback", "lost", "point"} \subseteq Under
      /\ hint \in [Events -> Hashes \cup {NoHash}] /\ faults \in 0 .. MaxFaults
      /\ seq[e] \in 0 .. MaxSeq + 1 /\ attempts[e] \in 0 .. MaxAttempts
      /\ pc \in [Events -> Under \cup {"new", "ok", "failed", "gaveup", "dead"}]
  BY <1>0 DEF Under, AppendTypes
<1>F. /\ Fault => faults' \in 0 .. MaxFaults
      /\ NoFault => faults' \in 0 .. MaxFaults
      /\ UNCHANGED slot => Extends(e)
  BY <1>T DEF Fault, NoFault, Extends
<1>P. \A where : Goto(e, where) => pc'[e] = where  BY <1>T DEF Goto
<1>1. CASE Begin(e)
  <2>1. AppendInv(e)'  BY <1>1, <1>P DEF Begin, AppendInv
  <2> QED  BY <1>1, <1>T, <1>F, <2>1, GotoKeeps DEF Begin
<1>2. CASE ReadPointer(e)
  <2>1. hint' \in [Events -> Hashes \cup {NoHash}]  BY <1>0, <1>2, <1>T DEF ReadPointer, TypeOK
  <2>2. AppendInv(e)'  BY <1>2, <1>P DEF ReadPointer, AppendInv
  <2> QED  BY <1>2, <1>T, <1>F, <2>1, <2>2, GotoKeeps DEF ReadPointer
<1>3. CASE CheckPointer(e)
  <2>1. 0 \in 0 .. MaxAttempts /\ pc[e] \in Under  BY <1>3, <1>T DEF CheckPointer
  <2>2. /\ Present(hint[e]) /\ Behind(e, hint[e]) /\ Iterate(e, 0)
        /\ hint' = [hint EXCEPT ![e] = NoHash]
        /\ UNCHANGED <<world, slot, pointer, anchors, verifier, faults>>
    BY <1>3 DEF CheckPointer, NoFault
  <2> QED  BY <2>1, <2>2, BehindKeeps
<1>4. CASE Walk(e)
  <2>1. Tip = NoHash \/ Present(Tip)  BY TipPresent DEF ChainInv
  <2>2. 0 \in 0 .. MaxAttempts /\ pc[e] \in Under  BY <1>4, <1>T DEF Walk
  <2>3. /\ Behind(e, Tip) /\ Iterate(e, 0)
        /\ hint' = [hint EXCEPT ![e] = NoHash]
        /\ UNCHANGED <<world, slot, pointer, anchors, verifier, faults>>
    BY <1>4 DEF Walk, NoFault
  <2> QED  BY <2>1, <2>2, <2>3, BehindKeeps
<1>5. ASSUME pc[e] \in Under, seq[e] \in Seqs, Taken(seq[e]), attempts[e] < MaxAttempts, Relink(e),
             UNCHANGED <<world, slot, pointer, anchors, hint, verifier, faults>>
      PROVE  ChainInv'
  <2>1. Present(Winner(e))  BY <1>0, <1>5, TakenPresent DEF Winner
  <2>2. attempts[e] + 1 \in 0 .. MaxAttempts  BY <1>5, <1>T
  <2> QED  BY <1>5, <2>1, <2>2, BehindKeeps DEF Relink
<1>6. CASE Probe(e)
  <2>1. CASE Taken(seq[e])
    <3>1. attempts[e] < MaxAttempts  BY <1>0, <1>6 DEF Probe, AppendInv
    <3> QED  BY <1>5, <1>6, <1>T, <2>1, <3>1 DEF Probe, NoFault
  <2>2. CASE ~Taken(seq[e])
    <3>1. Goto(e, "put") /\ UNCHANGED <<seq, prev, attempts>>  BY <1>6, <2>2 DEF Probe
    <3>2. AppendInv(e)'  BY <1>0, <1>6, <1>P, <3>1 DEF Probe, AppendInv, Present, HashAt
    <3> QED  BY <1>6, <1>T, <1>F, <3>1, <3>2, GotoKeeps DEF Probe
  <2> QED  BY <2>1, <2>2
<1>7. CASE ProbeFails(e)
  <2>1. AppendInv(e)'  BY <1>0, <1>7, <1>P DEF ProbeFails, AppendInv, Present, HashAt
  <2> QED  BY <1>7, <1>T, <1>F, <2>1, GotoKeeps DEF ProbeFails
<1>8. ASSUME Write(e), pc[e] \in {"put", "write"}, seq[e] \in Seqs, ~Taken(seq[e]), UNCHANGED <<seq, prev, attempts, world>>,
             NEW where \in {"point", "readback", "lost", "failed"}, Goto(e, where)
      PROVE  Extends(e) /\ AppendInv(e)'
  <2>1. seq[e] = prev[e].seq + 1 /\ (prev[e] = Genesis \/ Present(prev[e])) /\ attempts[e] < MaxAttempts
    BY <1>0, <1>8 DEF AppendInv
  <2>2. Extends(e)  BY <1>8 DEF Extends
  <2>3. Present(Own(e))'  BY <1>8, <2>1, WriteExtends DEF ChainInv
  <2>4. Taken(seq[e])'
    <3>1. slot'[seq[e]] = [id |-> e, prev |-> prev[e]]  BY <1>0, <1>8 DEF Write, TypeOK
    <3> QED  BY <1>8, <3>1 DEF Taken
  <2>5. (prev[e] = Genesis \/ Present(prev[e]))'
    <3>1. \A n \in Seqs : Taken(n) => slot'[n] = slot[n]  BY <2>2, LogKept
    <3> QED  BY <1>8, <2>1, <3>1, PresentStays DEF Present, HashAt, Genesis
  <2> QED  BY <1>8, <1>P, <2>1, <2>2, <2>3, <2>4, <2>5 DEF AppendInv
<1>9. CASE Put(e)
  <2>1. CASE Refuses(e) /\ Goto(e, "lost") /\ UNCHANGED slot
    <3>1. AppendInv(e)'  BY <1>0, <1>9, <1>P, <2>1 DEF Put, Refuses, Taken, AppendInv, Present, HashAt
    <3> QED  BY <1>9, <1>T, <1>F, <2>1, <3>1, GotoKeeps DEF Put
  <2>2. CASE ~Refuses(e) /\ ConditionalPut /\ Write(e) /\ Goto(e, "point")
    <3>1. ~Taken(seq[e])  BY <2>2 DEF Refuses, ConditionalPut
    <3>2. Extends(e) /\ AppendInv(e)'  BY <1>8, <1>9, <2>2, <3>1 DEF Put
    <3> QED  BY <1>9, <1>T, <1>F, <2>2, <3>2, GotoKeeps DEF Put
  <2>3. CASE ~Refuses(e) /\ ~ConditionalPut /\ Goto(e, "write") /\ UNCHANGED slot
    <3>1. world.puts = "checked" /\ ~world.concurrent  BY <2>3 DEF ConditionalPut, ChainInv, SafeWorld
    <3>2. ~Taken(seq[e])  BY <2>3, <3>1 DEF Refuses
    <3>3. AppendInv(e)'  BY <1>0, <1>9, <1>P, <2>3, <3>1, <3>2 DEF Put, Taken, AppendInv, Present, HashAt
    <3> QED  BY <1>9, <1>T, <1>F, <2>3, <3>3, GotoKeeps DEF Put
  <2> QED  BY <1>9, <2>1, <2>2, <2>3 DEF Put
<1>10. CASE Overwrite(e)
  <2>1. seq[e] \in Seqs /\ ~Taken(seq[e])  BY <1>0, <1>10 DEF Overwrite, AppendInv
  <2>2. Extends(e) /\ AppendInv(e)'  BY <1>8, <1>10, <2>1 DEF Overwrite
  <2> QED  BY <1>10, <1>T, <1>F, <2>2, GotoKeeps DEF Overwrite
<1>11. CASE PutUnanswered(e)
  <2>1. ~Taken(seq[e])  BY <1>11 DEF PutUnanswered, Refuses, ConditionalPut
  <2>2. PICK where \in {"failed", "lost"} : Goto(e, where)  BY <1>11 DEF PutUnanswered
  <2>3. Extends(e) /\ AppendInv(e)'  BY <1>8, <1>11, <2>1, <2>2 DEF PutUnanswered
  <2> QED  BY <1>11, <1>T, <1>F, <2>2, <2>3, GotoKeeps DEF PutUnanswered
<1>12. CASE StepFails(e)
  <2>1. AppendInv(e)'  BY <1>12, <1>P DEF StepFails, AppendInv
  <2> QED  BY <1>12, <1>T, <1>F, <2>1, GotoKeeps DEF StepFails
<1>13. CASE ReadBack(e)
  <2>1. Goto(e, "point")  BY <1>0, <1>13 DEF ReadBack, AppendInv, Present, Own, HashAt
  <2>2. AppendInv(e)'  BY <1>0, <1>13, <1>P, <2>1 DEF ReadBack, AppendInv, Present, HashAt, Own
  <2> QED  BY <1>13, <1>T, <1>F, <2>1, <2>2, GotoKeeps DEF ReadBack
<1>14. CASE ReadBackFails(e)
  <2>1. seq[e] \in Seqs /\ Taken(seq[e])
    <3>1. Present(Own(e)) /\ Own(e).seq = seq[e]  BY <1>0, <1>14 DEF ReadBackFails, AppendInv, Own
    <3> QED  BY <3>1, PresentTaken
  <2>2. AppendInv(e)'  BY <1>0, <1>14, <1>P, <2>1 DEF ReadBackFails, AppendInv, Present, HashAt, Taken
  <2> QED  BY <1>14, <1>T, <1>F, <2>2, GotoKeeps DEF ReadBackFails
<1>15. CASE Lost(e)
  <2>1. seq[e] \in Seqs /\ Taken(seq[e]) /\ attempts[e] < MaxAttempts  BY <1>0, <1>15 DEF Lost, AppendInv
  <2> QED  BY <1>5, <1>15, <1>T, <2>1 DEF Lost, NoFault
<1>16. CASE Point(e)
  <2>1. Present(Own(e)) /\ Recorded(e) = Own(e)  BY <1>0, <1>16 DEF Point, AppendInv, Recorded, Own
  <2>2. Present(pointer)'  BY <1>16, <2>1 DEF Point, Present, HashAt
  <2>3. AppendInv(e)'  BY <1>0, <1>16, <1>P DEF Point, AppendInv, Present, HashAt, Own
  <2> QED  BY <1>16, <1>T, <1>F, <2>2, <2>3, GotoKeeps DEF Point
<1>17. CASE PointFails(e)
  <2>1. AppendInv(e)'  BY <1>0, <1>17, <1>P DEF PointFails, AppendInv, Present, HashAt, Own
  <2> QED  BY <1>17, <1>T, <1>F, <2>1, GotoKeeps DEF PointFails
<1>18. CASE Crash(e)
  <2>1. AppendInv(e)'  BY <1>18, <1>P DEF Crash, AppendInv
  <2> QED  BY <1>18, <1>T, <1>F, <2>1, GotoKeeps DEF Crash
<1> QED  BY <1>1, <1>2, <1>3, <1>4, <1>6, <1>7, <1>9, <1>10, <1>11, <1>12, <1>13, <1>14, <1>15, <1>16, <1>17, <1>18
         DEF AppendStep, AppendFault

-----------------------------------------------------------------------------
(* Verification and anchoring, and the theorems.                             *)

\* Verifications find no break, and an anchor names an event of the log.
LEMMA WitnessKeeps ==
    ASSUME ChainInv, ListEvents \/ ComparePointer \/ Anchor
    PROVE  ChainInv'
<1> USE ConstantTypes
<1>1. Tip = NoHash \/ Present(Tip)  BY TipPresent DEF ChainInv
<1>2. /\ UNCHANGED <<world, slot, pointer, append, faults>>
      /\ listed' \in Hashes \cup {NoHash} /\ said' \subseteq Findings /\ "break" \notin said'
      /\ anchors' \subseteq Hashes /\ \A h \in anchors' : Present(h)
  <2>1. CASE ListEvents
    BY <1>1, <2>1 DEF ListEvents, NoFault, ChainInv, TypeOK, WitnessesHold, Findings, Present
  <2>2. CASE ComparePointer
    BY <2>2 DEF ComparePointer, NoFault, ChainInv, TypeOK, WitnessesHold, Findings
  <2>3. CASE Anchor
    <3>1. PICK h : h # NoHash /\ (Present(h) \/ h = Tip) /\ anchors' = anchors \cup {h}
      BY <2>3 DEF Anchor
    <3>2. Present(h) /\ h \in Hashes  BY <1>1, <3>1 DEF Present
    <3> QED  BY <2>3, <3>1, <3>2 DEF Anchor, NoFault, verifier, ChainInv, TypeOK, WitnessesHold
  <2> QED  BY <2>1, <2>2, <2>3
<1>3. TypeOK'  BY <1>2 DEF ChainInv, TypeOK, append
<1>4. WitnessesHold'  BY <1>2 DEF ChainInv, WitnessesHold, Present, HashAt
<1>5. Prefix' /\ Linked'  BY <1>2 DEF ChainInv, Prefix, Linked, LinkOK, Taken, HashAt
<1>6. Alone' /\ SafeWorld(world')  BY <1>2 DEF ChainInv, Alone, UnderWay, append
<1>7. ASSUME NEW e \in Events PROVE AppendInv(e)'
  <2>1. AppendInv(e)  BY DEF ChainInv
  <2> QED  BY <1>2, <2>1 DEF AppendInv, append, Taken, Present, HashAt, Own
<1> QED  BY <1>2, <1>3, <1>4, <1>5, <1>6, <1>7 DEF ChainInv

\* The invariant holds where the deployments are safe.
LEMMA ChainAlways ==
    ASSUME SafeWorlds
    PROVE  Spec => []ChainInv
<1>1. Init => ChainInv
  <2> SUFFICES ASSUME Init PROVE ChainInv  OBVIOUS
  <2> USE ConstantTypes DEF Init
  <2>1. TypeOK  BY DEF TypeOK, Seqs, Empty, NoHash, Genesis, Under, Findings
  <2>2. \A n \in Seqs : ~Taken(n)  BY DEF Taken, Empty
  <2>3. Prefix
    <3>1. 0 \in 0 .. MaxSeq + 1 /\ \A n \in Seqs : ~(n < 0)  BY DEF Seqs
    <3> QED  BY <2>2, <3>1 DEF Prefix
  <2>4. Linked  BY <2>2 DEF Linked
  <2>5. Alone /\ \A e \in Events : AppendInv(e)  BY DEF Alone, UnderWay, Under, AppendInv
  <2>6. WitnessesHold /\ "break" \notin said /\ SafeWorld(world)  BY DEF WitnessesHold, SafeWorlds
  <2> QED  BY <2>1, <2>3, <2>4, <2>5, <2>6 DEF ChainInv
<1>2. ChainInv /\ [Next]_vars => ChainInv'
  <2> SUFFICES ASSUME ChainInv, [Next]_vars PROVE ChainInv'  OBVIOUS
  <2>1. CASE UNCHANGED vars
    <3>1. TypeOK' /\ SafeWorld(world')  BY <2>1 DEF vars, append, verifier, ChainInv, TypeOK
    <3>2. Prefix' /\ Linked' /\ WitnessesHold'
      BY <2>1 DEF vars, ChainInv, Prefix, Linked, LinkOK, Taken, HashAt, WitnessesHold, Present
    <3>3. Alone' /\ "break" \notin said'  BY <2>1 DEF vars, append, verifier, ChainInv, Alone, UnderWay
    <3>4. \A e \in Events : AppendInv(e)'
      BY <2>1 DEF vars, append, ChainInv, AppendInv, Taken, Present, HashAt, Own
    <3> QED  BY <3>1, <3>2, <3>3, <3>4 DEF ChainInv
  <2> QED  BY <2>1, AppendKeeps, WitnessKeeps DEF Next
<1> QED  BY <1>1, <1>2, PTL DEF Spec

\* Every variable keeps its type, and Append's loop its bound.
THEOREM TypeCorrect ==
    ASSUME SafeWorlds
    PROVE  Spec => []TypeOK
<1>1. ChainInv => TypeOK  BY DEF ChainInv
<1> QED  BY <1>1, ChainAlways, PTL

\* An event whose Append returned is in the log for good, however many Appends
\* race for its slot, start from a stale head pointer, fail or die
\* (audit/audit.go Append).
THEOREM AcknowledgedKept ==
    ASSUME SafeWorlds
    PROVE  Spec => []AckedKept
<1>1. ChainInv => AckedKept  BY DEF ChainInv, AppendInv, AckedKept, Own
<1> QED  BY <1>1, ChainAlways, PTL

\* The log is one chain without forks and gaps, and verifyShard never reports
\* a break of it.
THEOREM LogIsOneChain ==
    ASSUME SafeWorlds
    PROVE  Spec => []OneChain
<1>1. ChainInv => OneChain
  <2> SUFFICES ASSUME ChainInv PROVE OneChain  OBVIOUS
  <2>1. PICK k \in 0 .. MaxSeq + 1 : \A n \in Seqs : Taken(n) <=> n < k  BY DEF ChainInv, Prefix
  <2>2. \A n \in Seqs : Taken(n) /\ n > 0 => Taken(n - 1)  BY <2>1, ConstantTypes DEF Seqs
  <2> QED  BY <2>2 DEF ChainInv, OneChain
<1> QED  BY <1>1, ChainAlways, PTL

\* What the head pointer and the transparency log record is in the chain, at
\* any time: nothing that was anchored is ever replaced.
THEOREM WitnessesAlwaysHold ==
    ASSUME SafeWorlds
    PROVE  Spec => []WitnessesHold
<1>1. ChainInv => WitnessesHold  BY DEF ChainInv
<1> QED  BY <1>1, ChainAlways, PTL

=============================================================================
