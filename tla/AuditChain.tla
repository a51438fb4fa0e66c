------------------------------ MODULE AuditChain ------------------------------
(***************************************************************************)
(* One shard of the audit log (audit/audit.go): concurrent Appends from any  *)
(* number of processes, the head pointer they maintain on the side, chain    *)
(* verification and anchoring.  Every Append is a process of its own, named  *)
(* by the event it writes.                                                   *)
(*                                                                          *)
(* An event's key is its sequence number, its body names the event before it *)
(* by hash.  An event that is linked anew always moves to a higher sequence  *)
(* number, so the pair of both stands for the hash of its body.              *)
(***************************************************************************)
EXTENDS Integers, FiniteSets, FiniteSetsExt

CONSTANTS
    Events,         \* the Append calls
    None,
    MaxSeq,         \* bound on sequence numbers
    Worlds,         \* storage plugins, and whether Appends run concurrently: one is chosen
    MaxAttempts,    \* maxAppendAttempts
    MaxFaults       \* bound on crashes and failed storage calls

ASSUME AuditAssumption ==
    /\ None \notin Events
    /\ MaxSeq \in Nat /\ MaxAttempts \in Nat \ {0} /\ MaxFaults \in Nat
    /\ Worlds \subseteq [puts : {"atomic", "checked", "blind"}, concurrent : BOOLEAN]

VARIABLES
    world,
    slot,       \* slot[n]: the event stored under sequence number n
    pointer,    \* audit/_head.json: the hash it records
    anchors,    \* hashes in the transparency log
    \* the Appends
    pc, seq, prev, hint, attempts,
    \* a verification: the head it listed, and what verifications have found
    listed, said,
    faults

append == <<pc, seq, prev, hint, attempts>>
verifier == <<listed, said>>
vars == <<world, slot, pointer, anchors, append, verifier, faults>>

Seqs == 0 .. MaxSeq

Hashes == [id : Events, seq : Seqs]
NoHash == [id |-> None, seq |-> -1]      \* GenesisHash, and no pointer
Genesis == NoHash

Bodies == [id : Events, prev : Hashes \cup {Genesis}]
Empty == [id |-> None, prev |-> NoHash]

Taken(n) == slot[n].id # None

HashAt(n) == [id |-> slot[n].id, seq |-> n]

\* The event that a hash stands for is in its place.
Present(h) == h \in Hashes /\ HashAt(h.seq) = h

\* The tip that a listing finds, by sequence number.
Tip ==
    LET taken == {n \in Seqs : Taken(n)} IN
    IF taken = {} THEN NoHash ELSE HashAt(Max(taken))

\* Capabilities().ConditionalPut.  Without it IfNotExists is a look before the
\* write (an sftp server that has no hard links) or nothing (an S3 endpoint
\* that ignores If-None-Match).
ConditionalPut == world.puts = "atomic"

Under == {"head", "check", "probe", "put", "write", "readback", "lost", "point"}
UnderWay == {e \in Events : pc[e] \in Under}

Init ==
    /\ world \in Worlds
    /\ slot = [n \in Seqs |-> Empty]
    /\ pointer = NoHash
    /\ anchors = {}
    /\ pc = [e \in Events |-> "new"]
    /\ seq = [e \in Events |-> 0]
    /\ prev = [e \in Events |-> Genesis]
    /\ hint = [e \in Events |-> NoHash]
    /\ attempts = [e \in Events |-> 0]
    /\ listed = NoHash /\ said = {}
    /\ faults = 0

Goto(e, where) == pc' = [pc EXCEPT ![e] = where]

Fault == faults < MaxFaults /\ faults' = faults + 1
NoFault == UNCHANGED faults

\* The next write of e goes behind h.
Behind(e, h) ==
    /\ prev' = [prev EXCEPT ![e] = h]
    /\ seq' = [seq EXCEPT ![e] = h.seq + 1]

\* An iteration of Append's loop begins: a probe where writes are not
\* conditional, then the Put; after maxAppendAttempts it gives up.
Iterate(e, tried) ==
    /\ attempts' = [attempts EXCEPT ![e] = tried]
    /\ Goto(e, IF tried >= MaxAttempts THEN "gaveup"
               ELSE IF ConditionalPut THEN "put" ELSE "probe")

-----------------------------------------------------------------------------
(* Append.                                                                   *)

Begin(e) ==
    /\ pc[e] = "new"
    /\ world.concurrent \/ UnderWay = {}
    /\ Goto(e, "head")
    /\ NoFault
    /\ UNCHANGED <<world, slot, pointer, anchors, seq, prev, hint, attempts, verifier>>

\* head(): the pointer is read first,
ReadPointer(e) ==
    /\ pc[e] = "head" /\ pointer # NoHash
    /\ hint' = [hint EXCEPT ![e] = pointer]
    /\ Goto(e, "check")
    /\ NoFault
    /\ UNCHANGED <<world, slot, pointer, anchors, seq, prev, attempts, verifier>>

\* and taken when the event it names is there;
CheckPointer(e) ==
    /\ pc[e] = "check"
    /\ Present(hint[e])
    /\ Behind(e, hint[e])
    /\ Iterate(e, 0)
    /\ hint' = [hint EXCEPT ![e] = NoHash]
    /\ NoFault
    /\ UNCHANGED <<world, slot, pointer, anchors, verifier>>

\* otherwise, and when a read fails, the events are listed.
Walk(e) ==
    /\ pc[e] \in {"head", "check"}
    /\ Behind(e, Tip)
    /\ Iterate(e, 0)
    /\ hint' = [hint EXCEPT ![e] = NoHash]
    /\ NoFault
    /\ UNCHANGED <<world, slot, pointer, anchors, verifier>>

\* Mutant: seq moves on and PrevHash does not.
OldPredecessor(e) == [prev[e] EXCEPT !.seq = seq[e]]

\* The new predecessor after a collision: the event that has the slot.
Winner(e) == HashAt(seq[e])

\* relink, and the next iteration.
Relink(e) ==
    /\ Behind(e, Winner(e))
    /\ Iterate(e, attempts[e] + 1)

\* The slot is looked at before an unconditional write.
Probe(e) ==
    /\ pc[e] = "probe" /\ seq[e] \in Seqs
    /\ IF Taken(seq[e])
       THEN Relink(e)
       ELSE Goto(e, "put") /\ UNCHANGED <<seq, prev, attempts>>
    /\ NoFault
    /\ UNCHANGED <<world, slot, pointer, anchors, hint, verifier>>

\* A probe that fails counts as a free slot.
ProbeFails(e) ==
    /\ pc[e] = "probe"
    /\ Fault
    /\ Goto(e, "put")
    /\ UNCHANGED <<world, slot, pointer, anchors, seq, prev, hint, attempts, verifier>>

\* The body of e goes into its slot.
Write(e) == slot' = [slot EXCEPT ![seq[e]] = [id |-> e, prev |-> prev[e]]]

\* Mutant: the put is unconditional.
NeverRefuses(e) == FALSE

\* Put with IfNotExists finds the slot taken, ErrAlreadyExists.
Refuses(e) == world.puts # "blind" /\ Taken(seq[e])

Put(e) ==
    /\ pc[e] = "put" /\ seq[e] \in Seqs
    /\ \/ Refuses(e) /\ Goto(e, "lost") /\ UNCHANGED slot
       \/ ~Refuses(e) /\ ConditionalPut /\ Write(e) /\ Goto(e, "point")
       \/ ~Refuses(e) /\ ~ConditionalPut /\ Goto(e, "write") /\ UNCHANGED slot
    /\ NoFault
    /\ UNCHANGED <<world, pointer, anchors, seq, prev, hint, attempts, verifier>>

\* Where IfNotExists is not atomic, whatever is in the slot is replaced.
Overwrite(e) ==
    /\ pc[e] = "write"
    /\ Write(e)
    /\ Goto(e, "readback")
    /\ NoFault
    /\ UNCHANGED <<world, pointer, anchors, seq, prev, hint, attempts, verifier>>

\* The Put wrote and was not answered.  The Append fails, or the plugin tries
\* again and finds its own event in the slot.
PutUnanswered(e) ==
    /\ pc[e] = "put" /\ seq[e] \in Seqs /\ ConditionalPut /\ ~Refuses(e)
    /\ Fault
    /\ Write(e)
    /\ Goto(e, "failed") \/ Goto(e, "lost")
    /\ UNCHANGED <<world, pointer, anchors, seq, prev, hint, attempts, verifier>>

\* A Put, or another call whose error Append returns, fails.
StepFails(e) ==
    /\ pc[e] \in {"head", "put", "write", "lost"}
    /\ Fault
    /\ Goto(e, "failed")
    /\ UNCHANGED <<world, slot, pointer, anchors, seq, prev, hint, attempts, verifier>>

\* readSlotRaw: an unconditional write counts when it is still there.
ReadBack(e) ==
    /\ pc[e] = "readback"
    /\ Goto(e, IF HashAt(seq[e]).id = e THEN "point" ELSE "lost")
    /\ NoFault
    /\ UNCHANGED <<world, slot, pointer, anchors, seq, prev, hint, attempts, verifier>>

ReadBackFails(e) ==
    /\ pc[e] = "readback"
    /\ Fault
    /\ Goto(e, "lost")
    /\ UNCHANGED <<world, slot, pointer, anchors, seq, prev, hint, attempts, verifier>>

\* The collision: read the winner, link onto it, try the next slot.
Lost(e) ==
    /\ pc[e] = "lost"
    /\ Relink(e)
    /\ NoFault
    /\ UNCHANGED <<world, slot, pointer, anchors, hint, verifier>>

\* Mutant: the pointer records the next sequence number.
PointAhead(e) == [id |-> e, seq |-> IF seq[e] < MaxSeq THEN seq[e] + 1 ELSE seq[e]]

\* What e records as the head.
Recorded(e) == [id |-> e, seq |-> seq[e]]

\* writeHeadPointer, last writer wins; the event is appended whether or not
\* it succeeds.
Point(e) ==
    /\ pc[e] = "point"
    /\ pointer' = Recorded(e)
    /\ Goto(e, "ok")
    /\ NoFault
    /\ UNCHANGED <<world, slot, anchors, seq, prev, hint, attempts, verifier>>

PointFails(e) ==
    /\ pc[e] = "point"
    /\ Fault
    /\ Goto(e, "ok")
    /\ UNCHANGED <<world, slot, pointer, anchors, seq, prev, hint, attempts, verifier>>

\* The process dies.
Crash(e) ==
    /\ pc[e] \in Under
    /\ Fault
    /\ Goto(e, "dead")
    /\ UNCHANGED <<world, slot, pointer, anchors, seq, prev, hint, attempts, verifier>>

-----------------------------------------------------------------------------
(* VerifyChain and Anchor.                                                   *)

\* PrevHash of every event is the hash of the event before it.
LinkOK(n) == slot[n].prev = IF n = 0 THEN Genesis ELSE HashAt(n - 1)

Linked == \A n \in Seqs : Taken(n) => LinkOK(n)

\* verifyShard: the events are listed, read and checked against each other,
ListEvents ==
    /\ listed = NoHash /\ Tip # NoHash
    /\ listed' = Tip
    /\ said' = said \cup (IF Linked THEN {} ELSE {"break"})
    /\ NoFault
    /\ UNCHANGED <<world, slot, pointer, anchors, append>>

\* and then the tip is compared with the head pointer.
ComparePointer ==
    /\ listed # NoHash
    /\ said' = said \cup
         CASE pointer = NoHash         -> {"missing"}
           [] pointer.seq > listed.seq -> {"truncated"}
           [] pointer.seq = listed.seq /\ pointer # listed -> {"replaced"}
           [] OTHER                    -> {}
    /\ listed' = NoHash
    /\ NoFault
    /\ UNCHANGED <<world, slot, pointer, anchors, append>>

\* anchorShard: what head() returns goes to the transparency log.
Anchor ==
    /\ LET h == IF Present(pointer) THEN pointer ELSE Tip IN
       /\ h # NoHash /\ h \notin anchors
       /\ anchors' = anchors \cup {h}
    /\ NoFault
    /\ UNCHANGED <<world, slot, pointer, append, verifier>>

-----------------------------------------------------------------------------
AppendStep(e) ==
    \/ Begin(e) \/ ReadPointer(e) \/ CheckPointer(e) \/ Walk(e)
    \/ Probe(e) \/ Put(e) \/ Overwrite(e) \/ ReadBack(e) \/ Lost(e) \/ Point(e)

AppendFault(e) ==
    ProbeFails(e) \/ PutUnanswered(e) \/ StepFails(e) \/ ReadBackFails(e) \/ PointFails(e) \/ Crash(e)

Next ==
    \/ \E e \in Events : AppendStep(e) \/ AppendFault(e)
    \/ ListEvents \/ ComparePointer \/ Anchor

Spec == Init /\ [][Next]_vars

-----------------------------------------------------------------------------
(* Properties.                                                               *)

Findings == {"break", "missing", "truncated", "replaced"}

\* Every variable has its type; in particular Append's loop never goes past
\* maxAppendAttempts.
TypeOK ==
    /\ world \in Worlds
    /\ slot \in [Seqs -> Bodies \cup {Empty}]
    /\ pointer \in Hashes \cup {NoHash}
    /\ anchors \subseteq Hashes
    /\ pc \in [Events -> Under \cup {"new", "ok", "failed", "gaveup", "dead"}]
    /\ seq \in [Events -> 0 .. MaxSeq + 1]
    /\ prev \in [Events -> Hashes \cup {Genesis}]
    /\ hint \in [Events -> Hashes \cup {NoHash}]
    /\ attempts \in [Events -> 0 .. MaxAttempts]
    /\ listed \in Hashes \cup {NoHash} /\ said \subseteq Findings
    /\ faults \in 0 .. MaxFaults

\* An event whose Append returned without an error is in the log, though
\* others raced it for its slot, started from a stale head pointer, or died.
AckedKept == \A e \in Events : pc[e] = "ok" => Present([id |-> e, seq |-> seq[e]])

\* The log is one chain: no fork, no gap, every event links to the one before
\* it.  VerifyChain never reports a break of it.
OneChain ==
    /\ Linked
    /\ \A n \in Seqs : Taken(n) /\ n > 0 => Taken(n - 1)
    /\ "break" \notin said

\* What the head pointer and the transparency log record is in the chain: a
\* verification that starts after the last Append, and VerifyAnchor at any
\* time, find nothing missing and nothing replaced.
WitnessesHold ==
    /\ pointer # NoHash => Present(pointer)
    /\ \A h \in anchors : Present(h)

\* verifyShard reports a shard as truncated when "the chain has been cut off
\* at the end, or its head event replaced" (audit/audit.go:1013).
NoFalseAlarm == said \cap {"truncated", "replaced"} = {}

\* "each iteration advances seq past a slot we observed taken, so the loop is
\* bounded by the number of concurrent appenders" (audit/audit.go:456): an
\* Append that runs alone meets at most one taken slot.
BoundedByAppenders == ~world.concurrent => \A e \in Events : attempts[e] <= 1
=============================================================================
