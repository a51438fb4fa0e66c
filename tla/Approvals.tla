------------------------------ MODULE Approvals ------------------------------
(***************************************************************************)
(* Approval requests for destructive operations (approval/approval.go,       *)
(* approval/policy.go): filing, voting, revoking, recording expiry, and the  *)
(* gate that redeems a request.  A request is three kinds of objects in the  *)
(* repository: its body, which Revoke and SweepExpired read and write back   *)
(* whole, a vote per approver, and the marker that it was redeemed.  Any     *)
(* number of commands run at the same time, on different hosts.              *)
(***************************************************************************)
EXTENDS Integers, FiniteSets

CONSTANTS
    Requests,
    Keys,           \* approvers, by fingerprint
    Targets,        \* an operation and what it is applied to
    Allow,          \* Allow[r]: the approver keys request r names
    Threshold,      \* Threshold[r]: the approvals it asks for
    For,            \* For[r]: its op and target
    Trusted,        \* the roster of the operator's policy
    MinThreshold,   \* and its minimum
    Gates,          \* calls of Gate
    Revokes,        \* calls of Revoke
    Sweeps,         \* calls of SweepExpired, and how far ahead their clock is
    Skew,
    TTL, MaxTime,   \* a request's time to live, and the bound on time
    ConditionalPut, \* the storage plugin writes IfNotExists atomically
    NoRequest

ASSUME ApprovalAssumption ==
    /\ IsFiniteSet(Keys) /\ IsFiniteSet(Gates)
    /\ Allow \in [Requests -> SUBSET Keys]
    /\ Threshold \in [Requests -> Nat \ {0}]
    /\ For \in [Requests -> Targets]
    /\ Trusted \subseteq Keys /\ MinThreshold \in Nat \ {0}
    /\ Skew \in Nat /\ TTL \in Nat /\ MaxTime \in Nat
    /\ ConditionalPut \in BOOLEAN
    /\ NoRequest \notin Requests

VARIABLES
    now,
    filed,      \* requests whose body is there
    revoked,    \* bodies with RevokedAt
    stamped,    \* bodies with ExpiredAt
    votes,      \* votes[r]
    consumed,   \* requests with a consumption marker
    voting,     \* Approve calls that have passed their checks
    gate,       \* gate[g]: a call of Gate
    revoke,     \* revoke[v]: a call of Revoke, and the ExpiredAt it read
    sweep,      \* sweep[s]: SweepExpired at a request, whose RevokedAt it read
    recalled    \* requests for which a Revoke has returned

body == <<filed, revoked, stamped>>
vars == <<now, body, votes, consumed, voting, gate, revoke, sweep, recalled>>

NoGate == [pc |-> "new", req |-> NoRequest, wants |-> NoRequest, revoked |-> FALSE, late |-> FALSE]
NoRMW == [pc |-> "new", req |-> NoRequest, kept |-> FALSE]

Init ==
    /\ now = 0
    /\ filed = {} /\ revoked = {} /\ stamped = {}
    /\ votes = [r \in Requests |-> {}]
    /\ consumed = {} /\ voting = {} /\ recalled = {}
    /\ gate = [g \in Gates |-> NoGate]
    /\ revoke = [v \in Revokes |-> NoRMW]
    /\ sweep = [s \in Sweeps |-> NoRMW]

Tick ==
    /\ now < MaxTime
    /\ now' = now + 1
    /\ UNCHANGED <<body, votes, consumed, voting, gate, revoke, sweep, recalled>>

Expired(clock) == clock > TTL

\* validApprovers: votes of keys that the request does not name do not count.
ValidApprovers(r) == votes[r] \cap Allow[r]

\* computeStatus, of a body that was read with or without RevokedAt.
Status(r, isRevoked, clock) ==
    IF isRevoked THEN "revoked"
    ELSE IF r \in consumed THEN "approved"
    ELSE IF Expired(clock) THEN "expired"
    ELSE IF Cardinality(ValidApprovers(r)) >= Threshold[r] THEN "approved"
    ELSE "pending"

-----------------------------------------------------------------------------
\* Create.  Only a Store with a policy checks the keys and the threshold here.
Create(r) ==
    /\ r \notin filed
    /\ filed' = filed \cup {r}
    /\ UNCHANGED <<now, revoked, stamped, votes, consumed, voting, gate, revoke, sweep, recalled>>

\* Get knows the requests that have a body.
Known(r) == r \in filed

\* Approve: the checks,
Approve(k, r) ==
    /\ Known(r) /\ k \in Allow[r]
    /\ k \notin votes[r]
    /\ Status(r, r \in revoked, now) \notin {"revoked", "expired"}
    /\ voting' = voting \cup {<<k, r>>}
    /\ UNCHANGED <<now, body, votes, consumed, gate, revoke, sweep, recalled>>

\* and the vote, under a key of its own.
Vote(k, r) ==
    /\ <<k, r>> \in voting
    /\ voting' = voting \ {<<k, r>>}
    /\ votes' = [votes EXCEPT ![r] = @ \cup {k}]
    /\ UNCHANGED <<now, body, consumed, gate, revoke, sweep, recalled>>

\* A body is written back: the one field the caller sets, the other as it was read.
With(S, r, there) == IF there THEN S \cup {r} ELSE S \ {r}

\* Revoke reads the body,
ReadRevoke(v, r) ==
    /\ revoke[v].pc = "new" /\ Known(r)
    /\ IF r \in revoked
       THEN /\ revoke' = [revoke EXCEPT ![v] = [pc |-> "done", req |-> r, kept |-> FALSE]]
            /\ recalled' = recalled \cup {r}
       ELSE /\ revoke' = [revoke EXCEPT ![v] = [pc |-> "write", req |-> r, kept |-> r \in stamped]]
            /\ UNCHANGED recalled
    /\ UNCHANGED <<now, body, votes, consumed, voting, gate, sweep>>

\* and writes it back with RevokedAt.
WriteRevoke(v) ==
    LET r == revoke[v].req IN
    /\ revoke[v].pc = "write"
    /\ revoked' = revoked \cup {r}
    /\ stamped' = With(stamped, r, revoke[v].kept)
    /\ revoke' = [revoke EXCEPT ![v].pc = "done"]
    /\ recalled' = recalled \cup {r}
    /\ UNCHANGED <<now, filed, votes, consumed, voting, gate, sweep>>

\* SweepExpired reads a request that is not recorded as expired and not redeemed,
ReadSweep(s, r) ==
    /\ sweep[s].pc = "new" /\ Known(r)
    /\ r \notin stamped \cup consumed
    /\ sweep' = [sweep EXCEPT ![s] = [pc |-> "write", req |-> r, kept |-> r \in revoked]]
    /\ UNCHANGED <<now, body, votes, consumed, voting, gate, revoke, recalled>>

\* Mutant: what was read is not looked at.
Unredeemed(s) == TRUE

\* goes on if what it read is past its TTL and not revoked,
Lapsed(s) == ~sweep[s].kept /\ Expired(now + Skew)

\* writes it back with ExpiredAt,
WriteSweep(s) ==
    LET r == sweep[s].req IN
    /\ sweep[s].pc = "write" /\ Lapsed(s)
    /\ stamped' = stamped \cup {r}
    /\ revoked' = With(revoked, r, sweep[s].kept)
    /\ sweep' = [sweep EXCEPT ![s] = NoRMW]
    /\ UNCHANGED <<now, filed, votes, consumed, voting, gate, revoke, recalled>>

\* or leaves it; the next call may come to any request.
SkipSweep(s) ==
    /\ sweep[s].pc = "write" /\ ~Lapsed(s)
    /\ sweep' = [sweep EXCEPT ![s] = NoRMW]
    /\ UNCHANGED <<now, body, votes, consumed, voting, gate, revoke, recalled>>

-----------------------------------------------------------------------------
(* Gate.                                                                     *)

\* Get reads the body first.
ReadGate(g, r, wanted) ==
    /\ gate[g].pc = "new" /\ Known(r)
    /\ gate' = [gate EXCEPT ![g] = [pc |-> "judge", req |-> r, wants |-> wanted,
                                    revoked |-> r \in revoked, late |-> r \in recalled]]
    /\ UNCHANGED <<now, body, votes, consumed, voting, revoke, sweep, recalled>>

\* trustedApprovals
TrustedApprovals(r) == ValidApprovers(r) \cap Trusted

\* requiredApprovals
Required(r) == IF Threshold[r] > MinThreshold THEN Threshold[r] ELSE MinThreshold

\* Mutant: the request's own approvers and threshold decide.
AnyApprovals(r) == Cardinality(ValidApprovers(r)) >= Threshold[r]

\* The operator's policy: the roster's votes count, and the higher threshold.
PolicyMet(r) == Trusted # {} /\ Cardinality(TrustedApprovals(r)) >= Required(r)

\* Then the votes and the marker; all conditions are judged on that.
Permits(g) ==
    LET r == gate[g].req IN
    /\ Status(r, gate[g].revoked, now) = "approved"
    /\ r \notin consumed
    /\ For[r] = gate[g].wants
    /\ PolicyMet(r)

Judge(g) ==
    /\ gate[g].pc = "judge"
    /\ gate' = [gate EXCEPT ![g].pc = IF Permits(g) THEN "consume" ELSE "refused"]
    /\ UNCHANGED <<now, body, votes, consumed, voting, revoke, sweep, recalled>>

\* Mutant: ErrAlreadyExists is taken for success.
AlwaysFirst(g) == TRUE

\* The marker's IfNotExists.
FirstToConsume(g) == gate[g].req \notin consumed \/ ~ConditionalPut

\* The marker is written once; whoever wrote it goes on with the operation.
Consume(g) ==
    /\ gate[g].pc = "consume"
    /\ consumed' = consumed \cup {gate[g].req}
    /\ gate' = [gate EXCEPT ![g].pc = IF FirstToConsume(g) THEN "go" ELSE "refused"]
    /\ UNCHANGED <<now, body, votes, voting, revoke, sweep, recalled>>

\* The marker's Put fails, or is not answered: the operation does not go on.
ConsumeFails(g) ==
    /\ gate[g].pc = "consume"
    /\ consumed' \in {consumed, consumed \cup {gate[g].req}}
    /\ gate' = [gate EXCEPT ![g].pc = "refused"]
    /\ UNCHANGED <<now, body, votes, voting, revoke, sweep, recalled>>

Next ==
    \/ Tick
    \/ \E r \in Requests : Create(r)
    \/ \E k \in Keys, r \in Requests : Approve(k, r) \/ Vote(k, r)
    \/ \E v \in Revokes : WriteRevoke(v) \/ \E r \in Requests : ReadRevoke(v, r)
    \/ \E s \in Sweeps : WriteSweep(s) \/ SkipSweep(s) \/ \E r \in Requests : ReadSweep(s, r)
    \/ \E g \in Gates : \/ \E r \in Requests, wanted \in Targets : ReadGate(g, r, wanted)
                        \/ Judge(g) \/ Consume(g) \/ ConsumeFails(g)

Spec == Init /\ [][Next]_vars

-----------------------------------------------------------------------------
(* Properties.                                                               *)

\* Every variable has its type, and only a request that was filed is revoked,
\* stamped or consumed: nothing acts on an ID that Get does not know.
TypeOK ==
    /\ now \in 0 .. MaxTime
    /\ \A part \in {filed, revoked, stamped, consumed, recalled} : part \subseteq Requests
    /\ revoked \cup stamped \cup consumed \subseteq filed
    /\ votes \in [Requests -> SUBSET Keys]
    /\ voting \subseteq Keys \X Requests
    /\ gate \in [Gates -> [pc : {"new", "judge", "consume", "go", "refused"}, req : Requests \cup {NoRequest},
                           wants : Targets \cup {NoRequest}, revoked : BOOLEAN, late : BOOLEAN]]
    /\ revoke \in [Revokes -> [pc : {"new", "write", "done"}, req : Requests \cup {NoRequest}, kept : BOOLEAN]]
    /\ sweep \in [Sweeps -> [pc : {"new", "write"}, req : Requests \cup {NoRequest}, kept : BOOLEAN]]

Went(r) == {g \in Gates : gate[g].pc = "go" /\ gate[g].req = r}

\* An approval is redeemed at most once, by however many commands that read it
\* as approved and not redeemed at the same time (Gate's consumption marker).
SingleUse == \A r \in Requests : \A g, h \in Went(r) : g = h

\* A command goes on only with a request for its own operation and target that
\* has a quorum of the operator's roster behind it, whatever approvers and
\* threshold the request itself names.
QuorumBehind ==
    \A r \in Requests : \A g \in Went(r) :
       /\ gate[g].wants = For[r]
       /\ Cardinality(votes[r] \cap Allow[r] \cap Trusted) >= Required(r)

\* A request whose Revoke has returned is refused by every Gate that begins
\* later, though SweepExpired may write a body back that it read before.
RevokedStaysRefused ==
    \A g \in Gates : gate[g].pc = "go" => ~gate[g].late
=============================================================================
