------------------------------ MODULE DurableLog ------------------------------
(***************************************************************************)
(* What `wal stream` promises PostgreSQL, whatever it is made of: a log that *)
(* is archived in order from Base on, and a source that gives up a prefix of *)
(* it only once the archive holds that prefix for good.                      *)
(***************************************************************************)
EXTENDS Naturals

CONSTANTS
    Base,   \* where the archive begins
    End     \* where the part of the log that can be archived ends

VARIABLES
    archived,   \* the log up to here survives everything
    given       \* the source has been told it may drop the log up to here

vars == <<archived, given>>

Init == archived = Base /\ given = Base

\* The archive grows, by as much as became safe together, or takes back what
\* the source still has.
Archive ==
    /\ archived' \in given .. End
    /\ UNCHANGED given

\* The source learns a position the archive reaches.
Acknowledge ==
    /\ given' \in Base .. archived
    /\ UNCHANGED archived

Next == Archive \/ Acknowledge

\* In the end all of it is archived.  The source need not hear of the last
\* part: what it is told follows later progress.
AllKept == <>[](archived = End)

Safe == Init /\ [][Next]_vars
Spec == Safe /\ AllKept
=============================================================================
