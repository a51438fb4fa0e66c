----------------------------- MODULE MCJobQueue -----------------------------
(* Instances of JobQueue for TLC. *)
EXTENDS JobQueue, TLC

\* Every agent manages every deployment and has every executor.
ServeAll == [a \in Agents |-> Jobs]

Symmetry == Permutations(Agents) \cup Permutations(ControlPlanes)
=============================================================================
