----------------------------- MODULE MCApprovals -----------------------------
(* Instances of Approvals for TLC. *)
EXTENDS Approvals, TLC

CONSTANTS r1, r2, k1, k2, k3, del, shred

\* r1 is filed as the policy wants it; r2 names an approver of its own and asks
\* for a single vote.
Named == r1 :> {k1, k2} @@ r2 :> {k1, k3}
Asked == r1 :> 2 @@ r2 :> 1
Ops == r1 :> del @@ r2 :> del
Symmetry == Permutations(Gates)
=============================================================================
