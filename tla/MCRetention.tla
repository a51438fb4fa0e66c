----------------------------- MODULE MCRetention -----------------------------
(* Instances of Retention for TLC. *)
EXTENDS Retention

\* A policy of each kind, each as eager to delete as it can be configured.
Eager == {[kind |-> "simple", keepFor |-> 0],
          [kind |-> "count", keep |-> 1],
          [kind |-> "gfs", buckets |-> {<<1, 1>>, <<2, 1>>}]}
=============================================================================
