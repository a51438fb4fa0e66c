------------------------------ MODULE MCWALSink ------------------------------
(* Instances of WALSink for TLC. *)
EXTENDS WALSink

CONSTANTS a, b

\* Neighbouring segments share a chunk.
Sharing == [s \in Segs |-> IF s = 1 THEN {a, b} ELSE IF s = 2 THEN {b} ELSE {a}]
=============================================================================
