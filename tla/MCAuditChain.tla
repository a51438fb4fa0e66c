---------------------------- MODULE MCAuditChain ----------------------------
(* Instances of AuditChain for TLC. *)
EXTENDS AuditChain, TLC

\* Appends race where the plugin is atomic, and follow each other where it is not.
Promised == {[puts |-> "atomic", concurrent |-> TRUE], [puts |-> "checked", concurrent |-> FALSE]}

Atomic == {[puts |-> "atomic", concurrent |-> TRUE]}

\* An sftp server without hard links.
Checked == {[puts |-> "checked", concurrent |-> TRUE]}

\* One Append at a time.
Serial == {[puts |-> "atomic", concurrent |-> FALSE]}

\* An S3 endpoint that ignores If-None-Match, and one Append at a time.
Blind == {[puts |-> "blind", concurrent |-> FALSE]}

Symmetry == Permutations(Events)
=============================================================================
