--------------------------- MODULE MCManifestChain ---------------------------
(***************************************************************************)
(* Small instances of ManifestChain for TLC.                                 *)
(***************************************************************************)
EXTENDS ManifestChain, TLC

\* A full backup and an incremental.
Pair == <<0, 1>>

\* A full backup, an incremental on it, an incremental on that one.
Chain == <<0, 1, 2>>

\* The same chain as Chain, whose incrementals' IDs sort the other way round.
Inverted == <<0, 3, 1>>

\* The operations whose races leave a chain whole; the third are deletes
\* alone, the last are deletes against holds.
Races ==
    {{"commit", "delete", "batch", "gc", "fault", "crash"},
     {"commit", "delete", "undelete", "force", "gc", "fault", "crash"},
     {"delete", "batch", "cascade", "crash"},
     {"delete", "cascade", "hold", "release", "lapse", "fault"}}

Symmetric == Permutations(Ops) \cup Permutations(Holders)
=============================================================================
