----------------------------- MODULE MCDfsLink -----------------------------
(***************************************************************************)
(* Instances of DfsLink for TLC: one name of every length up to the thirty  *)
(* bytes of MAX_DFS_NAME_LEN, its bytes pairwise different.                 *)
(***************************************************************************)
EXTENDS DfsLink

NameOfLength(l) == [i \in 1 .. l |-> 96 + i]

AllLengths == {NameOfLength(l) : l \in 1 .. 30}

\* The first id, the last one below the wrap, and the wrap to 0.
SomeCounters == {0, 255, 256}
=============================================================================
