---------------------------- MODULE MCSnapshotCache ----------------------------
(***************************************************************************)
(* Small instances of SnapshotCache: two contents of one byte, which a     *)
(* stamp cannot tell apart within a tick, and one of two bytes, which the  *)
(* smaller shard has no room for beside another.                           *)
(***************************************************************************)
EXTENDS SnapshotCache, TLC

CONSTANTS a, b, w

OneSize    == [c \in Contents |-> 1]
ThreeSizes == [c \in Contents |-> CASE c = a -> 1 [] c = w -> 2 [] c = b -> 3]

Symmetric == Permutations(Readers) \cup Permutations(Publishers) \cup Permutations(Inodes)

=============================================================================
