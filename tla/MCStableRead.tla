------------------------------ MODULE MCStableRead ------------------------------
(***************************************************************************)
(* Small instances of StableRead: files of at most two blocks over two     *)
(* block values, so that a torn read is a sequence of two different ones.  *)
(***************************************************************************)
EXTENDS StableRead, SequencesExt

MCContents == BoundedSeq(Blocks, 2)
MCLength   == [c \in Contents |-> Len(c)]

Symmetric == Permutations(Inodes) \cup Permutations(Blocks)

=============================================================================
