---------------------------- MODULE MCGuardedWrite ----------------------------
(***************************************************************************)
(* Small instances of GuardedWrite: one directory entry, doc, with one or  *)
(* two spellings, the empty string and two contents of equal length (the  *)
(* case a stamp cannot tell apart within one tick).                        *)
(***************************************************************************)
EXTENDS GuardedWrite, TLC

CONSTANTS blank, a, b, doc, n1, n2

MCContents == {blank, a, b}
MCLength   == (blank :> 0) @@ (a :> 1) @@ (b :> 1)

OneName  == (n1 :> doc)
TwoNames == (n1 :> doc) @@ (n2 :> doc)

Edit(n, from, to)  == [op |-> "edit", name |-> n, expect |-> from, new |-> to]
Write(n, from, to) == [op |-> "write", name |-> n, expect |-> from, new |-> to]

(* Creates, replaces and edits that meet on one file, among them the       *)
(* round trip a -> b -> a and the edit that creates a missing file.        *)
MixedJobs ==
  {Write(n1, Absent, a), Write(n1, a, b), Edit(n1, b, a), Edit(n1, blank, b)}

(* No edit that creates.                                                   *)
GuardedJobs ==
  {Write(n1, Absent, a), Write(n1, a, b), Edit(n1, a, b), Edit(n1, b, a)}

CreatingEdits == {Edit(n1, blank, a), Edit(n1, blank, b)}

AliasJobs == {Edit(n1, a, b), Edit(n2, a, blank)}

Symmetric == Permutations(Reqs) \cup Permutations(Inodes)

=============================================================================
