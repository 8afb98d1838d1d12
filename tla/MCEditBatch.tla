------------------------------ MODULE MCEditBatch ------------------------------
(***************************************************************************)
(* Batches against the texts whose boundaries are hard: an empty text (one *)
(* empty line), one that ends in LF (its last line is empty, so two        *)
(* boundaries share a byte) and one that does not.                         *)
(***************************************************************************)
EXTENDS EditBatch

CONSTANT Sizes

EmptyText    == [starts |-> <<0>>, len |-> 0]
Terminated   == [starts |-> <<0, 2>>, len |-> 2]
Unterminated == [starts |-> <<0, 2, 3>>, len |-> 4]

MCTexts == {EmptyText, Terminated, Unterminated}

Boundaries(t) == {PositionOf(t, o) : o \in Ordinals(t)}

(* Past the end, and a line with another line's byte.                      *)
BadPositions(t) == {[line |-> LineCount(t) + 2, byte |-> t.len], [line |-> 1, byte |-> 2]}

Op(from, to, n) == [start |-> from, end |-> to, size |-> n, nul |-> FALSE]

GoodOps(t) == {Op(p, q, n) : p \in Boundaries(t), q \in Boundaries(t), n \in Sizes}
BadOps(t) ==
  LET top == PositionOf(t, 0) IN
  {Op(top, p, 1) : p \in BadPositions(t)} \cup {Op(p, top, 1) : p \in BadPositions(t)}
    \cup {[Op(top, top, 1) EXCEPT !.nul = TRUE]}

MCOperations == [t \in MCTexts |-> GoodOps(t) \cup BadOps(t)]

(* Batches against the empty text are also one operation too long.         *)
MCBatchSize == [t \in MCTexts |-> IF t = EmptyText THEN 4 ELSE 3]

===============================================================================
