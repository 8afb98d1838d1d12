---------------------------- MODULE EditBatch_proofs ----------------------------
(***************************************************************************)
(* Proofs about EditBatch, for any text and any batch: the splice never    *)
(* goes back, the answer is the reference's, and the text that is written  *)
(* is the one that was asked for.                                          *)
(***************************************************************************)
EXTENDS EditBatch, FiniteSetTheorems, SequenceTheorems, WellFoundedInduction, TLAPS

(* Boundaries in order are bytes in order.  The converse fails: the start  *)
(* of an empty last line and the terminal boundary share a byte.           *)
LEMMA ByteAtMonotonic ==
  ASSUME NEW t, IsText(t), NEW m \in Ordinals(t), NEW n \in Ordinals(t), m <= n
  PROVE  ByteAt(t, m) \in 0 .. t.len /\ ByteAt(t, m) <= ByteAt(t, n)
  <1> USE DEF IsText, Ordinals, LineCount
  <1>1. /\ Len(t.starts) \in Nat \ {0}
        /\ \A i \in 1 .. Len(t.starts) : t.starts[i] \in Nat
    OBVIOUS
  <1>2. ASSUME NEW i \in 1 .. Len(t.starts), NEW j \in 1 .. Len(t.starts), i <= j
        PROVE  t.starts[i] <= t.starts[j]
    <2>1. CASE i = j
      BY <1>1, <2>1
    <2>2. CASE i < j
      BY <1>1, <2>2
    <2> QED
      BY <1>1, <1>2, <2>1, <2>2
  <1>3. \A i \in 1 .. Len(t.starts) : t.starts[i] <= t.len
    BY <1>1, <1>2
  <1> QED
    BY <1>1, <1>2, <1>3 DEF ByteAt

(* The overlap test does not depend on the order of its arguments.         *)
LEMMA OverlapIsSymmetric ==
  ASSUME NEW i, NEW j, Overlaps(i, j)
  PROVE  Overlaps(j, i)
BY DEF Overlaps

(* What resolving an operation establishes.                                *)
Resolved(i) ==
  /\ Start(i) \in Ordinals(source) /\ End(i) \in Ordinals(source)
  /\ Start(i) <= End(i)
  /\ StartByte(i) = ByteAt(source, Start(i))
  /\ EndByte(i) = ByteAt(source, End(i))

Request ==
  /\ source \in Texts
  /\ batch \in Seq(Operation)
  /\ next \in 1 .. Len(batch) + 1

Sorted ==
  /\ order \in [Indices -> Indices]
  /\ \A k, l \in Indices : k < l => Precedes(order[k], order[l])

SpliceInv ==
  /\ Request
  /\ pass = "resolve" => next \in Indices /\ \A i \in 1 .. next - 1 : Resolved(i)
  /\ pass \in {"overlap", "size", "splice"} => \A i \in Indices : Resolved(i)
  /\ pass \in {"size", "splice"} => \A i, j \in Indices : i < j => ~Overlaps(i, j)
  /\ pass = "splice" => Sorted /\ cursor \in Nat /\ CursorNeverPassesAnEdit

LEMMA OperationResolves ==
  ASSUME Request, NEW i \in Indices, OperationError(i) = "none"
  PROVE  Resolved(i)
  <1>1. batch[i] \in Operation
    BY DEF Request, Indices
  <1>2. IsText(source)
    BY BatchAssumption DEF Request
  <1>3. IsBoundary(source, batch[i].start) /\ IsBoundary(source, batch[i].end)
        /\ ~(Start(i) > End(i))
    BY DEF OperationError
  <1>4. \A p \in Position : IsBoundary(source, p) =>
          Ordinal(p) \in Ordinals(source) /\ p.byte = ByteAt(source, Ordinal(p))
    BY <1>2 DEF IsBoundary, Position, Ordinal, Ordinals, LineCount, IsText
  <1>5. batch[i].start \in Position /\ batch[i].end \in Position
    BY <1>1 DEF Operation
  <1>6. Start(i) \in Ordinals(source) /\ End(i) \in Ordinals(source)
    BY <1>3, <1>4, <1>5 DEF Start, End
  <1>7. Start(i) <= End(i)
    BY <1>2, <1>3, <1>6 DEF Ordinals, LineCount, IsText
  <1> QED
    BY <1>3, <1>4, <1>5, <1>6, <1>7 DEF Resolved, Start, End, StartByte, EndByte

(* In sorted order, what an operation consumes ends before the next one    *)
(* starts.                                                                 *)
LEMMA SortedIsDisjoint ==
  ASSUME Request, NEW i \in Indices, NEW j \in Indices, Resolved(i), Resolved(j),
         Precedes(i, j), ~Overlaps(i, j)
  PROVE  /\ StartByte(i) <= StartByte(j)
         /\ ~IsInsertion(i) => EndByte(i) <= StartByte(j)
  <1>1. IsText(source)
    BY BatchAssumption DEF Request
  <1>2. Start(i) \in Int /\ Start(j) \in Int /\ End(i) \in Int /\ End(j) \in Int
    BY <1>1 DEF Resolved, Ordinals, LineCount, IsText
  <1>3. Start(i) <= Start(j)
    BY <1>2 DEF Precedes
  <1>4. ~IsInsertion(i) => End(i) <= Start(j)
    BY <1>2, <1>3 DEF Overlaps, Precedes, IsInsertion, Resolved
  <1> QED
    BY <1>1, <1>3, <1>4, ByteAtMonotonic DEF Resolved

(* Failing a pass leaves nothing to show.                                  *)
LEMMA FailKeepsSpliceInv ==
  ASSUME SpliceInv, NEW code, Fail(code)
  PROVE  SpliceInv'
  <1>1. request' = request /\ pass' \in {"validate", "done"} /\ next' = 1
    BY DEF Fail, Goto
  <1>2. source' = source /\ batch' = batch
    BY <1>1 DEF source, batch
  <1>3. 1 \in 1 .. Len(batch) + 1
    BY DEF SpliceInv, Request
  <1> QED
    BY <1>1, <1>2, <1>3 DEF SpliceInv, Request

(* What does not depend on the pass survives a step that keeps the request.*)
LEMMA RequestKept ==
  ASSUME request' = request
  PROVE  /\ source' = source /\ batch' = batch /\ Indices' = Indices
         /\ \A i : (Resolved(i))' <=> Resolved(i)
         /\ \A i, j : (Overlaps(i, j))' <=> Overlaps(i, j)
         /\ \A i, j : (Precedes(i, j))' <=> Precedes(i, j)
         /\ \A i : StartByte(i)' = StartByte(i)
  <1>1. source' = source /\ batch' = batch
    BY DEF source, batch
  <1> QED
    BY <1>1 DEF Indices, Resolved, Overlaps, Precedes, Start, End, StartByte, EndByte, IsInsertion

LEMMA SpliceStep == SpliceInv /\ [Next]_vars => SpliceInv'
  <1> SUFFICES ASSUME SpliceInv, [Next]_vars
               PROVE  SpliceInv'
    OBVIOUS
  <1>1. batch \in Seq(Operation) /\ Indices = 1 .. Len(batch) /\ Len(batch) \in Nat /\ IsText(source)
    BY BatchAssumption DEF SpliceInv, Request, Indices
  <1>2. CASE Validate
    <2>1. CASE RequestError # "none"
      BY <1>2, <2>1, FailKeepsSpliceInv DEF Validate
    <2>2. CASE RequestError = "none"
      <3>1. request' = request /\ pass' = "resolve" /\ next' = 1
        BY <1>2, <2>2 DEF Validate, Goto
      <3>2. Len(batch) > 0
        BY <1>1, <2>2 DEF RequestError
      <3> QED
        BY <1>1, <3>1, <3>2, RequestKept DEF SpliceInv, Request
    <2> QED
      BY <2>1, <2>2
  <1>3. CASE Resolve
    <2>1. CASE OperationError(next) # "none"
      BY <1>3, <2>1, FailKeepsSpliceInv DEF Resolve
    <2>2. CASE OperationError(next) = "none"
      <3>1. /\ request' = request /\ pass = "resolve"
            /\ \/ next < Len(batch) /\ next' = next + 1 /\ pass' = pass
               \/ ~(next < Len(batch)) /\ pass' = "overlap" /\ next' = 1
        BY <1>3, <2>2 DEF Resolve, Goto
      <3>2. next \in Indices /\ \A i \in 1 .. next - 1 : Resolved(i)
        BY <3>1 DEF SpliceInv
      <3>3. Resolved(next)
        BY <2>2, <3>2, OperationResolves DEF SpliceInv
      <3>4. \A i \in 1 .. next : Resolved(i)
        BY <1>1, <3>2, <3>3
      <3>5. CASE next < Len(batch)
        BY <1>1, <3>1, <3>2, <3>4, <3>5, RequestKept DEF SpliceInv, Request
      <3>6. CASE ~(next < Len(batch))
        <4>1. next = Len(batch)
          BY <1>1, <3>2, <3>6
        <4> QED
          BY <1>1, <3>1, <3>4, <3>6, <4>1, RequestKept DEF SpliceInv, Request
      <3> QED
        BY <3>5, <3>6
    <2> QED
      BY <2>1, <2>2
  <1>4. CASE OffsetsUnavailable
    BY <1>4, FailKeepsSpliceInv DEF OffsetsUnavailable
  <1>5. CASE RejectOverlaps
    <2>1. CASE \E i, j \in Indices : i < j /\ Overlaps(i, j)
      BY <1>5, <2>1, FailKeepsSpliceInv DEF RejectOverlaps
    <2>2. CASE ~ \E i, j \in Indices : i < j /\ Overlaps(i, j)
      <3>1. request' = request /\ pass = "overlap" /\ pass' = "size" /\ next' = 1
        BY <1>5, <2>2 DEF RejectOverlaps, Goto
      <3> QED
        BY <1>1, <2>2, <3>1, RequestKept DEF SpliceInv, Request
    <2> QED
      BY <2>1, <2>2
  <1>6. CASE Sort
    <2>1. CASE Predicted > MaxBytes
      BY <1>6, <2>1, FailKeepsSpliceInv DEF Sort
    <2>2. CASE ~(Predicted > MaxBytes)
      <3>1. PICK o \in [Indices -> Indices] :
              /\ \A k, l \in Indices : k < l => Precedes(o[k], o[l])
              /\ pass' = "splice" /\ next' = 1 /\ order' = o /\ cursor' = 0 /\ request' = request
        BY <1>6, <2>2 DEF Sort, Goto
      <3>2. \A i \in Indices : Resolved(i) /\ StartByte(i) \in Nat
        <4>1. \A i \in Indices : Resolved(i)
          BY <1>6 DEF Sort, SpliceInv
        <4>2. \A i \in Indices : batch[i] \in Operation
          BY <1>1
        <4> QED
          BY <4>1, <4>2 DEF StartByte, Operation, Position
      <3>3. \A i, j \in Indices : i < j => ~Overlaps(i, j)
        BY <1>6 DEF Sort, SpliceInv
      <3>4. Sorted'
        BY <3>1, RequestKept DEF Sorted
      <3>5. CursorNeverPassesAnEdit'
        BY <1>1, <3>1, <3>2, RequestKept DEF CursorNeverPassesAnEdit
      <3> QED
        BY <1>1, <3>1, <3>2, <3>3, <3>4, <3>5, RequestKept DEF SpliceInv, Request
    <2> QED
      BY <2>1, <2>2
  <1>7. CASE Splice
    <2> DEFINE i == order[next]
    <2>1. /\ pass = "splice" /\ pass' = "splice" /\ next \in Indices /\ next' = next + 1
          /\ order' = order /\ request' = request
          /\ cursor' = IF ~IsInsertion(i) THEN EndByte(i)
                       ELSE IF StartByte(i) > cursor THEN StartByte(i) ELSE cursor
      BY <1>7 DEF Splice
    <2>2. Sorted /\ cursor \in Nat /\ CursorNeverPassesAnEdit
      BY <2>1 DEF SpliceInv
    <2>3. i \in Indices /\ batch[i] \in Operation /\ Resolved(i)
      BY <1>1, <2>1, <2>2 DEF Sorted, SpliceInv
    <2>4. cursor' \in Nat
      BY <2>1, <2>2, <2>3 DEF StartByte, EndByte, Operation, Position
    <2>5. ASSUME NEW l \in next + 1 .. Len(batch)
          PROVE  cursor' <= StartByte(order[l])
      <3> DEFINE j == order[l]
      <3>1. l \in Indices /\ next < l /\ l \in next .. Len(batch)
        BY <1>1, <2>1
      <3>2. j \in Indices /\ Precedes(i, j) /\ Resolved(j)
        BY <2>1, <2>2, <3>1 DEF Sorted, SpliceInv
      <3>3. i \in Int /\ j \in Int /\ i # j
        <4>1. i \in Int /\ j \in Int
          BY <1>1, <2>3, <3>2
        <4>2. Start(i) \in Int
          BY <1>1, <2>3 DEF Resolved, Ordinals, LineCount, IsText
        <4> QED
          BY <3>2, <4>1, <4>2 DEF Precedes
      <3>4. ~Overlaps(i, j)
        <4>1. \A m, n \in Indices : m < n => ~Overlaps(m, n)
          BY <2>1 DEF SpliceInv
        <4>2. CASE i < j
          BY <2>3, <3>2, <4>1, <4>2
        <4>3. CASE j < i
          BY <2>3, <3>2, <4>1, <4>3, OverlapIsSymmetric
        <4> QED
          BY <3>3, <4>2, <4>3
      <3>5. StartByte(i) <= StartByte(j) /\ (~IsInsertion(i) => EndByte(i) <= StartByte(j))
        BY <2>3, <3>2, <3>4, SortedIsDisjoint DEF SpliceInv
      <3>6. cursor <= StartByte(j)
        BY <2>1, <2>2, <3>1 DEF CursorNeverPassesAnEdit
      <3> QED
        BY <2>1, <3>5, <3>6
    <2>6. CursorNeverPassesAnEdit'
      BY <2>1, <2>5, RequestKept DEF CursorNeverPassesAnEdit
    <2>7. Sorted'
      BY <2>1, <2>2, RequestKept DEF Sorted
    <2>8. next' \in 1 .. Len(batch) + 1
      BY <1>1, <2>1
    <2> QED
      BY <1>1, <2>1, <2>4, <2>6, <2>7, <2>8, RequestKept DEF SpliceInv, Request
  <1>8. CASE Finish
    <2>1. request' = request /\ pass' = "done" /\ next' = 1
      BY <1>8 DEF Finish, Goto
    <2> QED
      BY <1>1, <2>1, RequestKept DEF SpliceInv, Request
  <1>9. CASE UNCHANGED vars
    <2>1. UNCHANGED <<request, pass, next, order, cursor>>
      BY <1>9 DEF vars
    <2>2. Sorted' <=> Sorted
      BY <2>1, RequestKept DEF Sorted
    <2>3. CursorNeverPassesAnEdit' <=> CursorNeverPassesAnEdit
      BY <2>1, RequestKept DEF CursorNeverPassesAnEdit
    <2> QED
      BY <2>1, <2>2, <2>3, RequestKept DEF SpliceInv, Request
  <1> QED
    BY <1>2, <1>3, <1>4, <1>5, <1>6, <1>7, <1>8, <1>9 DEF Next

LEMMA SpliceInit == Init => SpliceInv
  <1> SUFFICES ASSUME Init
               PROVE  SpliceInv
    OBVIOUS
  <1>1. PICK t \in Texts, stale \in BOOLEAN :
          \E n \in 0 .. BatchSize[t] : \E edits \in [1 .. n -> Operations[t]] :
            request = [text |-> t, edits |-> edits, stale |-> stale]
    BY DEF Init
  <1>7. PICK n \in 0 .. BatchSize[t] : \E edits \in [1 .. n -> Operations[t]] :
            request = [text |-> t, edits |-> edits, stale |-> stale]
    BY <1>1
  <1>6. PICK edits \in [1 .. n -> Operations[t]] :
            request = [text |-> t, edits |-> edits, stale |-> stale]
    BY <1>7
  <1>2. source = t /\ batch = edits
    BY <1>6 DEF source, batch
  <1>3. n \in Nat /\ edits \in Seq(Operation)
    BY BatchAssumption
  <1>4. Len(edits) \in Nat
    BY <1>3
  <1> QED
    BY <1>2, <1>3, <1>4 DEF Init, SpliceInv, Request

(* The splice of an accepted batch never goes back, so no byte is kept     *)
(* twice and no slice of the source is taken backwards (which would panic):*)
(* the overlap test and the sort key together are what guarantees it.      *)
THEOREM SpliceIsForward == Spec => []CursorNeverPassesAnEdit
  <1>1. SpliceInv => CursorNeverPassesAnEdit
    BY DEF SpliceInv, CursorNeverPassesAnEdit
  <1> QED
    BY <1>1, SpliceInit, SpliceStep, PTL DEF Spec

-----------------------------------------------------------------------------

(* What TypeOK says beyond SpliceInv.                                      *)
Shape ==
  /\ request = [text |-> source, edits |-> batch, stale |-> request.stale]
  /\ batch \in Seq(Operations[source])
  /\ engine \in {"fast", "reference"}
  /\ pass \in {"validate", "resolve", "overlap", "size", "splice", "done"}
  /\ order \in Seq(Indices)
  /\ cursor \in 0 .. source.len
  /\ output \in Seq(Int)
  /\ predicted \in {0, Predicted}
  /\ answer \in Answers

(* A slice that is not taken backwards is a sequence of bytes.             *)
LEMMA SliceIsBytes ==
  ASSUME NEW from \in Nat, NEW to \in Nat, from <= to
  PROVE  Slice(from, to) \in Seq(Int)
  <1>1. to - from \in Nat
    OBVIOUS
  <1>2. \A k \in 1 .. to - from : from + k - 1 \in Int
    OBVIOUS
  <1> QED
    BY <1>1, <1>2 DEF Slice

(* An operation in the text starts and ends within it.                     *)
LEMMA ResolvedInText ==
  ASSUME Request, NEW i \in Indices, Resolved(i)
  PROVE  StartByte(i) \in 0 .. source.len /\ EndByte(i) \in 0 .. source.len
  <1>1. IsText(source)
    BY BatchAssumption DEF Request
  <1>2. \A n \in Ordinals(source) : n <= n
    BY <1>1 DEF Ordinals, LineCount, IsText
  <1> QED
    BY <1>1, <1>2, ByteAtMonotonic DEF Resolved

(* The sums are over the request alone.                                    *)
LEMMA SumsKept ==
  ASSUME request' = request
  PROVE  Predicted' = Predicted
  <1>1. source' = source /\ batch' = batch /\ Indices' = Indices
    BY DEF source, batch, Indices
  <1>2. Added' = Added
    BY <1>1 DEF Added, MapThenSumSet, MapThenFoldSet
  <1>3. Removed' = Removed
    BY <1>1 DEF Removed, StartByte, EndByte, MapThenSumSet, MapThenFoldSet
  <1> QED
    BY <1>1, <1>2, <1>3 DEF Predicted

(* The request stays, and what is said of it alone stays with it.          *)
LEMMA ShapeStep ==
  ASSUME SpliceInv, Shape, Next
  PROVE  Shape'
  <1>0. request' = request
    BY DEF Next, Validate, Resolve, OffsetsUnavailable, RejectOverlaps, Sort, Splice, Finish, Fail
  <1>1. /\ source' = source /\ batch' = batch /\ Indices' = Indices
        /\ Predicted' = Predicted
    BY <1>0, SumsKept, RequestKept
  <1>2. /\ request' = [text |-> source', edits |-> batch', stale |-> request'.stale]
        /\ batch' \in Seq(Operations[source'])
    BY <1>0, <1>1 DEF Shape
  <1>3. ASSUME NEW code \in Answers, Fail(code)
        PROVE  Shape'
    <2>1. /\ engine' \in {"fast", "reference"} /\ pass' \in {"validate", "done"}
          /\ answer' \in Answers
      BY <1>3 DEF Fail, Goto, Shape
    <2>2. UNCHANGED <<order, cursor, output, predicted>>
      BY <1>3 DEF Fail, spliceVars
    <2> QED
      BY <1>1, <1>2, <2>1, <2>2 DEF Shape
  <1>4. ASSUME UNCHANGED <<engine, spliceVars, answer>>,
               pass' \in {"resolve", "overlap", "size"}
        PROVE  Shape'
    BY <1>1, <1>2, <1>4 DEF Shape, spliceVars
  <1>5. CASE Validate
    <2>1. RequestError \in Answers \cup {"none"}
      BY DEF RequestError, Answers
    <2> QED
      BY <1>3, <1>4, <1>5, <2>1 DEF Validate, Goto
  <1>6. CASE Resolve
    <2>1. OperationError(next) \in Answers \cup {"none"}
      BY DEF OperationError, Answers
    <2> QED
      BY <1>3, <1>4, <1>6, <2>1 DEF Resolve, Goto
  <1>7. CASE OffsetsUnavailable
    BY <1>1, <1>2, <1>7 DEF OffsetsUnavailable, Fail, Goto, Shape, spliceVars
  <1>8. CASE RejectOverlaps
    BY <1>3, <1>4, <1>8 DEF RejectOverlaps, Goto, Answers
  <1>9. CASE Sort
    <2>1. CASE Fail("file_too_large")
      BY <1>3, <2>1 DEF Answers
    <2>2. CASE ~(Predicted > MaxBytes)
      <3>1. PICK o \in [Indices -> Indices] : order' = o
        BY <1>9, <2>2 DEF Sort
      <3>2. /\ pass' = "splice" /\ predicted' = Predicted /\ cursor' = 0 /\ output' = <<>>
            /\ UNCHANGED <<engine, answer>>
        BY <1>9, <2>2 DEF Sort, Goto
      <3>3. Len(batch) \in Nat
        BY DEF SpliceInv, Request
      <3>4. order' \in Seq(Indices)
        BY <3>1, <3>3 DEF Indices
      <3>5. cursor' \in 0 .. source.len
        BY <3>2, BatchAssumption DEF SpliceInv, Request, IsText
      <3> QED
        BY <1>1, <1>2, <3>2, <3>4, <3>5 DEF Shape
    <2> QED
      BY <1>9, <2>1, <2>2 DEF Sort
  <1>10. CASE Splice
    <2> DEFINE i == order[next]
    <2>1. /\ pass = "splice" /\ next \in Indices
          /\ output' = output \o Slice(cursor, StartByte(i)) \o Content(i)
          /\ cursor' = IF ~IsInsertion(i) THEN EndByte(i)
                       ELSE IF StartByte(i) > cursor THEN StartByte(i) ELSE cursor
          /\ UNCHANGED <<engine, pass, order, predicted, answer>>
      BY <1>10 DEF Splice
    <2>2. i \in Indices
      BY <2>1 DEF SpliceInv, Sorted
    <2>3. StartByte(i) \in 0 .. source.len /\ EndByte(i) \in 0 .. source.len
      BY <2>1, <2>2, ResolvedInText DEF SpliceInv
    <2>4. source.len \in Nat
      BY BatchAssumption DEF SpliceInv, Request, IsText
    <2>5. cursor' \in 0 .. source.len
      BY <2>1, <2>3, <2>4 DEF Shape
    <2>6. cursor <= StartByte(i)
      BY <2>1 DEF SpliceInv, CursorNeverPassesAnEdit, Indices, Request
    <2>7. Slice(cursor, StartByte(i)) \in Seq(Int)
      BY <2>3, <2>4, <2>6, SliceIsBytes DEF Shape
    <2>8. Content(i) \in Seq(Int)
      <3>1. batch[i] \in Operation
        BY <2>2 DEF SpliceInv, Request, Indices
      <3>2. batch[i].size \in Nat
        BY <3>1 DEF Operation
      <3>3. i \in Int
        BY <2>2 DEF Indices, SpliceInv, Request
      <3>4. Content(i) \in [1 .. batch[i].size -> Int]
        BY <3>3 DEF Content
      <3> QED
        BY <3>2, <3>4
    <2>9. output' \in Seq(Int)
      BY <2>1, <2>7, <2>8 DEF Shape
    <2> QED
      BY <1>1, <1>2, <2>1, <2>5, <2>9 DEF Shape
  <1>11. CASE Finish
    <2>1. source.len \in Nat
      BY BatchAssumption DEF SpliceInv, Request, IsText
    <2>2. Slice(cursor, source.len) \in Seq(Int)
      BY <2>1, SliceIsBytes DEF Shape
    <2> QED
      BY <1>1, <1>2, <1>11, <2>1, <2>2 DEF Finish, Goto, Shape, Answers
  <1> QED
    BY <1>5, <1>6, <1>7, <1>8, <1>9, <1>10, <1>11 DEF Next

(* Every reachable state of a batch is well typed: the splice of engine.rs *)
(* and protocol.rs stays within the source, and what it answers is one of  *)
(* their errors or ok.                                                     *)
THEOREM BatchIsTyped == Spec => []TypeOK
  <1>1. Init => Shape
    <2> SUFFICES ASSUME Init
                 PROVE  Shape
      OBVIOUS
    <2>1. PICK t \in Texts, stale \in BOOLEAN :
            \E n \in 0 .. BatchSize[t] : \E edits \in [1 .. n -> Operations[t]] :
              request = [text |-> t, edits |-> edits, stale |-> stale]
      BY DEF Init
    <2>2. PICK n \in 0 .. BatchSize[t] : \E edits \in [1 .. n -> Operations[t]] :
            request = [text |-> t, edits |-> edits, stale |-> stale]
      BY <2>1
    <2>3. PICK edits \in [1 .. n -> Operations[t]] :
            request = [text |-> t, edits |-> edits, stale |-> stale]
      BY <2>2
    <2>4. source = t /\ batch = edits /\ request.stale = stale
      BY <2>3 DEF source, batch
    <2>5. n \in Nat /\ edits \in Seq(Operations[t])
      BY BatchAssumption
    <2>6. t.len \in Nat
      BY BatchAssumption DEF IsText
    <2> QED
      BY <2>3, <2>4, <2>5, <2>6 DEF Init, Shape, Answers
  <1>2. SpliceInv /\ Shape /\ [Next]_vars => Shape'
    <2>1. ASSUME Shape, UNCHANGED vars
          PROVE  Shape'
      <3>1. UNCHANGED <<request, engine, pass, order, cursor, output, predicted, answer>>
        BY <2>1 DEF vars
      <3>2. Predicted' = Predicted /\ source' = source /\ batch' = batch /\ Indices' = Indices
        BY <3>1, SumsKept, RequestKept
      <3> QED
        BY <2>1, <3>1, <3>2 DEF Shape
    <2> QED
      BY <2>1, ShapeStep
  <1>3. SpliceInv /\ Shape => TypeOK
    BY DEF SpliceInv, Request, Shape, TypeOK
  <1> QED
    BY <1>1, <1>2, <1>3, SpliceInit, SpliceStep, PTL DEF Spec

-----------------------------------------------------------------------------

(* The overlap test is R006's, which speaks of lines.                      *)
LEMMA OverlapIsConflict ==
  ASSUME Request, NEW i \in Indices, NEW j \in Indices, Resolved(i), Resolved(j)
  PROVE  Overlaps(i, j) <=> Conflict(i, j)
  <1>1. IsText(source)
    BY BatchAssumption DEF Request
  <1>2. /\ Start(i) \in Nat /\ Start(j) \in Nat /\ End(i) \in Nat /\ End(j) \in Nat
        /\ Start(i) <= End(i) /\ Start(j) <= End(j)
    BY <1>1 DEF Resolved, Ordinals, LineCount, IsText
  <1> DEFINE si == Start(i)
             ei == End(i)
             sj == Start(j)
             ej == End(j)
  <1>3. RemovedLines(i) \cap RemovedLines(j) # {}
          <=> si < ei /\ sj < ej /\ si < ej /\ sj < ei
    <2>1. ASSUME NEW n \in RemovedLines(i) \cap RemovedLines(j)
          PROVE  si < ei /\ sj < ej /\ si < ej /\ sj < ei
      BY <1>2 DEF RemovedLines
    <2>2. ASSUME si < ei, sj < ej, si < ej, sj < ei, si <= sj
          PROVE  sj + 1 \in RemovedLines(i) \cap RemovedLines(j)
      BY <1>2, <2>2 DEF RemovedLines
    <2>3. ASSUME si < ei, sj < ej, si < ej, sj < ei, sj <= si
          PROVE  si + 1 \in RemovedLines(i) \cap RemovedLines(j)
      BY <1>2, <2>3 DEF RemovedLines
    <2>4. si <= sj \/ sj <= si
      BY <1>2
    <2> QED
      BY <2>1, <2>2, <2>3, <2>4
  <1>4. {si, si + 1} \subseteq RemovedLines(j) <=> sj < si /\ si < ej
    BY <1>2 DEF RemovedLines
  <1>5. {sj, sj + 1} \subseteq RemovedLines(i) <=> si < sj /\ sj < ei
    BY <1>2 DEF RemovedLines
  <1>6. (IsInsertion(i) <=> si = ei) /\ (IsInsertion(j) <=> sj = ej)
    BY DEF IsInsertion
  <1>7. Conflict(i, j) <=> \/ si < ei /\ sj < ej /\ si < ej /\ sj < ei
                           \/ si = ei /\ sj < si /\ si < ej
                           \/ sj = ej /\ si < sj /\ sj < ei
    BY <1>3, <1>4, <1>5, <1>6 DEF Conflict
  <1>8. Overlaps(i, j) <=> \/ si # ei /\ sj # ej /\ si < ej /\ sj < ei
                           \/ si = ei /\ sj # ej /\ sj < si /\ si < ej
                           \/ si # ei /\ sj = ej /\ si < sj /\ sj < ei
    BY <1>6 DEF Overlaps
  <1> HIDE DEF si, ei, sj, ej
  <1>9. si \in Nat /\ sj \in Nat /\ ei \in Nat /\ ej \in Nat /\ si <= ei /\ sj <= ej
    BY <1>2 DEF si, sj, ei, ej
  <1> QED
    BY <1>7, <1>8, <1>9

(* The verdict and what it is made of are the request's alone.             *)
LEMMA VerdictKept ==
  ASSUME request' = request
  PROVE  /\ RequestError' = RequestError
         /\ \A i : OperationError(i)' = OperationError(i)
         /\ Verdict' = Verdict
  <1>1. /\ source' = source /\ batch' = batch /\ Indices' = Indices
        /\ Predicted' = Predicted /\ \A i : Start(i)' = Start(i) /\ End(i)' = End(i)
    BY SumsKept DEF source, batch, Indices, Start, End
  <1>2. RequestError' = RequestError
    BY <1>1 DEF RequestError
  <1>3. \A i : OperationError(i)' = OperationError(i)
    BY <1>1 DEF OperationError
  <1>4. FirstBad' = FirstBad
    BY <1>1, <1>3 DEF FirstBad
  <1>5. \A i, j : Conflict(i, j)' <=> Conflict(i, j)
    BY <1>1 DEF Conflict, RemovedLines, IsInsertion
  <1>6. {OperationError(i) : i \in FirstBad}' = {OperationError(i) : i \in FirstBad}
    BY <1>3, <1>4
  <1> QED
    BY <1>1, <1>2, <1>3, <1>4, <1>5, <1>6 DEF Verdict

(* How far a pass has come is what it found nothing wrong with.            *)
Judged ==
  /\ engine \in {"fast", "reference"}
  /\ pass \in {"resolve", "overlap", "size", "splice"} => RequestError = "none"
  /\ pass = "resolve" => \A i \in 1 .. next - 1 : OperationError(i) = "none"
  /\ pass \in {"overlap", "size", "splice"} => \A i \in Indices : OperationError(i) = "none"
  /\ pass = "splice" => ~(Predicted > MaxBytes)
  /\ pass = "done" => answer \in Verdict

(* The fast engine hands over, and the reference answers.                  *)
LEMMA FailJudged ==
  ASSUME Judged, NEW code, Fail(code), engine = "fast" \/ code \in Verdict
  PROVE  Judged'
  <1>1. request' = request
    BY DEF Fail
  <1>2. CASE engine = "fast"
    BY <1>2 DEF Fail, Goto, Judged
  <1>3. CASE engine # "fast"
    <2>1. engine' = engine /\ pass' = "done" /\ answer' = code
      BY <1>3 DEF Fail, Goto
    <2> QED
      BY <1>1, <1>3, <2>1, VerdictKept DEF Judged
  <1> QED
    BY <1>2, <1>3

(* A batch without a bad operation and without an overlap.                 *)
LEMMA NothingBad ==
  ASSUME \A i \in Indices : OperationError(i) = "none"
  PROVE  FirstBad = {}
  BY DEF FirstBad

LEMMA JudgedStep == SpliceInv /\ Judged /\ [Next]_vars => Judged'
  <1> SUFFICES ASSUME SpliceInv, Judged, [Next]_vars
               PROVE  Judged'
    OBVIOUS
  <1>1. Len(batch) \in Nat /\ next \in 1 .. Len(batch) + 1
    BY DEF SpliceInv, Request
  <1>2. CASE UNCHANGED vars
    <2>1. UNCHANGED <<request, engine, pass, next, answer>>
      BY <1>2 DEF vars
    <2>2. Indices' = Indices /\ Predicted' = Predicted
      BY <2>1, RequestKept, SumsKept
    <2> QED
      BY <2>1, <2>2, VerdictKept DEF Judged
  <1>3. CASE Validate
    <2>1. CASE RequestError = "none" /\ Goto("resolve") /\ UNCHANGED <<request, engine>>
      BY <2>1, VerdictKept DEF Judged, Goto
    <2>2. CASE RequestError # "none" /\ Fail(RequestError)
      <3>1. RequestError \in Verdict
        BY <2>2 DEF Verdict
      <3> QED
        BY <2>2, <3>1, FailJudged
    <2> QED
      BY <1>3, <2>1, <2>2 DEF Validate
  <1>4. CASE Resolve
    <2>1. pass = "resolve" /\ RequestError = "none" /\ next \in Indices
          /\ \A i \in 1 .. next - 1 : OperationError(i) = "none"
      BY <1>4 DEF Resolve, Judged, SpliceInv
    <2>2. CASE OperationError(next) # "none" /\ Fail(OperationError(next))
      <3>1. next \in FirstBad
        BY <2>1, <2>2 DEF FirstBad
      <3>2. OperationError(next) \in Verdict
        BY <2>1, <3>1 DEF Verdict
      <3> QED
        BY <2>2, <3>2, FailJudged
    <2>3. CASE /\ OperationError(next) = "none" /\ next < Len(batch)
               /\ next' = next + 1 /\ UNCHANGED <<pass, request, engine>>
      <3>1. \A i \in 1 .. next' - 1 : OperationError(i) = "none"
        BY <1>1, <2>1, <2>3
      <3>2. \A i \in 1 .. next' - 1 : OperationError(i)' = "none"
        BY <2>3, <3>1, VerdictKept
      <3> QED
        BY <2>1, <2>3, <3>2, VerdictKept DEF Judged
    <2>4. CASE /\ OperationError(next) = "none" /\ ~(next < Len(batch))
               /\ Goto("overlap") /\ UNCHANGED <<request, engine>>
      <3>1. \A i \in Indices : OperationError(i) = "none"
        BY <1>1, <2>1, <2>4 DEF Indices
      <3>2. \A i \in Indices' : OperationError(i)' = "none"
        BY <2>4, <3>1, VerdictKept, RequestKept
      <3> QED
        BY <2>1, <2>4, <3>2, VerdictKept DEF Judged, Goto
    <2> QED
      BY <1>4, <2>2, <2>3, <2>4 DEF Resolve
  <1>5. CASE OffsetsUnavailable
    BY <1>5, FailJudged DEF OffsetsUnavailable
  <1>6. CASE RejectOverlaps
    <2>1. /\ pass = "overlap" /\ RequestError = "none" /\ FirstBad = {}
          /\ \A i \in Indices : OperationError(i) = "none" /\ Resolved(i)
      BY <1>6, NothingBad DEF RejectOverlaps, Judged, SpliceInv
    <2>2. CASE Fail("overlapping_edits") /\ \E i, j \in Indices : i < j /\ Overlaps(i, j)
      <3>1. \E i, j \in Indices : i < j /\ Conflict(i, j)
        BY <2>1, <2>2, OverlapIsConflict DEF SpliceInv
      <3>2. "overlapping_edits" \in Verdict
        BY <2>1, <3>1 DEF Verdict
      <3> QED
        BY <2>2, <3>2, FailJudged
    <2>3. CASE Goto("size") /\ UNCHANGED <<request, engine>>
      <3>1. \A i \in Indices' : OperationError(i)' = "none"
        BY <2>1, <2>3, VerdictKept, RequestKept
      <3> QED
        BY <2>1, <2>3, <3>1, VerdictKept DEF Judged, Goto
    <2> QED
      BY <1>6, <2>2, <2>3 DEF RejectOverlaps
  <1>7. ASSUME pass \in {"size", "splice"}
        PROVE  /\ RequestError = "none" /\ FirstBad = {}
               /\ ~ \E i, j \in Indices : i < j /\ Conflict(i, j)
               /\ \A i \in Indices : OperationError(i) = "none"
    BY <1>7, NothingBad, OverlapIsConflict DEF Judged, SpliceInv
  <1>8. CASE Sort
    <2>1. CASE Predicted > MaxBytes /\ Fail("file_too_large")
      <3>1. "file_too_large" \in Verdict
        BY <1>7, <1>8, <2>1 DEF Verdict, Sort
      <3> QED
        BY <2>1, <3>1, FailJudged
    <2>2. CASE /\ ~(Predicted > MaxBytes) /\ Goto("splice")
               /\ UNCHANGED <<request, engine>> /\ pass = "size"
      <3>1. \A i \in Indices' : OperationError(i)' = "none"
        BY <1>7, <2>2, VerdictKept, RequestKept
      <3>2. Predicted' = Predicted
        BY <2>2, SumsKept
      <3> QED
        BY <1>7, <2>2, <3>1, <3>2, VerdictKept DEF Judged, Goto
    <2> QED
      BY <1>8, <2>1, <2>2 DEF Sort
  <1>9. CASE Splice
    <2>1. pass = "splice" /\ UNCHANGED <<request, engine, pass>>
      BY <1>9 DEF Splice
    <2>2. \A i \in Indices' : OperationError(i)' = "none"
      BY <1>7, <2>1, VerdictKept, RequestKept
    <2>3. Predicted' = Predicted
      BY <2>1, SumsKept
    <2> QED
      BY <2>1, <2>2, <2>3, VerdictKept DEF Judged
  <1>10. CASE Finish
    <2>1. pass = "splice" /\ UNCHANGED <<request, engine>> /\ pass' = "done" /\ answer' = "ok"
      BY <1>10 DEF Finish, Goto
    <2>2. ~(Predicted > MaxBytes)
      BY <2>1 DEF Judged
    <2>3. "ok" \in Verdict
      BY <1>7, <2>1, <2>2 DEF Verdict
    <2> QED
      BY <2>1, <2>3, VerdictKept DEF Judged
  <1> QED
    BY <1>2, <1>3, <1>4, <1>5, <1>6, <1>8, <1>9, <1>10 DEF Next

(* Whatever stops the fast engine, and wherever, what the client is told   *)
(* is a function of its request: the first error in the reference's order, *)
(* and an error exactly for the batches that R006 rejects (try_fast        *)
(* returning None, then apply_versioned_reference_edits).                  *)
THEOREM AnswersAreTheReferences == Spec => []AnswerIsTheReferences
  <1>1. Init => Judged
    BY DEF Init, Judged
  <1>2. Judged => AnswerIsTheReferences
    BY DEF Judged, AnswerIsTheReferences
  <1> QED
    BY <1>1, <1>2, SpliceInit, SpliceStep, JudgedStep, PTL DEF Spec

-----------------------------------------------------------------------------
(* Minima, sums over sets and flattened sequences                          *)

(* A set of naturals with an element has a least one.                      *)
LEMMA Least ==
  ASSUME NEW T \in SUBSET Nat, T # {}
  PROVE  \E n \in T : \A m \in T : n <= m
  <1> DEFINE Less == {ss \in Nat \X Nat : ss[1] < ss[2]}
  <1>1. IsWellFoundedOn(Less, Nat)
    BY NatLessThanWellFounded DEF OpToRel
  <1> HIDE DEF Less
  <1>2. PICK n \in T : \A m \in T : ~(<<m, n>> \in Less)
    BY <1>1, WFMin
  <1>3. \A m \in T : ~(m < n)
    BY <1>2 DEF Less
  <1> QED
    BY <1>2, <1>3

(* A property of 0 that is handed on holds up to n: S is where it holds.   *)
LEMMA Reaches ==
  ASSUME NEW n \in Nat, NEW S, 0 \in S, \A j \in 1 .. n : j - 1 \in S => j \in S
  PROVE  0 .. n \subseteq S
  <1> DEFINE Bad == (0 .. n) \ S
  <1> SUFFICES ASSUME Bad # {} PROVE FALSE
    OBVIOUS
  <1>0. Bad \in SUBSET Nat
    OBVIOUS
  <1>1. PICK j \in Bad : \A i \in Bad : j <= i
    <2> HIDE DEF Bad
    <2> QED BY <1>0, Least
  <1>2. j \in 1 .. n /\ j - 1 \in 0 .. n /\ j - 1 \notin Bad
    BY <1>1
  <1> QED
    BY <1>1, <1>2

(* Sums over finite sets, by well-founded induction on the subsets of a    *)
(* set, with the property of a subset given as the set that has it.        *)

LEMMA SubsetInduction ==
  ASSUME NEW S, IsFiniteSet(S), NEW G,
         \A T \in SUBSET S : (\A U \in SUBSET T : U # T => U \in G) => T \in G
  PROVE  \A T \in SUBSET S : T \in G
  <1> DEFINE Bad == {T \in SUBSET S : T \notin G}
  <1> SUFFICES ASSUME Bad # {} PROVE FALSE
    OBVIOUS
  <1>1. IsWellFoundedOn(StrictSubsetOrdering(S), FiniteSubsetsOf(S))
    BY FS_StrictSubsetOrderingWellFounded
  <1>2. Bad \subseteq FiniteSubsetsOf(S)
    BY FS_FiniteSubsetsOfFinite
  <1>3. PICK T \in Bad : \A U \in Bad : <<U, T>> \notin StrictSubsetOrdering(S)
    <2> HIDE DEF Bad
    <2> QED BY <1>1, <1>2, WFMin
  <1>4. \A U \in SUBSET T : U # T => <<U, T>> \in StrictSubsetOrdering(S)
    BY DEF StrictSubsetOrdering
  <1>5. T \in SUBSET S /\ T \notin G
    OBVIOUS
  <1>6. PICK U \in SUBSET T : U # T /\ U \notin G
    BY <1>5
  <1>7. U \in Bad
    BY <1>5, <1>6
  <1> QED
    BY <1>3, <1>4, <1>6, <1>7

(* The element the folds of the community modules take next.               *)
Pick(T) == CHOOSE x \in T : TRUE

(* f sums the weights w over every subset of S, one picked element at a    *)
(* time.                                                                   *)
Sums(f, w, S) ==
  \A T \in SUBSET S : f[T] = IF T = {} THEN 0 ELSE w[Pick(T)] + f[T \ {Pick(T)}]

(* There is one such f ...                                                 *)
LEMMA SumsAgree ==
  ASSUME NEW S, IsFiniteSet(S), NEW w, NEW f, NEW g, NEW R, NEW Q,
         Sums(f, w, R), Sums(g, w, Q), S \subseteq R, S \subseteq Q
  PROVE  f[S] = g[S]
  <1> DEFINE G == {T \in SUBSET S : f[T] = g[T]}
  <1>1. ASSUME NEW T \in SUBSET S, \A U \in SUBSET T : U # T => U \in G
        PROVE  T \in G
    <2>1. T # {} => T \ {Pick(T)} \in SUBSET T /\ T \ {Pick(T)} # T
      BY DEF Pick
    <2>2. T # {} => f[T \ {Pick(T)}] = g[T \ {Pick(T)}]
      BY <1>1, <2>1
    <2>3. f[T] = IF T = {} THEN 0 ELSE w[Pick(T)] + f[T \ {Pick(T)}]
      BY DEF Sums
    <2>4. g[T] = IF T = {} THEN 0 ELSE w[Pick(T)] + g[T \ {Pick(T)}]
      BY DEF Sums
    <2> QED
      BY <2>2, <2>3, <2>4
  <1>2. \A T \in SUBSET S : T \in G
    <2> HIDE DEF G
    <2> QED BY <1>1, SubsetInduction
  <1> QED
    BY <1>2

(* ... at least.                                                           *)
LEMMA SumsExist ==
  ASSUME NEW S, IsFiniteSet(S), NEW w \in [S -> Int]
  PROVE  \E f \in [SUBSET S -> Int] : Sums(f, w, S)
  <1> DEFINE G == {T \in SUBSET S : \E f \in [SUBSET T -> Int] : Sums(f, w, T)}
  <1>1. ASSUME NEW T \in SUBSET S, \A U \in SUBSET T : U # T => U \in G
        PROVE  T \in G
    <2> DEFINE F(U) == CHOOSE f \in [SUBSET U -> Int] : Sums(f, w, U)
               g == [U \in SUBSET T |->
                       IF U = {} THEN 0
                       ELSE w[Pick(U)] + F(U \ {Pick(U)})[U \ {Pick(U)}]]
    <2>1. ASSUME NEW U \in SUBSET T, U # T
          PROVE  F(U) \in [SUBSET U -> Int] /\ Sums(F(U), w, U)
      <3>1. U \in G
        BY <1>1, <2>1
      <3>2. \E f \in [SUBSET U -> Int] : Sums(f, w, U)
        BY <3>1
      <3> QED
        BY <3>2
    <2> HIDE DEF F
    <2>2. ASSUME NEW U \in SUBSET T, U # {}
          PROVE  /\ U \ {Pick(U)} \in SUBSET T /\ U \ {Pick(U)} # T
                 /\ U \ {Pick(U)} \subseteq U /\ U \ {Pick(U)} # U
                 /\ w[Pick(U)] \in Int
      BY <2>2 DEF Pick
    <2>3. g \in [SUBSET T -> Int]
      <3>1. ASSUME NEW U \in SUBSET T, U # {}
            PROVE  F(U \ {Pick(U)})[U \ {Pick(U)}] \in Int
        <4> DEFINE V == U \ {Pick(U)}
        <4>1. V \in SUBSET T /\ V # T
          BY <2>2, <3>1
        <4>2. F(V) \in [SUBSET V -> Int]
          BY <2>1, <4>1
        <4> QED
          BY <4>2
      <3> QED
        BY <2>2, <3>1
    <2>4. ASSUME NEW U \in SUBSET T, U # T PROVE g[U] = F(U)[U]
      <3>1. F(U) \in [SUBSET U -> Int] /\ Sums(F(U), w, U)
        BY <2>1, <2>4
      <3>2. F(U)[U] = IF U = {} THEN 0 ELSE w[Pick(U)] + F(U)[U \ {Pick(U)}]
        BY <3>1 DEF Sums
      <3>3. CASE U = {}
        BY <3>2, <3>3
      <3>4. CASE U # {}
        <4> DEFINE V == U \ {Pick(U)}
        <4>1. V \in SUBSET T /\ V # T /\ V \subseteq U /\ V \in SUBSET S
          BY <2>2, <3>4
        <4>2. Sums(F(V), w, V)
          BY <2>1, <4>1
        <4>3. IsFiniteSet(V)
          BY <4>1, FS_Subset
        <4>4. F(U)[V] = F(V)[V]
          <5> HIDE DEF V
          <5> QED BY <3>1, <4>1, <4>2, <4>3, SumsAgree
        <4> QED
          BY <3>2, <3>4, <4>4
      <3> QED
        BY <3>3, <3>4
    <2>5. ASSUME NEW U \in SUBSET T
          PROVE  g[U] = IF U = {} THEN 0 ELSE w[Pick(U)] + g[U \ {Pick(U)}]
      BY <2>2, <2>4
    <2>6. Sums(g, w, T)
      <3> HIDE DEF g
      <3> QED BY <2>5 DEF Sums
    <2> QED
      BY <2>3, <2>6
  <1>2. \A T \in SUBSET S : T \in G
    <2> HIDE DEF G
    <2> QED BY <1>1, SubsetInduction
  <1> QED
    BY <1>2

(* The sum of the weights w over S, as the model takes it.                 *)
Sum(w, S) == MapThenSumSet(LAMBDA x : w[x], S)

LEMMA SumIs ==
  ASSUME NEW S, IsFiniteSet(S), NEW w \in [S -> Int], NEW T \in SUBSET S, 
         NEW f, Sums(f, w, S)
  PROVE  Sum(w, T) = f[T]
  <1> DEFINE Body(iter) ==
        [s \in SUBSET T |-> IF s = {} THEN 0 ELSE w[Pick(s)] + iter[s \ {Pick(s)}]]
      iter == CHOOSE iter : iter = Body(iter)
  <1>1. Sum(w, T) = iter[T]
    BY DEF Sum, MapThenSumSet, MapThenFoldSet, Pick
  <1>2. \E h : h = Body(h)
    <2> DEFINE h == [s \in SUBSET T |-> f[s]]
    <2>1. ASSUME NEW s \in SUBSET T PROVE h[s] = Body(h)[s]
      <3>1. s # {} => s \ {Pick(s)} \in SUBSET T
        OBVIOUS
      <3>2. f[s] = IF s = {} THEN 0 ELSE w[Pick(s)] + f[s \ {Pick(s)}]
        BY DEF Sums
      <3> QED
        BY <3>1, <3>2
    <2>2. h = Body(h)
      BY <2>1
    <2> QED
      BY <2>2
  <1>3. iter = Body(iter)
    <2> HIDE DEF Body
    <2> QED BY <1>2
  <1>4. Sums(iter, w, T)
    <2> SUFFICES ASSUME NEW U \in SUBSET T
                 PROVE  iter[U] = IF U = {} THEN 0 ELSE w[Pick(U)] + iter[U \ {Pick(U)}]
      BY DEF Sums
    <2> HIDE DEF iter
    <2> QED BY <1>3
  <1>5. IsFiniteSet(T)
    BY FS_Subset
  <1> HIDE DEF iter
  <1> QED
    BY <1>1, <1>4, <1>5, SumsAgree

LEMMA SumType ==
  ASSUME NEW S, IsFiniteSet(S), NEW w \in [S -> Int]
  PROVE  /\ Sum(w, {}) = 0
         /\ \A T \in SUBSET S : Sum(w, T) \in Int
  <1>1. PICK f \in [SUBSET S -> Int] : Sums(f, w, S)
    BY SumsExist
  <1>2. \A T \in SUBSET S : Sum(w, T) = f[T]
    BY <1>1, SumIs
  <1>3. f[{}] = 0
    BY <1>1 DEF Sums
  <1> QED
    BY <1>2, <1>3

(* Any element may be the one that is added last.                          *)
LEMMA SumTake ==
  ASSUME NEW S, IsFiniteSet(S), NEW w \in [S -> Int],
         NEW T \in SUBSET S, NEW x \in T
  PROVE  Sum(w, T) = w[x] + Sum(w, T \ {x})
  <1>1. PICK f \in [SUBSET S -> Int] : Sums(f, w, S)
    BY SumsExist
  <1> DEFINE G == {U \in SUBSET S : \A z \in U : f[U] = w[z] + f[U \ {z}]}
  <1>2. ASSUME NEW V \in SUBSET S, \A U \in SUBSET V : U # V => U \in G
        PROVE  V \in G
    <2> SUFFICES ASSUME NEW z \in V PROVE f[V] = w[z] + f[V \ {z}]
      OBVIOUS
    <2> DEFINE y == Pick(V)
               Vy == V \ {y}
               Vz == V \ {z}
    <2>1. y \in V /\ f[V] = w[y] + f[Vy]
      BY <1>1 DEF Sums, Pick
    <2>2. CASE y = z
      BY <2>1, <2>2
    <2>3. CASE y # z
      <3> HIDE DEF y
      <3>1. Vy \in G /\ z \in Vy /\ Vz \in G /\ y \in Vz /\ Vy \ {z} = Vz \ {y}
        BY <1>2, <2>1, <2>3
      <3>2. f[Vy] = w[z] + f[Vy \ {z}] /\ f[Vz] = w[y] + f[Vz \ {y}]
        BY <3>1
      <3>3. w[y] \in Int /\ w[z] \in Int /\ f[Vy \ {z}] \in Int
        BY <2>1
      <3> QED
        BY <2>1, <3>1, <3>2, <3>3
    <2> QED
      BY <2>2, <2>3
  <1>3. \A V \in SUBSET S : V \in G
    <2> HIDE DEF G
    <2> QED BY <1>2, SubsetInduction
  <1> QED
    BY <1>1, <1>3, SumIs

(* f takes n steps from base.                                              *)
Recurs(f, n, base, step) ==
  f[0] = base /\ \A k \in 1 .. n : f[k] = step[<<f[k - 1], k>>]

LEMMA RecursionExists ==
  ASSUME NEW n \in Nat, NEW R, NEW base \in R, NEW step \in [R \X (1 .. n) -> R]
  PROVE  \E f \in [0 .. n -> R] : Recurs(f, n, base, step)
  <1> DEFINE S == {m \in 0 .. n : \E f \in [0 .. m -> R] : Recurs(f, m, base, step)}
  <1>1. 0 \in S
    <2> DEFINE f == [i \in 0 .. 0 |-> base]
    <2>1. f \in [0 .. 0 -> R] /\ Recurs(f, 0, base, step)
      BY DEF Recurs
    <2> QED
      BY <2>1
  <1>2. ASSUME NEW m \in 1 .. n, m - 1 \in S
        PROVE  m \in S
    <2>1. PICK f \in [0 .. m - 1 -> R] : Recurs(f, m - 1, base, step)
      BY <1>2
    <2> DEFINE v == step[<<f[m - 1], m>>]
               g == [i \in 0 .. m |-> IF i = m THEN v ELSE f[i]]
    <2>2. v \in R /\ m - 1 \in Nat
      BY <2>1
    <2> HIDE DEF v
    <2>3. g \in [0 .. m -> R]
      BY <2>1, <2>2
    <2>4. g[m] = v /\ \A i \in 0 .. m - 1 : g[i] = f[i]
      BY <2>2
    <2> HIDE DEF g
    <2>5. g[0] = base
      BY <2>1, <2>2, <2>4 DEF Recurs
    <2>6. ASSUME NEW k \in 1 .. m
          PROVE  g[k] = step[<<g[k - 1], k>>]
      <3>1. k - 1 \in 0 .. m - 1 /\ g[k - 1] = f[k - 1]
        BY <2>2, <2>4
      <3>2. CASE k = m
        BY <2>4, <3>1, <3>2 DEF v
      <3>3. CASE k # m
        <4>1. k \in 1 .. m - 1 /\ g[k] = f[k]
          BY <2>4, <3>3
        <4> QED
          BY <2>1, <3>1, <4>1 DEF Recurs
      <3> QED
        BY <3>2, <3>3
    <2>7. Recurs(g, m, base, step)
      BY <2>5, <2>6 DEF Recurs
    <2> QED
      BY <2>3, <2>7
  <1>3. n \in S
    <2> HIDE DEF S
    <2>1. 0 .. n \subseteq S
      BY <1>1, <1>2, Reaches
    <2> QED
      BY <2>1
  <1> QED
    BY <1>3

(* Flattening adds one part after the other.                               *)
LEMMA FlattenSteps ==
  ASSUME NEW X, NEW parts \in Seq(Seq(X))
  PROVE  \E f \in [0 .. Len(parts) -> Seq(X)] :
           /\ f[0] = <<>>
           /\ \A k \in 1 .. Len(parts) : f[k] = f[k - 1] \o parts[k]
           /\ FlattenSeq(parts) = f[Len(parts)]
  <1> DEFINE n == Len(parts)
             none == <<>>
             step == [x \in Seq(X) \X (1 .. n) |-> x[1] \o parts[x[2]]]
  <1>1. n \in Nat /\ \A k \in 1 .. n : parts[k] \in Seq(X)
    OBVIOUS
  <1> HIDE DEF n
  <1>2. none \in Seq(X) /\ step \in [Seq(X) \X (1 .. n) -> Seq(X)]
    BY <1>1
  <1>3. PICK f \in [0 .. n -> Seq(X)] : Recurs(f, n, none, step)
    <2> HIDE DEF step, none
    <2> QED
      BY <1>1, <1>2, RecursionExists
  <1>4. f[0] = <<>>
    BY <1>3 DEF Recurs
  <1>5. ASSUME NEW k \in 1 .. n
        PROVE  f[k] = f[k - 1] \o parts[k]
    <2>1. k - 1 \in 0 .. n /\ f[k - 1] \in Seq(X)
      BY <1>1, <1>3
    <2>2. f[k] = step[<<f[k - 1], k>>]
      BY <1>3 DEF Recurs
    <2> QED
      BY <2>1, <2>2
  <1>0. n # 0 => f[1] = parts[1]
    <2> SUFFICES ASSUME n # 0 PROVE f[1] = parts[1]
      OBVIOUS
    <2>1. 1 \in 1 .. n /\ 1 - 1 = 0
      BY <1>1
    <2>2. f[1] = <<>> \o parts[1]
      BY <1>4, <1>5, <2>1
    <2> QED
      BY <1>1, <2>1, <2>2, ConcatEmptySeq
  <1>6. CASE n = 0
    <2>1. FlattenSeq(parts) = parts /\ parts = <<>>
      BY <1>6 DEF FlattenSeq, n
    <2> QED
      BY <1>3, <1>4, <1>5, <1>6, <2>1 DEF n
  <1>7. CASE n # 0
    <2> DEFINE Body(g) == [i \in 1 .. n |-> IF i = 1 THEN parts[i] ELSE g[i - 1] \o parts[i]]
               h == [i \in 1 .. n |-> f[i]]
               flatten == CHOOSE g : g = Body(g)
    <2>1. FlattenSeq(parts) = flatten[n]
      BY <1>7 DEF FlattenSeq, n
    <2>2. \A i \in 1 .. n : h[i] = Body(h)[i]
      <3> SUFFICES ASSUME NEW i \in 1 .. n
                   PROVE  f[i] = IF i = 1 THEN parts[i] ELSE h[i - 1] \o parts[i]
        OBVIOUS
      <3>1. CASE i = 1
        BY <1>0, <1>1, <3>1
      <3>2. CASE i # 1
        <4>1. i - 1 \in 1 .. n /\ h[i - 1] = f[i - 1]
          BY <1>1, <3>2
        <4> QED
          BY <1>5, <3>2, <4>1
      <3> QED
        BY <3>1, <3>2
    <2>3. h = Body(h)
      BY <2>2
    <2>4. flatten = Body(flatten)
      <3> HIDE DEF Body, h
      <3> QED
        BY <2>3
    <2> DEFINE S == {i \in 0 .. n : i = 0 \/ flatten[i] = f[i]}
    <2> HIDE DEF flatten
    <2>5. ASSUME NEW i \in 1 .. n, i - 1 \in S
          PROVE  i \in S
      <3>1. flatten[i] = IF i = 1 THEN parts[i] ELSE flatten[i - 1] \o parts[i]
        BY <2>4
      <3>2. CASE i = 1
        BY <1>0, <1>1, <3>1, <3>2
      <3>3. CASE i # 1
        <4>1. flatten[i - 1] = f[i - 1] /\ i \in 0 .. n
          BY <1>1, <2>5, <3>3
        <4> QED
          BY <1>5, <3>1, <3>3, <4>1
      <3> QED
        BY <3>2, <3>3
    <2>6. n \in S
      <3>1. 0 \in S
        BY <1>1
      <3> HIDE DEF S
      <3>2. 0 .. n \subseteq S
        BY <1>1, <2>5, <3>1, Reaches
      <3> QED
        BY <1>1, <3>2
    <2>7. FlattenSeq(parts) = f[n]
      BY <1>7, <2>1, <2>6
    <2> QED
      BY <1>3, <1>4, <1>5, <2>7 DEF n
  <1> QED
    BY <1>6, <1>7

(* c is b behind a.                                                        *)
Joins(c, a, b, X) ==
  /\ c \in Seq(X) /\ Len(c) = Len(a) + Len(b)
  /\ \A i \in 1 .. Len(a) : c[i] = a[i]
  /\ \A i \in 1 .. Len(b) : c[Len(a) + i] = b[i]

(* Concatenation puts one sequence behind the other.                       *)
LEMMA Joined ==
  ASSUME NEW X, NEW a \in Seq(X), NEW b \in Seq(X)
  PROVE  Joins(a \o b, a, b, X)
  <1> DEFINE c == a \o b
  <1>1. /\ c \in Seq(X) /\ Len(c) = Len(a) + Len(b)
        /\ \A i \in 1 .. Len(a) + Len(b) : c[i] = IF i <= Len(a) THEN a[i] ELSE b[i - Len(a)]
    BY ConcatProperties
  <1>2. Len(a) \in Nat /\ Len(b) \in Nat
    OBVIOUS
  <1> HIDE DEF c
  <1>3. ASSUME NEW i \in 1 .. Len(b)
        PROVE  c[Len(a) + i] = b[i]
    <2>1. Len(a) + i \in 1 .. Len(a) + Len(b) /\ ~(Len(a) + i <= Len(a)) /\ Len(a) + i - Len(a) = i
      BY <1>2
    <2> QED
      BY <1>1, <2>1
  <1>4. ASSUME NEW i \in 1 .. Len(a)
        PROVE  c[i] = a[i]
    <2>1. i \in 1 .. Len(a) + Len(b) /\ i <= Len(a)
      BY <1>2
    <2> QED
      BY <1>1, <2>1
  <1> QED
    BY <1>1, <1>3, <1>4 DEF c, Joins

LEMMA FlattenTyped ==
  ASSUME NEW X, NEW parts \in Seq(Seq(X))
  PROVE  FlattenSeq(parts) \in Seq(X)
  <1>1. PICK f \in [0 .. Len(parts) -> Seq(X)] : FlattenSeq(parts) = f[Len(parts)]
    BY FlattenSteps
  <1>2. Len(parts) \in Nat
    OBVIOUS
  <1> QED
    BY <1>1, <1>2

(* Parts that hold nothing leave nothing.                                  *)
LEMMA FlattenNothing ==
  ASSUME NEW X, NEW parts \in Seq(Seq(X)), \A k \in 1 .. Len(parts) : parts[k] = <<>>
  PROVE  FlattenSeq(parts) = <<>>
  <1>0. Len(parts) \in Nat
    OBVIOUS
  <1>1. PICK f \in [0 .. Len(parts) -> Seq(X)] :
          /\ f[0] = <<>>
          /\ \A k \in 1 .. Len(parts) : f[k] = f[k - 1] \o parts[k]
          /\ FlattenSeq(parts) = f[Len(parts)]
    BY FlattenSteps
  <1> DEFINE S == {k \in 0 .. Len(parts) : f[k] = <<>>}
  <1>2. ASSUME NEW k \in 1 .. Len(parts), k - 1 \in S
        PROVE  k \in S
    <2>1. f[k] = f[k - 1] \o parts[k] /\ f[k - 1] = <<>> /\ parts[k] = <<>>
      BY <1>1, <1>2, Zenon
    <2>2. f[k] = <<>> \o <<>>
      BY <2>1
    <2>3. <<>> \in Seq(X)
      OBVIOUS
    <2>4. f[k] = <<>>
      BY <2>2, <2>3, ConcatEmptySeq
    <2> QED
      BY <1>0, <2>4
  <1>3. 0 \in S
    BY <1>0, <1>1
  <1> HIDE DEF S
  <1>4. 0 .. Len(parts) \subseteq S
    BY <1>0, <1>2, <1>3, Reaches
  <1>5. Len(parts) \in S
    BY <1>0, <1>4
  <1> QED
    BY <1>1, <1>5 DEF S

(* A last part comes last.                                                 *)
LEMMA FlattenAppends ==
  ASSUME NEW X, NEW parts \in Seq(Seq(X)), NEW more \in Seq(Seq(X)),
         Len(more) = Len(parts) + 1, \A k \in 1 .. Len(parts) : more[k] = parts[k]
  PROVE  FlattenSeq(more) = FlattenSeq(parts) \o more[Len(more)]
  <1> DEFINE n == Len(parts)
  <1>0. n \in Nat
    OBVIOUS
  <1>1. PICK f \in [0 .. n -> Seq(X)] :
          /\ f[0] = <<>>
          /\ \A k \in 1 .. n : f[k] = f[k - 1] \o parts[k]
          /\ FlattenSeq(parts) = f[n]
    BY FlattenSteps
  <1>2. PICK g \in [0 .. Len(more) -> Seq(X)] :
          /\ g[0] = <<>>
          /\ \A k \in 1 .. Len(more) : g[k] = g[k - 1] \o more[k]
          /\ FlattenSeq(more) = g[Len(more)]
    BY FlattenSteps
  <1> HIDE DEF n
  <1>3. Len(more) = n + 1 /\ \A k \in 1 .. n : more[k] = parts[k]
    BY DEF n
  <1> DEFINE S == {k \in 0 .. n : g[k] = f[k]}
  <1>4. ASSUME NEW k \in 1 .. n, k - 1 \in S
        PROVE  k \in S
    <2>1. k \in 1 .. Len(more) /\ k \in 0 .. n
      BY <1>0, <1>3
    <2>2. f[k] = f[k - 1] \o parts[k] /\ g[k - 1] = f[k - 1] /\ more[k] = parts[k]
      BY <1>1, <1>3, <1>4, Zenon
    <2>3. g[k] = g[k - 1] \o more[k]
      BY <1>2, <2>1, Zenon
    <2> QED
      BY <2>1, <2>2, <2>3
  <1>5. 0 \in S
    BY <1>0, <1>1, <1>2
  <1> HIDE DEF S
  <1>6. 0 .. n \subseteq S
    BY <1>0, <1>4, <1>5, Reaches
  <1>7. g[n] = f[n]
    BY <1>0, <1>6 DEF S
  <1>8. Len(more) \in 1 .. Len(more) /\ Len(more) - 1 = n
    BY <1>0, <1>3
  <1>9. g[Len(more)] = g[Len(more) - 1] \o more[Len(more)]
    BY <1>2, <1>8, Zenon
  <1>10. FlattenSeq(more) = f[n] \o more[Len(more)]
    BY <1>2, <1>7, <1>8, <1>9
  <1> QED
    BY <1>1, <1>10 DEF n

(* What is added where nothing follows comes last.                         *)
LEMMA FlattenAdds ==
  ASSUME NEW X, NEW parts \in Seq(Seq(X)), NEW more \in Seq(Seq(X)),
         Len(more) = Len(parts), NEW i \in 1 .. Len(parts), parts[i] = <<>>,
         \A k \in 1 .. Len(parts) : k < i => more[k] = parts[k],
         \A k \in 1 .. Len(parts) : k > i => parts[k] = <<>> /\ more[k] = <<>>
  PROVE  FlattenSeq(more) = FlattenSeq(parts) \o more[i]
  <1> DEFINE n == Len(parts)
             c == more[i]
  <1>0. n \in Nat
    OBVIOUS
  <1>1. PICK f \in [0 .. n -> Seq(X)] :
          /\ f[0] = <<>>
          /\ \A k \in 1 .. n : f[k] = f[k - 1] \o parts[k]
          /\ FlattenSeq(parts) = f[n]
    BY FlattenSteps
  <1>2. PICK g \in [0 .. n -> Seq(X)] :
          /\ g[0] = <<>>
          /\ \A k \in 1 .. n : g[k] = g[k - 1] \o more[k]
          /\ FlattenSeq(more) = g[n]
    <2>1. \E g \in [0 .. Len(more) -> Seq(X)] :
          /\ g[0] = <<>>
          /\ \A k \in 1 .. Len(more) : g[k] = g[k - 1] \o more[k]
          /\ FlattenSeq(more) = g[Len(more)]
      BY FlattenSteps
    <2> QED
      BY <2>1, Zenon
  <1>3. i \in 1 .. n /\ more[i] = c /\ parts[i] = <<>> /\ c \in Seq(X)
    OBVIOUS
  <1>4. \A k \in 1 .. n : /\ k < i => more[k] = parts[k]
                          /\ k > i => parts[k] = <<>> /\ more[k] = <<>>
    OBVIOUS
  <1> HIDE DEF n, c
  <1> DEFINE S == {k \in 0 .. n : IF k < i THEN g[k] = f[k] ELSE g[k] = f[k] \o c}
  <1>5. ASSUME NEW k \in 1 .. n, k - 1 \in S
        PROVE  k \in S
    <2>1. f[k] = f[k - 1] \o parts[k] /\ g[k] = g[k - 1] \o more[k]
      BY <1>1, <1>2, Zenon
    <2>2. IF k - 1 < i THEN g[k - 1] = f[k - 1] ELSE g[k - 1] = f[k - 1] \o c
      BY <1>5
    <2>3. k \in 0 .. n /\ k - 1 \in 0 .. n
      BY <1>0
    <2>4. f[k - 1] \in Seq(X) /\ g[k - 1] \in Seq(X)
      BY <1>1, <1>2, <2>3
    <2>5. CASE k < i
      <3>1. k - 1 < i /\ more[k] = parts[k]
        BY <1>3, <1>4, <2>5
      <3>2. g[k] = f[k]
        BY <2>1, <2>2, <3>1
      <3> QED
        BY <2>3, <2>5, <3>2
    <2>6. CASE k = i
      <3>1. k - 1 < i /\ ~(k < i)
        BY <1>3, <2>6
      <3>2. f[k] = f[k - 1] \o <<>>
        BY <1>3, <2>1, <2>6
      <3>3. f[k] = f[k - 1]
        BY <2>4, <3>2, ConcatEmptySeq
      <3>4. g[k] = f[k - 1] \o c
        BY <1>3, <2>1, <2>2, <2>6, <3>1
      <3> QED
        BY <2>3, <3>1, <3>3, <3>4
    <2>7. CASE k > i
      <3>1. ~(k - 1 < i) /\ ~(k < i) /\ parts[k] = <<>> /\ more[k] = <<>>
        BY <1>3, <1>4, <2>7, SMTT(30)
      <3>2. f[k] = f[k - 1] \o <<>> /\ g[k] = g[k - 1] \o <<>>
        BY <2>1, <3>1
      <3>3. f[k] = f[k - 1] /\ g[k] = g[k - 1]
        BY <2>4, <3>2, ConcatEmptySeq
      <3> QED
        BY <2>2, <2>3, <3>1, <3>3
    <2>8. k < i \/ k = i \/ k > i
      BY <1>3
    <2> HIDE DEF S
    <2> QED
      BY <2>5, <2>6, <2>7, <2>8
  <1>6. 0 \in S
    BY <1>0, <1>1, <1>2, <1>3
  <1> HIDE DEF S
  <1>7. 0 .. n \subseteq S
    BY <1>0, <1>5, <1>6, Reaches
  <1>8. n \in S /\ ~(n < i)
    BY <1>0, <1>3, <1>7
  <1> QED
    BY <1>1, <1>2, <1>8 DEF S, c

-----------------------------------------------------------------------------
(* Splicing: the text R006 describes, boundary by boundary                 *)

(* What the passes before the splice leave to it.                          *)
Ready ==
  /\ Request
  /\ \A i \in Indices : Resolved(i)
  /\ \A i, j \in Indices : i < j => ~Overlaps(i, j)

(* The insertions at a boundary that are among D, in request order.        *)
Inserted(o, D) ==
  FlattenSeq([i \in Indices |-> IF Start(i) = o /\ IsInsertion(i) /\ i \in D
                                  THEN Content(i) ELSE <<>>])

Replacing(o) == {i \in Indices : Start(i) = o /\ ~IsInsertion(i)}

Kept(o) == o < LineCount(source) /\ \A i \in Indices : o + 1 \notin RemovedLines(i)

(* The text up to a boundary, and without what is written there.           *)
UpTo(o) == FlattenSeq([k \in 1 .. o |-> AtBoundary(k - 1)])

At(o) == ByteAt(source, o)

LEMMA BatchFacts ==
  ASSUME Ready
  PROVE  /\ IsText(source) /\ LineCount(source) \in Nat \ {0}
         /\ Len(batch) \in Nat /\ Indices = 1 .. Len(batch)
         /\ \A i \in Indices :
              /\ Start(i) \in 0 .. LineCount(source) /\ End(i) \in 0 .. LineCount(source)
              /\ Start(i) <= End(i)
              /\ StartByte(i) = At(Start(i)) /\ EndByte(i) = At(End(i))
              /\ batch[i].size \in Nat
              /\ Content(i) \in Seq(Int) /\ Len(Content(i)) = batch[i].size
         /\ \A i, j \in Indices : i # j => ~Overlaps(i, j)
  <1>1. IsText(source) /\ LineCount(source) \in Nat \ {0}
    BY BatchAssumption DEF Ready, Request, IsText, LineCount
  <1>2. Len(batch) \in Nat /\ Indices = 1 .. Len(batch)
    BY DEF Ready, Request, Indices
  <1>3. ASSUME NEW i \in Indices
        PROVE  /\ Start(i) \in 0 .. LineCount(source) /\ End(i) \in 0 .. LineCount(source)
               /\ Start(i) <= End(i)
               /\ StartByte(i) = At(Start(i)) /\ EndByte(i) = At(End(i))
    BY DEF Ready, Resolved, Ordinals, At
  <1>4. ASSUME NEW i \in Indices
        PROVE  /\ batch[i].size \in Nat
               /\ Content(i) \in Seq(Int) /\ Len(Content(i)) = batch[i].size
    <2>1. batch[i] \in Operation
      BY DEF Ready, Request, Indices
    <2>2. batch[i].size \in Nat
      BY <2>1 DEF Operation
    <2>3. -i \in Int
      BY <1>2
    <2> QED
      BY <2>2, <2>3 DEF Content
  <1>5. ASSUME NEW i \in Indices, NEW j \in Indices, i # j
        PROVE  ~Overlaps(i, j)
    <2>1. i < j \/ j < i
      BY <1>2, <1>5
    <2> QED
      BY <2>1, OverlapIsSymmetric DEF Ready
  <1> QED
    BY <1>1, <1>2, <1>3, <1>4, <1>5

LEMMA InsertedTyped ==
  ASSUME Ready, NEW o, NEW D
  PROVE  Inserted(o, D) \in Seq(Int)
  <1> DEFINE s == [i \in Indices |-> IF Start(i) = o /\ IsInsertion(i) /\ i \in D
                                       THEN Content(i) ELSE <<>>]
  <1>1. s \in Seq(Seq(Int))
    BY BatchFacts
  <1> HIDE DEF s
  <1>2. FlattenSeq(s) \in Seq(Int)
    BY <1>1, FlattenTyped
  <1> QED
    BY <1>2 DEF Inserted, s

(* Only the insertions at the boundary matter.                             *)
LEMMA InsertedSame ==
  ASSUME Ready, NEW o, NEW D, NEW E,
         \A i \in Indices : Start(i) = o /\ IsInsertion(i) => (i \in D <=> i \in E)
  PROVE  Inserted(o, D) = Inserted(o, E)
  <1>1. \A i \in Indices :
          (IF Start(i) = o /\ IsInsertion(i) /\ i \in D THEN Content(i) ELSE <<>>)
            = (IF Start(i) = o /\ IsInsertion(i) /\ i \in E THEN Content(i) ELSE <<>>)
    OBVIOUS
  <1> QED
    BY <1>1 DEF Inserted

LEMMA InsertedNone ==
  ASSUME Ready, NEW o, NEW D,
         \A i \in Indices : i \in D => ~(Start(i) = o /\ IsInsertion(i))
  PROVE  Inserted(o, D) = <<>>
  <1> DEFINE s == [i \in Indices |-> IF Start(i) = o /\ IsInsertion(i) /\ i \in D
                                       THEN Content(i) ELSE <<>>]
  <1>1. s \in Seq(Seq(Int)) /\ \A i \in 1 .. Len(s) : s[i] = <<>>
    BY BatchFacts
  <1> HIDE DEF s
  <1>2. FlattenSeq(s) = <<>>
    BY <1>1, FlattenNothing
  <1> QED
    BY <1>2 DEF Inserted, s

(* An insertion behind all those at its boundary is appended to them.      *)
LEMMA InsertedNext ==
  ASSUME Ready, NEW D, NEW i \in Indices, IsInsertion(i), i \notin D,
         \A j \in Indices : j \in D /\ Start(j) = Start(i) /\ IsInsertion(j) => j < i
  PROVE  Inserted(Start(i), D \cup {i}) = Inserted(Start(i), D) \o Content(i)
  <1> DEFINE o == Start(i)
             E == D \cup {i}
             s == [j \in Indices |-> IF Start(j) = o /\ IsInsertion(j) /\ j \in D
                                       THEN Content(j) ELSE <<>>]
             r == [j \in Indices |-> IF Start(j) = o /\ IsInsertion(j) /\ j \in E
                                       THEN Content(j) ELSE <<>>]
  <1>1. Len(batch) \in Nat /\ Indices = 1 .. Len(batch)
    BY BatchFacts
  <1>2. s \in Seq(Seq(Int)) /\ r \in Seq(Seq(Int)) /\ Len(s) = Len(batch) /\ Len(r) = Len(s)
    BY BatchFacts
  <1>3. i \in 1 .. Len(s) /\ s[i] = <<>> /\ r[i] = Content(i)
    BY <1>1, <1>2
  <1>4. \A k \in 1 .. Len(s) : k # i => r[k] = s[k]
    BY <1>1, <1>2
  <1>5. \A k \in 1 .. Len(s) : k > i => s[k] = <<>>
    <2> SUFFICES ASSUME NEW k \in Indices, k > i
                 PROVE  s[k] = <<>>
      BY <1>1, <1>2
    <2>1. ~(k < i)
      BY <1>1
    <2> QED
      BY <2>1
  <1> HIDE DEF s, r
  <1>6. /\ \A k \in 1 .. Len(s) : k < i => r[k] = s[k]
        /\ \A k \in 1 .. Len(s) : k > i => s[k] = <<>> /\ r[k] = <<>>
    BY <1>1, <1>2, <1>4, <1>5
  <1>7. FlattenSeq(r) = FlattenSeq(s) \o r[i]
    BY <1>2, <1>3, <1>6, FlattenAdds
  <1>8. FlattenSeq(r) = Inserted(o, E) /\ FlattenSeq(s) = Inserted(o, D)
    BY DEF Inserted, r, s
  <1> QED
    BY <1>3, <1>7, <1>8

LEMMA SlicesJoin ==
  ASSUME NEW a \in Nat, NEW b \in Nat, NEW c \in Nat, a <= b, b <= c
  PROVE  /\ Slice(a, a) = <<>>
         /\ Slice(a, b) \o Slice(b, c) = Slice(a, c)
         /\ Len(Slice(a, b)) = b - a
  <1>1. Slice(a, a) = <<>>
    BY DEF Slice
  <1> DEFINE x == Slice(a, b)
             y == Slice(b, c)
             z == Slice(a, c)
  <1>2. /\ x \in Seq(Int) /\ Len(x) = b - a /\ \A k \in 1 .. b - a : x[k] = a + k - 1
        /\ y \in Seq(Int) /\ Len(y) = c - b /\ \A k \in 1 .. c - b : y[k] = b + k - 1
        /\ z \in Seq(Int) /\ Len(z) = c - a /\ \A k \in 1 .. c - a : z[k] = a + k - 1
    BY SliceIsBytes DEF Slice
  <1> HIDE DEF x, y, z
  <1>3. /\ x \o y \in Seq(Int) /\ Len(x \o y) = Len(x) + Len(y)
        /\ \A k \in 1 .. Len(x) + Len(y) : (x \o y)[k] =
             IF k <= Len(x) THEN x[k] ELSE y[k - Len(x)]
    BY <1>2, ConcatProperties
  <1>4. PICK w : w = x \o y
    OBVIOUS
  <1>5. w \in Seq(Int) /\ Len(w) = c - a
    BY <1>2, <1>3, <1>4
  <1>6. ASSUME NEW k \in 1 .. c - a
        PROVE  w[k] = z[k]
    <2>0. \A l \in 1 .. Len(x) + Len(y) : w[l] = IF l <= Len(x) THEN x[l] ELSE y[l - Len(x)]
      BY ONLY <1>3, <1>4, Zenon
    <2>9. k \in 1 .. Len(x) + Len(y)
      BY <1>2
    <2>1. w[k] = IF k <= Len(x) THEN x[k] ELSE y[k - Len(x)]
      BY <2>0, <2>9
    <2>2. CASE k <= b - a
      BY <1>2, <2>1, <2>2
    <2>3. CASE ~(k <= b - a)
      <3>1. k - (b - a) \in 1 .. c - b
        BY <2>3
      <3>2. w[k] = b + (k - (b - a)) - 1
        BY <1>2, <2>1, <2>3, <3>1
      <3> QED
        BY <1>2, <3>2
    <2> QED
      BY <2>2, <2>3
  <1>7. w = z
    BY <1>2, <1>5, <1>6
  <1> QED
    BY <1>1, <1>2, <1>4, <1>7 DEF x, y, z

(* A boundary has what is inserted, what replaces, and the line that stays.*)
LEMMA AtBoundaryIs ==
  ASSUME Ready, NEW o \in Nat
  PROVE  AtBoundary(o) =
           (Inserted(o, Indices)
              \o (IF Replacing(o) = {} THEN <<>> ELSE Content(CHOOSE i \in Replacing(o) : TRUE)))
              \o (IF Kept(o) THEN Slice(At(o), At(o + 1)) ELSE <<>>)
  <1> DEFINE s == [i \in Indices |-> IF Start(i) = o /\ IsInsertion(i) THEN Content(i) ELSE <<>>]
             r == [i \in Indices |-> IF Start(i) = o /\ IsInsertion(i) /\ i \in Indices
                                       THEN Content(i) ELSE <<>>]
             b == IF Replacing(o) = {} THEN <<>> ELSE Content(CHOOSE i \in Replacing(o) : TRUE)
             c == IF Kept(o) THEN Slice(At(o), At(o + 1)) ELSE <<>>
  <1>1. s = r
    OBVIOUS
  <1>2. AtBoundary(o) = (FlattenSeq(s) \o b) \o c
    BY DEF AtBoundary, Replacing, Kept, At
  <1>3. Inserted(o, Indices) = FlattenSeq(r)
    BY DEF Inserted
  <1> HIDE DEF s, r, b, c
  <1>4. AtBoundary(o) = (Inserted(o, Indices) \o b) \o c
    BY <1>1, <1>2, <1>3
  <1> QED
    BY <1>4 DEF b, c

LEMMA SliceTyped ==
  ASSUME Ready, NEW m \in 0 .. LineCount(source), NEW n \in 0 .. LineCount(source), m <= n
  PROVE  /\ At(m) \in Nat /\ At(n) \in Nat /\ At(m) <= At(n)
         /\ At(m) <= source.len /\ At(n) <= source.len
         /\ Slice(At(m), At(n)) \in Seq(Int)
  <1>1. IsText(source) /\ LineCount(source) \in Nat /\ source.len \in Nat
    BY BatchFacts DEF IsText
  <1>2. m \in Ordinals(source) /\ n \in Ordinals(source) /\ n <= n
    BY <1>1 DEF Ordinals
  <1>3. At(m) \in 0 .. source.len /\ At(n) \in 0 .. source.len /\ At(m) <= At(n)
    BY <1>1, <1>2, ByteAtMonotonic DEF At
  <1> HIDE DEF At
  <1>4. At(m) \in Nat /\ At(n) \in Nat /\ At(m) <= source.len /\ At(n) <= source.len
    BY <1>1, <1>3
  <1>5. Slice(At(m), At(n)) \in Seq(Int)
    BY <1>3, <1>4, SliceIsBytes
  <1> QED
    BY <1>3, <1>4, <1>5

(* Nothing but insertions: the line follows.                               *)
LEMMA BoundaryKept ==
  ASSUME Ready, NEW o \in Nat, o < LineCount(source),
         \A i \in Indices : ~(Start(i) <= o /\ o < End(i))
  PROVE  AtBoundary(o) = Inserted(o, Indices) \o Slice(At(o), At(o + 1))
  <1>1. \A i \in Indices : Start(i) \in Nat /\ End(i) \in Nat /\ Start(i) <= End(i)
    BY BatchFacts
  <1>2. Replacing(o) = {}
    BY <1>1 DEF Replacing, IsInsertion
  <1>3. Kept(o)
    BY <1>1 DEF Kept, RemovedLines
  <1>4. Inserted(o, Indices) \in Seq(Int)
    BY InsertedTyped
  <1>5. AtBoundary(o) = (Inserted(o, Indices) \o <<>>) \o Slice(At(o), At(o + 1))
    BY <1>2, <1>3, AtBoundaryIs
  <1>6. Inserted(o, Indices) \o <<>> = Inserted(o, Indices)
    BY <1>4, ConcatEmptySeq
  <1> QED
    BY <1>5, <1>6

(* A replacement: it comes last, and the line goes.                        *)
LEMMA BoundaryReplaced ==
  ASSUME Ready, NEW i \in Indices, ~IsInsertion(i)
  PROVE  AtBoundary(Start(i)) = Inserted(Start(i), Indices) \o Content(i)
  <1> DEFINE o == Start(i)
  <1>1. /\ \A j \in Indices : Start(j) \in Nat /\ End(j) \in Nat /\ Start(j) <= End(j)
        /\ \A j, k \in Indices : j # k => ~Overlaps(j, k)
        /\ Content(i) \in Seq(Int)
    BY BatchFacts
  <1>2. Start(i) < End(i)
    BY <1>1 DEF IsInsertion
  <1>3. \A j \in Replacing(o) : j = i
    BY <1>1, <1>2 DEF Replacing, Overlaps, IsInsertion
  <1>4. i \in Replacing(o)
    BY DEF Replacing
  <1>5. ~Kept(o)
    <2>1. o + 1 \in RemovedLines(i)
      BY <1>1, <1>2 DEF RemovedLines
    <2> QED
      BY <2>1 DEF Kept
  <1>6. Replacing(o) # {} /\ (CHOOSE j \in Replacing(o) : TRUE) = i
    BY <1>3, <1>4
  <1>7. Inserted(o, Indices) \in Seq(Int)
    BY InsertedTyped
  <1>8. Inserted(o, Indices) \o Content(i) \in Seq(Int)
    BY <1>1, <1>7, ConcatProperties
  <1>9. AtBoundary(o) = (Inserted(o, Indices) \o Content(i)) \o <<>>
    BY <1>1, <1>5, <1>6, AtBoundaryIs
  <1>10. (Inserted(o, Indices) \o Content(i)) \o <<>> = Inserted(o, Indices) \o Content(i)
    BY <1>8, ConcatEmptySeq
  <1> QED
    BY <1>9, <1>10

(* Inside of a replacement there is nothing.                               *)
LEMMA BoundaryInside ==
  ASSUME Ready, NEW i \in Indices, NEW o \in Nat, Start(i) < o, o < End(i)
  PROVE  AtBoundary(o) = <<>>
  <1>1. /\ \A j \in Indices : Start(j) \in Nat /\ End(j) \in Nat /\ Start(j) <= End(j)
        /\ \A j, k \in Indices : j # k => ~Overlaps(j, k)
    BY BatchFacts
  <1>2. \A j \in Indices : Start(j) # o
    BY <1>1 DEF Overlaps, IsInsertion
  <1>3. Replacing(o) = {}
    BY <1>2 DEF Replacing
  <1>4. ~Kept(o)
    <2>1. o + 1 \in RemovedLines(i)
      BY <1>1 DEF RemovedLines
    <2> QED
      BY <2>1 DEF Kept
  <1>5. Inserted(o, Indices) = <<>>
    BY <1>2, InsertedNone
  <1>6. AtBoundary(o) = (<<>> \o <<>>) \o <<>>
    BY <1>3, <1>4, <1>5, AtBoundaryIs
  <1>7. <<>> \in Seq(Int)
    OBVIOUS
  <1>8. <<>> \o <<>> = <<>>
    BY <1>7, ConcatEmptySeq
  <1> QED
    BY <1>6, <1>8

(* At the end of the text only insertions are left.                        *)
LEMMA BoundaryLast ==
  ASSUME Ready
  PROVE  AtBoundary(LineCount(source)) = Inserted(LineCount(source), Indices)
  <1> DEFINE o == LineCount(source)
  <1>1. /\ o \in Nat
        /\ \A j \in Indices : Start(j) \in 0 .. o /\ End(j) \in 0 .. o /\ Start(j) <= End(j)
    BY BatchFacts
  <1>2. Replacing(o) = {}
    BY <1>1 DEF Replacing, IsInsertion
  <1>3. ~Kept(o)
    BY <1>1 DEF Kept
  <1>4. Inserted(o, Indices) \in Seq(Int)
    BY InsertedTyped
  <1>5. AtBoundary(o) = (Inserted(o, Indices) \o <<>>) \o <<>>
    BY <1>1, <1>2, <1>3, AtBoundaryIs
  <1>6. Inserted(o, Indices) \o <<>> = Inserted(o, Indices)
    BY <1>4, ConcatEmptySeq
  <1> QED
    BY <1>5, <1>6

LEMMA AtBoundaryTyped ==
  ASSUME Ready, NEW o \in 0 .. LineCount(source)
  PROVE  AtBoundary(o) \in Seq(Int)
  <1>1. o \in Nat /\ LineCount(source) \in Nat
    BY BatchFacts
  <1>2. Inserted(o, Indices) \in Seq(Int) /\ <<>> \in Seq(Int)
    BY InsertedTyped
  <1>3. (IF Replacing(o) = {} THEN <<>> ELSE Content(CHOOSE i \in Replacing(o) : TRUE)) \in Seq(Int)
    <2>1. CASE Replacing(o) = {}
      BY <1>2, <2>1
    <2>2. CASE Replacing(o) # {}
      <3>1. (CHOOSE i \in Replacing(o) : TRUE) \in Replacing(o)
        BY <2>2
      <3>2. (CHOOSE i \in Replacing(o) : TRUE) \in Indices
        BY <3>1 DEF Replacing
      <3>3. PICK i \in Indices : i = (CHOOSE j \in Replacing(o) : TRUE)
        BY <3>2
      <3>4. Content(i) \in Seq(Int)
        BY BatchFacts
      <3> QED
        BY <2>2, <3>3, <3>4
    <2> QED
      BY <2>1, <2>2
  <1>4. (IF Kept(o) THEN Slice(At(o), At(o + 1)) ELSE <<>>) \in Seq(Int)
    <2>1. CASE Kept(o)
      <3>1. o + 1 \in 0 .. LineCount(source) /\ o <= o + 1
        BY <1>1, <2>1 DEF Kept
      <3>2. Slice(At(o), At(o + 1)) \in Seq(Int)
        BY <3>1, SliceTyped
      <3> QED
        BY <2>1, <3>2
    <2>2. CASE ~Kept(o)
      BY <1>2, <2>2
    <2> QED
      BY <2>1, <2>2
  <1> DEFINE a == Inserted(o, Indices)
             b == IF Replacing(o) = {} THEN <<>> ELSE Content(CHOOSE i \in Replacing(o) : TRUE)
             c == IF Kept(o) THEN Slice(At(o), At(o + 1)) ELSE <<>>
  <1>5. a \in Seq(Int) /\ b \in Seq(Int) /\ c \in Seq(Int)
    BY <1>2, <1>3, <1>4
  <1>6. AtBoundary(o) = (a \o b) \o c
    BY <1>1, AtBoundaryIs
  <1> HIDE DEF a, b, c
  <1>7. a \o b \in Seq(Int)
    BY <1>5, ConcatProperties
  <1>8. (a \o b) \o c \in Seq(Int)
    BY <1>5, <1>7, ConcatProperties
  <1> QED
    BY <1>6, <1>8

(* The text grows boundary by boundary.                                    *)
LEMMA UpToGrows ==
  ASSUME Ready, NEW o \in 0 .. LineCount(source)
  PROVE  /\ UpTo(0) = <<>>
         /\ UpTo(o) \in Seq(Int)
         /\ UpTo(o + 1) = UpTo(o) \o AtBoundary(o)
  <1> DEFINE s == [k \in 1 .. o |-> AtBoundary(k - 1)]
             r == [k \in 1 .. o + 1 |-> AtBoundary(k - 1)]
  <1>0. o \in Nat /\ LineCount(source) \in Nat
    BY BatchFacts
  <1>1. \A k \in 1 .. o + 1 : AtBoundary(k - 1) \in Seq(Int)
    <2> SUFFICES ASSUME NEW k \in 1 .. o + 1 PROVE AtBoundary(k - 1) \in Seq(Int)
      OBVIOUS
    <2>1. k - 1 \in 0 .. LineCount(source)
      BY <1>0
    <2> QED
      BY <2>1, AtBoundaryTyped
  <1>2. s \in Seq(Seq(Int)) /\ Len(s) = o
    BY <1>0, <1>1
  <1>3. r \in Seq(Seq(Int)) /\ Len(r) = o + 1
    BY <1>0, <1>1
  <1>4. \A k \in 1 .. Len(s) : r[k] = s[k]
    BY <1>0, <1>2
  <1>5. r[Len(r)] = AtBoundary(o)
    <2>1. o + 1 \in 1 .. o + 1 /\ o + 1 - 1 = o
      BY <1>0
    <2>2. r[o + 1] = AtBoundary(o + 1 - 1)
      BY <2>1
    <2> QED
      BY <1>3, <2>1, <2>2
  <1>6. UpTo(o) = FlattenSeq(s) /\ UpTo(o + 1) = FlattenSeq(r)
    BY DEF UpTo
  <1> HIDE DEF s, r
  <1>7. FlattenSeq(r) = FlattenSeq(s) \o r[Len(r)]
    BY <1>2, <1>3, <1>4, FlattenAppends
  <1>8. FlattenSeq(s) \in Seq(Int)
    BY <1>2, FlattenTyped
  <1>9. UpTo(0) = <<>>
    BY DEF UpTo, FlattenSeq
  <1> QED
    BY <1>5, <1>6, <1>7, <1>8, <1>9

Grouped(a, b, c) == (a \o b) \o c = a \o (b \o c)

(* Bytes are put together in any grouping.                                 *)
LEMMA Regrouped ==
  ASSUME NEW a \in Seq(Int), NEW b \in Seq(Int), NEW c \in Seq(Int)
  PROVE  Grouped(a, b, c)
  BY ConcatAssociative DEF Grouped

(* Between what is spliced and what is still to come the lines stay.  D is *)
(* spliced up to the boundary b, the rest starts at s or later.            *)
LEMMA LinesStay ==
  ASSUME Ready, NEW D \in SUBSET Indices,
         NEW b \in 0 .. LineCount(source), NEW s \in 0 .. LineCount(source), b <= s,
         \A i \in D : End(i) <= b,
         \A i \in Indices \ D : s <= Start(i)
  PROVE  (UpTo(b) \o Inserted(b, D)) \o Slice(At(b), At(s)) = UpTo(s) \o Inserted(s, D)
  <1> DEFINE L == LineCount(source)
             pre == UpTo(b) \o Inserted(b, D)
             upTo(j) == UpTo(b + j)
             text(j) == pre \o Slice(At(b), At(b + j))
             S == {j \in 0 .. s - b : j = 0 \/ upTo(j) = text(j)}
  <1>1. /\ L \in Nat /\ b \in Nat /\ s \in Nat
        /\ \A i \in Indices : Start(i) \in 0 .. L /\ End(i) \in 0 .. L /\ Start(i) <= End(i)
    BY BatchFacts
  <1>2. UpTo(b) \in Seq(Int) /\ Inserted(b, D) \in Seq(Int)
    BY UpToGrows, InsertedTyped
  <1>3. pre \in Seq(Int)
    BY <1>2, ConcatProperties
  <1>4. CASE b = s
    <2>1. At(b) \in Nat
      BY <1>1, SliceTyped
    <2>2. Slice(At(b), At(s)) = <<>>
      <3>1. Slice(At(b), At(b)) = <<>>
        BY <2>1, SlicesJoin
      <3> QED
        BY <1>4, <3>1
    <2>3. pre \o <<>> = pre
      BY <1>3, ConcatEmptySeq
    <2> QED
      BY <1>4, <2>2, <2>3
  <1>5. CASE b < s
    <2>1. ASSUME NEW o \in b .. s - 1
          PROVE  /\ o \in 0 .. L /\ o + 1 \in 0 .. L /\ o \in Nat /\ o < L /\ o + 1 \in Nat
                 /\ \A i \in Indices : ~(Start(i) <= o /\ o < End(i))
      <3>1. \A i \in D : ~(o < End(i))
        BY <1>1
      <3>2. \A i \in Indices \ D : ~(Start(i) <= o)
        BY <1>1
      <3> QED
        BY <1>1, <3>1, <3>2
    <2>2. ASSUME NEW o \in b .. s - 1
          PROVE  UpTo(o + 1) = UpTo(o) \o (Inserted(o, Indices) \o Slice(At(o), At(o + 1)))
      <3>1. AtBoundary(o) = Inserted(o, Indices) \o Slice(At(o), At(o + 1))
        BY <2>1, BoundaryKept
      <3>2. UpTo(o + 1) = UpTo(o) \o AtBoundary(o)
        BY <2>1, UpToGrows
      <3> QED
        BY <3>1, <3>2
    <2>3. Inserted(b, Indices) = Inserted(b, D)
      <3>1. \A i \in Indices : Start(i) = b /\ IsInsertion(i) => (i \in Indices <=> i \in D)
        BY <1>1, <1>5
      <3> QED
        BY <3>1, InsertedSame
    <2>4. ASSUME NEW o \in b + 1 .. s - 1
          PROVE  Inserted(o, Indices) = <<>>
      <3>1. \A i \in Indices : Start(i) # o
        BY <1>1
      <3> QED
        BY <3>1, InsertedNone
    <2>5. Inserted(s, D) = <<>>
      <3>1. \A i \in Indices : i \in D => ~(Start(i) = s /\ IsInsertion(i))
        BY <1>1, <1>5
      <3> QED
        BY <3>1, InsertedNone
    <2>6. ASSUME NEW j \in 1 .. s - b, j - 1 \in S
          PROVE  j \in S
      <3> DEFINE o == b + (j - 1)
      <3>1. o \in b .. s - 1 /\ o + 1 = b + j /\ j \in 0 .. s - b
        BY <1>1
      <3>2. UpTo(b + j) = UpTo(o) \o (Inserted(o, Indices) \o Slice(At(o), At(b + j)))
        BY <2>2, <3>1
      <3>3. /\ o \in 0 .. L /\ b + j \in 0 .. L /\ o <= b + j /\ b <= o
        BY <1>1, <2>1, <3>1
      <3>4. /\ At(b) \in Nat /\ At(o) \in Nat /\ At(b + j) \in Nat
            /\ At(b) <= At(o) /\ At(o) <= At(b + j)
            /\ Slice(At(b), At(o)) \in Seq(Int) /\ Slice(At(o), At(b + j)) \in Seq(Int)
        BY <3>3, SliceTyped
      <3>5. Slice(At(b), At(o)) \o Slice(At(o), At(b + j)) = Slice(At(b), At(b + j))
        BY <3>4, SlicesJoin
      <3> HIDE DEF pre
      <3>6. CASE j = 1
        <4>1. o = b
          BY <1>1, <3>6
        <4>2. UpTo(b + j) = UpTo(b) \o (Inserted(b, D) \o Slice(At(b), At(b + j)))
          BY <2>3, <3>2, <4>1
        <4>3. Slice(At(b), At(b + j)) \in Seq(Int)
          BY <3>4, <4>1
        <4>4. UpTo(b + j) = (UpTo(b) \o Inserted(b, D)) \o Slice(At(b), At(b + j))
          <5>1. (UpTo(b) \o Inserted(b, D)) \o Slice(At(b), At(b + j))
                  = UpTo(b) \o (Inserted(b, D) \o Slice(At(b), At(b + j)))
            <6>1. /\ UpTo(b) \in Seq(Int) /\ Inserted(b, D) \in Seq(Int)
                  /\ Slice(At(b), At(b + j)) \in Seq(Int)
              BY <1>2, <4>3
            <6>2. Grouped(UpTo(b), Inserted(b, D), Slice(At(b), At(b + j)))
              BY <6>1, Regrouped
            <6> QED
              BY <6>2, Zenon DEF Grouped
          <5> QED
            BY <4>2, <5>1
        <4>5. upTo(j) = text(j)
          BY <4>4 DEF pre
        <4> QED
          BY <3>1, <4>5
      <3>7. CASE j # 1
        <4>1. o \in b + 1 .. s - 1 /\ j - 1 # 0
          BY <1>1, <3>1, <3>7
        <4>2. UpTo(o) = pre \o Slice(At(b), At(o))
          BY <2>6, <4>1
        <4>3. <<>> \o Slice(At(o), At(b + j)) = Slice(At(o), At(b + j))
          BY <3>4, ConcatEmptySeq
        <4>4. UpTo(b + j) = UpTo(o) \o Slice(At(o), At(b + j))
          BY <2>4, <3>2, <4>1, <4>3
        <4>5. UpTo(b + j) = (pre \o Slice(At(b), At(o))) \o Slice(At(o), At(b + j))
          BY <4>2, <4>4
        <4>6. UpTo(b + j) = pre \o (Slice(At(b), At(o)) \o Slice(At(o), At(b + j)))
          <5>1. /\ pre \in Seq(Int) /\ Slice(At(b), At(o)) \in Seq(Int)
                /\ Slice(At(o), At(b + j)) \in Seq(Int)
            BY <1>3, <3>4 DEF pre
          <5>2. (pre \o Slice(At(b), At(o))) \o Slice(At(o), At(b + j))
                  = pre \o (Slice(At(b), At(o)) \o Slice(At(o), At(b + j)))
            <6>1. Grouped(pre, Slice(At(b), At(o)), Slice(At(o), At(b + j)))
              BY <5>1, Regrouped
            <6> QED
              BY <6>1, Zenon DEF Grouped
          <5> QED
            BY <4>5, <5>2
        <4>7. upTo(j) = text(j)
          BY <3>5, <4>6
        <4> QED
          BY <3>1, <4>7
      <3> QED
        BY <3>6, <3>7
    <2>7. 0 \in S /\ s - b \in Nat /\ s - b # 0 /\ b + (s - b) = s
      BY <1>1, <1>5
    <2> HIDE DEF S
    <2>8. 0 .. s - b \subseteq S
      BY <2>6, <2>7, Reaches
    <2>9. s - b \in S
      BY <2>7, <2>8
    <2>10. UpTo(s) = pre \o Slice(At(b), At(s))
      BY <2>7, <2>9 DEF S
    <2>11. UpTo(s) \in Seq(Int)
      BY UpToGrows
    <2>12. UpTo(s) \o <<>> = UpTo(s)
      BY <2>11, ConcatEmptySeq
    <2> QED
      BY <2>5, <2>10, <2>12
  <1>6. b = s \/ b < s
    BY <1>1
  <1> HIDE DEF pre, L
  <1> QED
    BY <1>4, <1>5, <1>6 DEF pre

(* Inside of a replacement nothing is written.                             *)
LEMMA LinesGo ==
  ASSUME Ready, NEW i \in Indices, ~IsInsertion(i)
  PROVE  UpTo(End(i)) = UpTo(Start(i) + 1)
  <1> DEFINE L == LineCount(source)
             a == Start(i)
             e == End(i)
             S == {j \in 0 .. e - a : j = 0 \/ UpTo(a + j) = UpTo(a + 1)}
  <1>1. /\ L \in Nat /\ a \in 0 .. L /\ e \in 0 .. L /\ a < e
    BY BatchFacts DEF IsInsertion
  <1> HIDE DEF a, e
  <1>2. ASSUME NEW j \in 1 .. e - a, j - 1 \in S
        PROVE  j \in S
    <2>1. j \in 0 .. e - a
      BY <1>1
    <2>2. CASE j = 1
      BY <2>1, <2>2
    <2>3. CASE j # 1
      <3> DEFINE o == a + (j - 1)
      <3>1. o \in Nat /\ a < o /\ o < e /\ o + 1 = a + j /\ o \in 0 .. L /\ j - 1 # 0
        BY <1>1, <2>3
      <3>2. AtBoundary(o) = <<>>
        BY <3>1, BoundaryInside DEF a, e
      <3>3. UpTo(o) \in Seq(Int) /\ UpTo(o + 1) = UpTo(o) \o <<>>
        BY <3>1, <3>2, UpToGrows
      <3>4. UpTo(o + 1) = UpTo(o)
        BY <3>3, ConcatEmptySeq
      <3>5. UpTo(o) = UpTo(a + 1)
        BY <1>2, <3>1
      <3> QED
        BY <2>1, <3>1, <3>4, <3>5
    <2> QED
      BY <2>2, <2>3
  <1>3. 0 \in S /\ e - a \in Nat /\ e - a # 0 /\ a + (e - a) = e
    BY <1>1
  <1> HIDE DEF S
  <1>4. 0 .. e - a \subseteq S
    BY <1>2, <1>3, Reaches
  <1>5. e - a \in S
    BY <1>3, <1>4
  <1>6. UpTo(e) = UpTo(a + 1)
    BY <1>3, <1>5 DEF S
  <1> QED
    BY <1>6 DEF a, e

(* One operation more.                                                     *)
LEMMA OneMoreSpliced ==
  ASSUME Ready, NEW D \in SUBSET Indices, NEW i \in Indices \ D,
         \A j \in D : Precedes(j, i) /\ End(j) <= Start(i),
         \A j \in Indices \ (D \cup {i}) : Precedes(i, j)
  PROVE  (UpTo(Start(i)) \o Inserted(Start(i), D)) \o Content(i)
           = UpTo(End(i)) \o Inserted(End(i), D \cup {i})
  <1> DEFINE L == LineCount(source)
             s == Start(i)
  <1>1. /\ L \in Nat /\ Indices = 1 .. Len(batch) /\ Len(batch) \in Nat
        /\ \A j \in Indices : Start(j) \in 0 .. L /\ End(j) \in 0 .. L /\ Start(j) <= End(j)
        /\ Content(i) \in Seq(Int)
    BY BatchFacts
  <1>2. UpTo(s) \in Seq(Int) /\ Inserted(s, D) \in Seq(Int)
    BY <1>1, UpToGrows, InsertedTyped
  <1>3. (UpTo(s) \o Inserted(s, D)) \o Content(i) = UpTo(s) \o (Inserted(s, D) \o Content(i))
    <2>1. UpTo(s) \in Seq(Int) /\ Inserted(s, D) \in Seq(Int) /\ Content(i) \in Seq(Int)
      BY <1>1, <1>2
    <2>2. Grouped(UpTo(s), Inserted(s, D), Content(i))
      BY <2>1, Regrouped
    <2> QED
      BY <2>2, Zenon DEF Grouped
  <1>4. CASE IsInsertion(i)
    <2>1. \A j \in Indices : j \in D /\ Start(j) = s /\ IsInsertion(j) => j < i
      BY <1>1, <1>4 DEF Precedes
    <2>2. Inserted(s, D \cup {i}) = Inserted(s, D) \o Content(i)
      BY <1>4, <2>1, InsertedNext
    <2>3. End(i) = s
      BY <1>4 DEF IsInsertion
    <2> QED
      BY <1>3, <2>2, <2>3
  <1>5. CASE ~IsInsertion(i)
    <2>1. \A j \in Indices : Start(j) = s /\ IsInsertion(j) => j \in D
      BY <1>1, <1>5 DEF Precedes
    <2>2. Inserted(s, Indices) = Inserted(s, D)
      BY <2>1, InsertedSame
    <2>3. AtBoundary(s) = Inserted(s, D) \o Content(i)
      BY <1>5, <2>2, BoundaryReplaced
    <2>4. UpTo(s + 1) = UpTo(s) \o AtBoundary(s)
      BY <1>1, UpToGrows
    <2>5. UpTo(End(i)) = UpTo(s + 1)
      BY <1>5, LinesGo
    <2>6. Inserted(End(i), D \cup {i}) = <<>>
      <3>1. s < End(i)
        BY <1>1, <1>5 DEF IsInsertion
      <3>2. \A j \in D : Start(j) < End(i)
        BY <1>1, <3>1
      <3>3. \A j \in Indices : j \in D \cup {i} => ~(Start(j) = End(i) /\ IsInsertion(j))
        BY <1>1, <1>5, <3>2
      <3> QED
        BY <3>3, InsertedNone
    <2>7. UpTo(End(i)) \in Seq(Int)
      BY <1>1, UpToGrows
    <2>8. UpTo(End(i)) \o <<>> = UpTo(End(i))
      BY <2>7, ConcatEmptySeq
    <2> QED
      BY <1>3, <2>3, <2>4, <2>5, <2>6, <2>8
  <1> QED
    BY <1>4, <1>5

(* In sorted order the operations lie one behind the other.                *)
LEMMA OneBehindTheOther ==
  ASSUME Ready, NEW i \in Indices, NEW j \in Indices, Precedes(i, j)
  PROVE  i # j /\ Start(i) <= Start(j) /\ End(i) <= Start(j)
  <1>1. /\ i \in Int /\ j \in Int
        /\ Start(i) \in Int /\ Start(j) \in Int /\ End(i) \in Int /\ End(j) \in Int
        /\ Start(i) <= End(i) /\ Start(j) <= End(j)
    BY BatchFacts
  <1>2. i # j
    BY <1>1 DEF Precedes
  <1>3. ~Overlaps(i, j)
    BY <1>2, BatchFacts
  <1>4. Start(i) <= Start(j)
    BY <1>1 DEF Precedes
  <1>5. CASE IsInsertion(i)
    BY <1>2, <1>4, <1>5 DEF IsInsertion
  <1>6. CASE ~IsInsertion(i)
    BY <1>1, <1>2, <1>3, <1>4, <1>6 DEF Overlaps, Precedes, IsInsertion
  <1> QED
    BY <1>2, <1>4, <1>5, <1>6

(* The sort leaves no operation out.                                       *)
LEMMA SortIsComplete ==
  ASSUME Ready, Sorted
  PROVE  /\ \A k, l \in Indices : k # l => order[k] # order[l]
         /\ \A j \in Indices : \E k \in Indices : order[k] = j
  <1>1. Len(batch) \in Nat /\ Indices = 1 .. Len(batch)
    BY BatchFacts
  <1>2. ASSUME NEW k \in Indices, NEW l \in Indices, k < l
        PROVE  order[k] # order[l]
    BY <1>2, OneBehindTheOther DEF Sorted
  <1>3. ASSUME NEW k \in Indices, NEW l \in Indices, k # l
        PROVE  order[k] # order[l]
    <2>1. k < l \/ l < k
      BY <1>1, <1>3
    <2> QED
      BY <1>2, <2>1
  <1>4. order \in Injection(Indices, Indices)
    BY <1>3 DEF Sorted, Injection, IsInjective
  <1>5. IsFiniteSet(Indices)
    BY <1>1, FS_Interval
  <1>6. order \in Surjection(Indices, Indices)
    BY <1>4, <1>5, FS_Injection
  <1> QED
    BY <1>3, <1>6 DEF Surjection

(* What is spliced before the nth operation, and how far the source is     *)
(* consumed then.                                                          *)
Done(n)  == {order[k] : k \in 1 .. n - 1}
Behind(n) == IF n = 1 THEN 0 ELSE End(order[n - 1])
Text(n)  == UpTo(Behind(n)) \o Inserted(Behind(n), Done(n))

LEMMA BehindFacts ==
  ASSUME Ready, Sorted, NEW n \in 1 .. Len(batch) + 1
  PROVE  /\ Done(n) \in SUBSET Indices
         /\ Behind(n) \in 0 .. LineCount(source)
         /\ \A i \in Done(n) : End(i) <= Behind(n)
         /\ n # 1 => order[n - 1] \in Indices
  <1>1. Len(batch) \in Nat /\ Indices = 1 .. Len(batch) /\ LineCount(source) \in Nat
    BY BatchFacts
  <1>2. order \in [Indices -> Indices]
    BY DEF Sorted
  <1>3. Done(n) \in SUBSET Indices
    BY <1>1, <1>2 DEF Done
  <1>4. n # 1 => order[n - 1] \in Indices /\ n - 1 \in Indices
    BY <1>1, <1>2
  <1>5. Behind(n) \in 0 .. LineCount(source)
    BY <1>1, <1>4, BatchFacts DEF Behind
  <1>6. ASSUME NEW k \in 1 .. n - 1
        PROVE  End(order[k]) <= Behind(n)
    <2>1. n # 1 /\ k \in Indices /\ n - 1 \in Indices /\ order[k] \in Indices
      BY <1>1, <1>2
    <2>2. order[n - 1] \in Indices
      BY <1>4, <2>1
    <2>3. CASE k = n - 1
      <3>1. End(order[n - 1]) \in Int
        BY <2>2, BatchFacts
      <3> QED
        BY <2>1, <2>3, <3>1 DEF Behind
    <2>4. CASE k # n - 1
      <3>1. k < n - 1
        BY <1>1, <2>4
      <3>2. Precedes(order[k], order[n - 1])
        BY <2>1, <3>1 DEF Sorted
      <3>3. End(order[k]) <= Start(order[n - 1])
        BY <2>1, <2>2, <3>2, OneBehindTheOther
      <3>4. /\ End(order[k]) \in Int /\ Start(order[n - 1]) \in Int /\ End(order[n - 1]) \in Int
            /\ Start(order[n - 1]) <= End(order[n - 1])
        <4>1. \A i \in Indices : End(i) \in Int /\ Start(i) \in Int /\ Start(i) <= End(i)
          BY BatchFacts
        <4> QED
          BY <2>1, <2>2, <4>1
      <3>5. End(order[k]) <= End(order[n - 1])
        BY <3>3, <3>4
      <3> QED
        BY <2>1, <3>5 DEF Behind
    <2> QED
      BY <2>3, <2>4
  <1>7. \A i \in Done(n) : End(i) <= Behind(n)
    BY <1>6 DEF Done
  <1> QED
    BY <1>3, <1>4, <1>5, <1>7

(* The nth operation is behind all those spliced and before all others.    *)
LEMMA NextFacts ==
  ASSUME Ready, Sorted, NEW n \in Indices
  PROVE  LET i == order[n] IN
         /\ i \in Indices \ Done(n)
         /\ Done(n + 1) = Done(n) \cup {i}
         /\ Behind(n + 1) = End(i)
         /\ Behind(n) <= Start(i)
         /\ \A j \in Done(n) : Precedes(j, i) /\ End(j) <= Start(i)
         /\ \A j \in Indices \ Done(n) : Start(i) <= Start(j)
         /\ \A j \in Indices \ (Done(n) \cup {i}) : Precedes(i, j)
  <1> DEFINE i == order[n]
  <1>1. Len(batch) \in Nat /\ Indices = 1 .. Len(batch) /\ n \in 1 .. Len(batch)
    BY BatchFacts
  <1>2. order \in [Indices -> Indices] /\ i \in Indices
    BY DEF Sorted
  <1>3. ASSUME NEW k \in 1 .. n - 1
        PROVE  /\ order[k] \in Indices /\ order[k] # i
               /\ Precedes(order[k], i) /\ End(order[k]) <= Start(i)
    <2>1. k \in Indices /\ k < n
      BY <1>1
    <2>2. Precedes(order[k], i)
      BY <2>1 DEF Sorted
    <2>3. order[k] \in Indices
      BY <1>2, <2>1
    <2> QED
      BY <1>2, <2>2, <2>3, OneBehindTheOther
  <1>4. i \notin Done(n) /\ \A j \in Done(n) : Precedes(j, i) /\ End(j) <= Start(i)
    BY <1>3 DEF Done
  <1>5. Done(n + 1) = Done(n) \cup {i}
    <2>1. n + 1 - 1 = n /\ \A k : k \in 1 .. n <=> k \in 1 .. n - 1 \/ k = n
      BY <1>1
    <2> QED
      BY <2>1 DEF Done
  <1>6. Behind(n + 1) = End(i)
    <2> DEFINE m == n + 1
    <2>1. m # 1 /\ m - 1 = n
      BY <1>1
    <2> HIDE DEF m
    <2>2. Behind(m) = End(order[m - 1])
      BY <2>1 DEF Behind
    <2> QED
      BY <2>1, <2>2 DEF m
  <1>7. Behind(n) <= Start(i)
    <2>1. CASE n = 1
      BY <1>2, <2>1, BatchFacts DEF Behind
    <2>2. CASE n # 1
      <3>1. n - 1 \in 1 .. n - 1
        BY <1>1, <2>2
      <3> QED
        BY <1>3, <2>2, <3>1 DEF Behind
    <2> QED
      BY <2>1, <2>2
  <1>8. ASSUME NEW j \in Indices \ (Done(n) \cup {i})
        PROVE  Precedes(i, j)
    <2>1. PICK l \in Indices : order[l] = j
      BY SortIsComplete
    <2>2. ~(l \in 1 .. n - 1) /\ l # n
      BY <1>8, <2>1 DEF Done
    <2>3. n < l
      BY <1>1, <2>2
    <2> QED
      BY <2>1, <2>3 DEF Sorted
  <1>9. ASSUME NEW j \in Indices \ Done(n)
        PROVE  Start(i) <= Start(j)
    <2>1. CASE j = i
      BY <1>2, <2>1, BatchFacts
    <2>2. CASE j # i
      <3>1. j \in Indices \ (Done(n) \cup {i})
        BY <2>2
      <3>2. Precedes(i, j)
        BY <1>8, <3>1
      <3> QED
        BY <1>2, <3>2, OneBehindTheOther
    <2> QED
      BY <2>1, <2>2
  <1> QED
    BY <1>2, <1>4, <1>5, <1>6, <1>7, <1>8, <1>9

LEMMA AllDone ==
  ASSUME Ready, Sorted
  PROVE  Done(Len(batch) + 1) = Indices
  <1>1. Len(batch) \in Nat /\ Indices = 1 .. Len(batch) /\ Len(batch) + 1 - 1 = Len(batch)
    BY BatchFacts
  <1>2. Done(Len(batch) + 1) = {order[k] : k \in Indices}
    BY <1>1 DEF Done
  <1>3. \A k \in Indices : order[k] \in Indices
    BY DEF Sorted
  <1> QED
    BY <1>2, <1>3, SortIsComplete

(* One turn of the splice loop writes the text up to behind its operation. *)
LEMMA TextGrows ==
  ASSUME Ready, Sorted, NEW n \in Indices
  PROVE  (Text(n) \o Slice(At(Behind(n)), StartByte(order[n]))) \o Content(order[n]) = Text(n + 1)
  <1> DEFINE i == order[n]
             D == Done(n)
             b == Behind(n)
             s == Start(i)
  <1>1. /\ i \in Indices \ D /\ Done(n + 1) = D \cup {i} /\ Behind(n + 1) = End(i) /\ b <= s
        /\ \A j \in D : Precedes(j, i) /\ End(j) <= s
        /\ \A j \in Indices \ D : s <= Start(j)
        /\ \A j \in Indices \ (D \cup {i}) : Precedes(i, j)
    BY NextFacts
  <1>2. n \in 1 .. Len(batch) + 1
    BY BatchFacts
  <1>3. D \in SUBSET Indices /\ b \in 0 .. LineCount(source) /\ \A j \in D : End(j) <= b
    BY <1>2, BehindFacts
  <1>4. s \in 0 .. LineCount(source) /\ StartByte(i) = At(s)
    BY <1>1, BatchFacts
  <1> HIDE DEF D, b, s, i
  <1>5. (UpTo(b) \o Inserted(b, D)) \o Slice(At(b), At(s)) = UpTo(s) \o Inserted(s, D)
    BY <1>1, <1>3, <1>4, LinesStay
  <1>6. (UpTo(s) \o Inserted(s, D)) \o Content(i) = UpTo(End(i)) \o Inserted(End(i), D \cup {i})
    BY <1>1, <1>3, OneMoreSpliced DEF s
  <1>7. Text(n) \o Slice(At(b), StartByte(i)) = UpTo(s) \o Inserted(s, D)
    BY <1>4, <1>5 DEF Text, b, D
  <1> QED
    BY <1>1, <1>6, <1>7 DEF Text, b, D, i

(* The tail completes it.                                                  *)
LEMMA TextEnds ==
  ASSUME Ready, Sorted
  PROVE  Text(Len(batch) + 1) \o Slice(At(Behind(Len(batch) + 1)), source.len)
           = UpTo(LineCount(source) + 1)
  <1> DEFINE n == Len(batch) + 1
             b == Behind(n)
             L == LineCount(source)
  <1>1. n \in 1 .. Len(batch) + 1 /\ L \in 0 .. L /\ L \in Nat
    BY BatchFacts
  <1>2. Done(n) = Indices
    BY AllDone
  <1>3. b \in 0 .. L /\ \A i \in Indices : End(i) <= b
    BY <1>1, <1>2, BehindFacts
  <1>4. At(L) = source.len
    BY <1>1 DEF At, ByteAt
  <1> HIDE DEF n, b
  <1>5. (UpTo(b) \o Inserted(b, Indices)) \o Slice(At(b), At(L)) = UpTo(L) \o Inserted(L, Indices)
    <2>1. b <= L /\ Indices \in SUBSET Indices /\ \A i \in Indices \ Indices : L <= Start(i)
      BY <1>1, <1>3
    <2> QED
      BY <1>1, <1>3, <2>1, LinesStay
  <1>6. UpTo(L + 1) = UpTo(L) \o Inserted(L, Indices)
    BY <1>1, UpToGrows, BoundaryLast
  <1> QED
    BY <1>2, <1>4, <1>5, <1>6 DEF Text, b, n

(* What the operations remove and add.                                     *)
RemovedBy == [i \in Indices |-> EndByte(i) - StartByte(i)]
AddedBy   == [i \in Indices |-> batch[i].size]

LEMMA BytesTyped ==
  ASSUME Ready
  PROVE  /\ IsFiniteSet(Indices)
         /\ RemovedBy \in [Indices -> Int] /\ AddedBy \in [Indices -> Int]
         /\ \A i \in Indices : /\ RemovedBy[i] = At(End(i)) - At(Start(i))
                               /\ AddedBy[i] = Len(Content(i))
                               /\ StartByte(i) = At(Start(i))
                               /\ At(Start(i)) \in Nat /\ At(End(i)) \in Nat
                               /\ Len(Content(i)) \in Nat
                               /\ At(Start(i)) <= At(End(i))
  <1>1. Len(batch) \in Nat /\ Indices = 1 .. Len(batch)
    BY BatchFacts
  <1>2. IsFiniteSet(Indices)
    BY <1>1, FS_Interval
  <1>3. ASSUME NEW i \in Indices
        PROVE  /\ EndByte(i) = At(End(i)) /\ StartByte(i) = At(Start(i))
               /\ At(Start(i)) \in Nat /\ At(End(i)) \in Nat
               /\ Len(Content(i)) \in Nat /\ batch[i].size = Len(Content(i))
               /\ At(Start(i)) <= At(End(i))
    <2>1. /\ Start(i) \in 0 .. LineCount(source) /\ End(i) \in 0 .. LineCount(source)
          /\ Start(i) <= End(i)
          /\ EndByte(i) = At(End(i)) /\ StartByte(i) = At(Start(i))
          /\ Len(Content(i)) = batch[i].size /\ batch[i].size \in Nat
      BY BatchFacts
    <2>2. At(Start(i)) \in Nat /\ At(End(i)) \in Nat /\ At(Start(i)) <= At(End(i))
      BY <2>1, SliceTyped
    <2> QED
      BY <2>1, <2>2
  <1> QED
    BY <1>2, <1>3 DEF RemovedBy, AddedBy

(* The sums of the prediction are those of the lemmas above.               *)
LEMMA PredictedIs ==
  ASSUME Ready
  PROVE  Predicted = source.len - Sum(RemovedBy, Indices) + Sum(AddedBy, Indices)
  <1> DEFINE F(iter) == [s \in SUBSET Indices |-> IF s = {} THEN 0
                           ELSE (EndByte(Pick(s)) - StartByte(Pick(s))) + iter[s \ {Pick(s)}]]
             H(iter) == [s \in SUBSET Indices |-> IF s = {} THEN 0
                           ELSE RemovedBy[Pick(s)] + iter[s \ {Pick(s)}]]
             G(iter) == [s \in SUBSET Indices |-> IF s = {} THEN 0
                           ELSE batch[Pick(s)].size + iter[s \ {Pick(s)}]]
             K(iter) == [s \in SUBSET Indices |-> IF s = {} THEN 0
                           ELSE AddedBy[Pick(s)] + iter[s \ {Pick(s)}]]
  <1>1. Removed = (CHOOSE iter : iter = F(iter))[Indices]
    BY DEF Removed, MapThenSumSet, MapThenFoldSet, Pick
  <1>2. Sum(RemovedBy, Indices) = (CHOOSE iter : iter = H(iter))[Indices]
    BY DEF Sum, MapThenSumSet, MapThenFoldSet, Pick
  <1>3. Added = (CHOOSE iter : iter = G(iter))[Indices]
    BY DEF Added, MapThenSumSet, MapThenFoldSet, Pick
  <1>4. Sum(AddedBy, Indices) = (CHOOSE iter : iter = K(iter))[Indices]
    BY DEF Sum, MapThenSumSet, MapThenFoldSet, Pick
  <1>5. ASSUME NEW s \in SUBSET Indices, s # {}
        PROVE  /\ RemovedBy[Pick(s)] = EndByte(Pick(s)) - StartByte(Pick(s))
               /\ AddedBy[Pick(s)] = batch[Pick(s)].size
    <2>1. Pick(s) \in Indices
      BY <1>5 DEF Pick
    <2> QED
      BY <2>1 DEF RemovedBy, AddedBy
  <1>6. \A iter : F(iter) = H(iter)
    BY <1>5
  <1>7. \A iter : G(iter) = K(iter)
    BY <1>5
  <1> HIDE DEF F, H, G, K
  <1>8. Removed = Sum(RemovedBy, Indices)
    BY <1>1, <1>2, <1>6
  <1>9. Added = Sum(AddedBy, Indices)
    BY <1>3, <1>4, <1>7
  <1> QED
    BY <1>8, <1>9 DEF Predicted

LEMMA SliceLength ==
  ASSUME NEW a \in Nat, NEW b \in Nat, a <= b
  PROVE  Len(Slice(a, b)) = b - a
  <1>1. b \in Nat /\ b <= b
    OBVIOUS
  <1> QED
    BY <1>1, SlicesJoin

(* How long the text is before the nth operation.                          *)
HasLength(n) ==
  Len(Text(n)) = At(Behind(n)) - Sum(RemovedBy, Done(n)) + Sum(AddedBy, Done(n))

LEMMA TextTyped ==
  ASSUME Ready, Sorted, NEW n \in 1 .. Len(batch) + 1
  PROVE  Text(n) \in Seq(Int) /\ At(Behind(n)) \in Nat
  <1>1. Behind(n) \in 0 .. LineCount(source) /\ Behind(n) <= Behind(n)
    BY BehindFacts, BatchFacts
  <1>2. UpTo(Behind(n)) \in Seq(Int) /\ Inserted(Behind(n), Done(n)) \in Seq(Int)
    BY <1>1, UpToGrows, InsertedTyped
  <1>3. At(Behind(n)) \in Nat
    BY <1>1, SliceTyped
  <1> QED
    BY <1>2, <1>3 DEF Text

LEMMA LengthGrows ==
  ASSUME Ready, Sorted, NEW n \in Indices, HasLength(n)
  PROVE  HasLength(n + 1)
  <1> DEFINE i == order[n]
             D == Done(n)
             E == Done(n + 1)
  <1>1. /\ i \in Indices \ D /\ E = D \cup {i} /\ Behind(n + 1) = End(i)
        /\ Behind(n) <= Start(i)
    BY NextFacts
  <1>2. n \in 1 .. Len(batch) + 1
    BY BatchFacts
  <1>3. D \in SUBSET Indices /\ Behind(n) \in 0 .. LineCount(source)
        /\ Text(n) \in Seq(Int) /\ At(Behind(n)) \in Nat
    BY <1>2, BehindFacts, TextTyped
  <1>4. /\ IsFiniteSet(Indices)
        /\ RemovedBy \in [Indices -> Int] /\ AddedBy \in [Indices -> Int]
        /\ RemovedBy[i] = At(End(i)) - At(Start(i)) /\ AddedBy[i] = Len(Content(i))
        /\ StartByte(i) = At(Start(i))
        /\ At(Start(i)) \in Nat /\ At(End(i)) \in Nat /\ Len(Content(i)) \in Nat
    BY <1>1, BytesTyped
  <1>5. /\ Start(i) \in 0 .. LineCount(source) /\ Content(i) \in Seq(Int)
    BY <1>1, BatchFacts
  <1>6. At(Behind(n)) <= At(Start(i)) /\ Slice(At(Behind(n)), At(Start(i))) \in Seq(Int)
    BY <1>1, <1>3, <1>5, SliceTyped
  <1>7. Len(Slice(At(Behind(n)), At(Start(i)))) = At(Start(i)) - At(Behind(n))
    BY <1>3, <1>4, <1>6, SliceLength
  <1>8. Text(n + 1) = (Text(n) \o Slice(At(Behind(n)), At(Start(i)))) \o Content(i)
    BY <1>4, TextGrows
  <1> HIDE DEF D, E, i
  <1>9. Len(Text(n + 1)) = Len(Text(n)) + Len(Slice(At(Behind(n)), At(Start(i)))) + Len(Content(i))
    BY <1>3, <1>5, <1>6, <1>8
  <1>10. i \in E /\ E \ {i} = D /\ E \in SUBSET Indices
    BY <1>1, <1>3
  <1>11. Sum(RemovedBy, E) = RemovedBy[i] + Sum(RemovedBy, D)
    BY ONLY <1>4, <1>10, SumTake
  <1>12. Sum(AddedBy, E) = AddedBy[i] + Sum(AddedBy, D)
    BY ONLY <1>4, <1>10, SumTake
  <1>13. Sum(RemovedBy, D) \in Int /\ Sum(AddedBy, D) \in Int
    BY ONLY <1>3, <1>4, SumType
  <1>14. Len(Text(n)) = At(Behind(n)) - Sum(RemovedBy, D) + Sum(AddedBy, D)
    BY DEF HasLength, D
  <1>15. Len(Text(n + 1)) = At(End(i)) - Sum(RemovedBy, E) + Sum(AddedBy, E)
    <2>1. /\ Len(Text(n)) \in Int /\ At(Behind(n)) \in Int /\ At(Start(i)) \in Int
          /\ At(End(i)) \in Int /\ Len(Content(i)) \in Int
      BY <1>3, <1>4
    <2>2. PICK b \in Int, f \in Int, e \in Int, c \in Int, r \in Int, a \in Int :
            /\ b = At(Behind(n)) /\ f = At(Start(i)) /\ e = At(End(i)) /\ c = Len(Content(i))
            /\ r = Sum(RemovedBy, D) /\ a = Sum(AddedBy, D)
      BY <1>13, <2>1
    <2>3. Len(Text(n)) = b - r + a
      BY <1>14, <2>2
    <2>4. Sum(RemovedBy, E) = (e - f) + r /\ Sum(AddedBy, E) = c + a
      BY <1>4, <1>11, <1>12, <2>2
    <2>5. Len(Text(n + 1)) = (b - r + a) + (f - b) + c
      BY <1>7, <1>9, <2>2, <2>3
    <2>6. (b - r + a) + (f - b) + c = e - ((e - f) + r) + (c + a)
      OBVIOUS
    <2> QED
      BY <2>2, <2>4, <2>5, <2>6
  <1> QED
    BY <1>1, <1>15 DEF HasLength, E

(* The whole text has the length that was predicted.                       *)
LEMMA LengthIsPredicted ==
  ASSUME Ready, Sorted
  PROVE  Len(UpTo(LineCount(source) + 1)) = Predicted
  <1> DEFINE N == Len(batch)
             L == LineCount(source)
             S == {k \in 0 .. N : HasLength(k + 1)}
  <1>1. N \in Nat /\ Indices = 1 .. N /\ L \in 0 .. L /\ L \in Nat
    BY BatchFacts
  <1>2. /\ IsFiniteSet(Indices)
        /\ RemovedBy \in [Indices -> Int] /\ AddedBy \in [Indices -> Int]
    BY BytesTyped
  <1>3. /\ Sum(RemovedBy, {}) = 0 /\ Sum(AddedBy, {}) = 0
        /\ Sum(RemovedBy, Indices) \in Int /\ Sum(AddedBy, Indices) \in Int
    BY ONLY <1>2, SumType
  <1>4. 0 \in S
    <2>1. Done(1) = {} /\ Behind(1) = 0
      BY DEF Done, Behind
    <2>2. Inserted(0, {}) = <<>>
      BY InsertedNone
    <2>3. UpTo(0) = <<>>
      BY <1>1, UpToGrows
    <2>4. Text(1) = <<>>
      BY <2>1, <2>2, <2>3 DEF Text
    <2>5. At(0) = 0
      BY <1>1, BatchFacts DEF At, ByteAt, IsText, LineCount
    <2>6. HasLength(1)
      <3>1. Len(Text(1)) = 0 /\ At(Behind(1)) = 0
        BY <2>1, <2>4, <2>5
      <3>2. Sum(RemovedBy, Done(1)) = 0 /\ Sum(AddedBy, Done(1)) = 0
        BY <1>3, <2>1
      <3> QED
        BY <3>1, <3>2 DEF HasLength
    <2> QED
      BY <1>1, <2>6
  <1>5. ASSUME NEW k \in 1 .. N, k - 1 \in S
        PROVE  k \in S
    <2>1. HasLength(k) /\ k \in Indices /\ k \in 0 .. N
      BY <1>1, <1>5
    <2> QED
      BY <2>1, LengthGrows
  <1> HIDE DEF S
  <1>6. 0 .. N \subseteq S
    BY <1>1, <1>4, <1>5, Reaches
  <1>7. HasLength(N + 1)
    BY <1>1, <1>6 DEF S
  <1>8. Done(N + 1) = Indices
    BY AllDone
  <1>9. /\ Text(N + 1) \in Seq(Int) /\ Behind(N + 1) \in 0 .. L /\ At(Behind(N + 1)) \in Nat
    BY <1>1, TextTyped, BehindFacts
  <1>10. At(L) = source.len
    BY <1>1 DEF At, ByteAt
  <1>11. /\ At(L) \in Nat /\ At(Behind(N + 1)) <= At(L)
         /\ Slice(At(Behind(N + 1)), At(L)) \in Seq(Int)
    BY <1>1, <1>9, SliceTyped
  <1>12. Len(Slice(At(Behind(N + 1)), At(L))) = At(L) - At(Behind(N + 1))
    BY <1>9, <1>11, SliceLength
  <1>13. UpTo(L + 1) = Text(N + 1) \o Slice(At(Behind(N + 1)), At(L))
    BY <1>10, TextEnds
  <1>14. Len(UpTo(L + 1)) = Len(Text(N + 1)) + (At(L) - At(Behind(N + 1)))
    BY <1>9, <1>11, <1>12, <1>13
  <1>15. Len(Text(N + 1)) = At(Behind(N + 1)) - Sum(RemovedBy, Indices) + Sum(AddedBy, Indices)
    BY <1>7, <1>8 DEF HasLength
  <1>16. Len(UpTo(L + 1)) = source.len - Sum(RemovedBy, Indices) + Sum(AddedBy, Indices)
    BY <1>3, <1>9, <1>10, <1>11, <1>14, <1>15
  <1> QED
    BY <1>16, PredictedIs

Whole == UpTo(LineCount(source) + 1)

(* What a boundary is to hold is the request's alone.                      *)
LEMMA AtBoundaryKept ==
  ASSUME request' = request
  PROVE  /\ \A o : AtBoundary(o)' = AtBoundary(o)
         /\ \A o, D : Inserted(o, D)' = Inserted(o, D)
  <1>1. /\ source' = source /\ batch' = batch /\ Indices' = Indices
        /\ \A i : Start(i)' = Start(i) /\ End(i)' = End(i) /\ Content(i)' = Content(i)
        /\ \A i : IsInsertion(i)' <=> IsInsertion(i)
    BY RequestKept DEF Start, End, Content, IsInsertion
  <1>2. ASSUME NEW o
        PROVE  AtBoundary(o)' = AtBoundary(o)
    <2> DEFINE written == [i \in Indices |-> IF Start(i) = o /\ IsInsertion(i)
                                               THEN Content(i) ELSE <<>>]
               replaced == IF Replacing(o) = {} THEN <<>>
                           ELSE Content(CHOOSE i \in Replacing(o) : TRUE)
               stays == IF Kept(o) THEN Slice(ByteAt(source, o), ByteAt(source, o + 1)) ELSE <<>>
    <2>1. AtBoundary(o) = FlattenSeq(written) \o replaced \o stays
      BY DEF AtBoundary, Replacing, Kept
    <2>2. AtBoundary(o)' = FlattenSeq(written') \o replaced' \o stays'
      BY DEF AtBoundary, Replacing, Kept
    <2>3. written' = written
      BY <1>1
    <2>4. Replacing(o)' = Replacing(o)
      BY <1>1 DEF Replacing
    <2>5. replaced' = replaced
      BY <1>1, <2>4
    <2>6. Kept(o)' <=> Kept(o)
      BY <1>1 DEF Kept, RemovedLines
    <2>7. stays' = stays
      BY <1>1, <2>6
    <2> HIDE DEF written, replaced, stays
    <2> QED
      BY <2>1, <2>2, <2>3, <2>5, <2>7
  <1>3. ASSUME NEW o, NEW D
        PROVE  Inserted(o, D)' = Inserted(o, D)
    BY <1>1 DEF Inserted
  <1> QED
    BY <1>2, <1>3

(* The text that is asked for is the request's alone.                      *)
LEMMA WholeKept ==
  ASSUME request' = request
  PROVE  /\ Whole' = Whole
         /\ SplicedAsRequested <=> (answer = "ok" => output = Whole /\ Len(output) = predicted)
         /\ (SplicedAsRequested)'
              <=> (answer' = "ok" => output' = Whole /\ Len(output') = predicted')
  <1>1. source' = source /\ batch' = batch /\ Indices' = Indices
    BY RequestKept
  <1>2. \A i : Start(i)' = Start(i) /\ End(i)' = End(i) /\ Content(i)' = Content(i)
    BY <1>1 DEF Start, End, Content
  <1>3. \A o : AtBoundary(o)' = AtBoundary(o)
    BY AtBoundaryKept
  <1>4. Whole' = Whole
    BY <1>1, <1>3 DEF Whole, UpTo
  <1>5. SplicedAsRequested <=> (answer = "ok" => output = Whole /\ Len(output) = predicted)
    BY DEF SplicedAsRequested, Whole, UpTo
  <1>6. (SplicedAsRequested)'
          <=> (answer' = "ok" => output' = Whole' /\ Len(output') = predicted')
    BY DEF SplicedAsRequested, Whole, UpTo
  <1> QED
    BY <1>4, <1>5, <1>6

(* The text before an operation is the request's and the order's.          *)
LEMMA TextKept ==
  ASSUME request' = request, order' = order
  PROVE  \A n : Text(n)' = Text(n) /\ At(Behind(n))' = At(Behind(n))
  <1>1. source' = source /\ batch' = batch /\ Indices' = Indices
    BY RequestKept
  <1>2. \A i : Start(i)' = Start(i) /\ End(i)' = End(i) /\ Content(i)' = Content(i)
    BY <1>1 DEF Start, End, Content
  <1>3. \A o : AtBoundary(o)' = AtBoundary(o)
    BY AtBoundaryKept
  <1>4. \A n : Behind(n)' = Behind(n) /\ Done(n)' = Done(n)
    BY <1>2 DEF Behind, Done
  <1>5. \A n : UpTo(Behind(n))' = UpTo(Behind(n))
    BY <1>3, <1>4 DEF UpTo
  <1>6. \A n : Inserted(Behind(n), Done(n))' = Inserted(Behind(n), Done(n))
    BY <1>1, <1>2, <1>4 DEF Inserted, IsInsertion
  <1>7. \A n : At(Behind(n))' = At(Behind(n))
    BY <1>1, <1>4 DEF At
  <1> QED
    BY <1>5, <1>6, <1>7 DEF Text

(* What is spliced so far is the text up to behind the operations spliced. *)
Spliced ==
  /\ pass # "done" => answer = "pending"
  /\ pass = "splice" =>
       /\ predicted = Predicted
       /\ \A n \in 1 .. Len(batch) + 1 :
            n = next => output = Text(n) /\ cursor = At(Behind(n))
  /\ SplicedAsRequested

LEMMA FailSpliced ==
  ASSUME Spliced, NEW code, code # "ok", pass # "done", Fail(code)
  PROVE  Spliced'
  <1>1. request' = request
    BY DEF Fail
  <1>2. CASE engine = "fast"
    <2>1. answer' = answer /\ pass' = "validate"
      BY <1>2 DEF Fail, Goto
    <2> QED
      BY <1>1, <2>1, WholeKept DEF Spliced
  <1>3. CASE engine # "fast"
    <2>1. answer' = code /\ pass' = "done"
      BY <1>3 DEF Fail, Goto
    <2> QED
      BY <1>1, <2>1, WholeKept DEF Spliced
  <1> QED
    BY <1>2, <1>3

(* The passes before the splice.                                           *)
LEMMA PassesOn ==
  ASSUME Spliced, request' = request, answer' = answer,
         pass # "done", pass' \in {"resolve", "overlap", "size"}
  PROVE  Spliced'
  <1>1. answer' # "ok"
    BY DEF Spliced
  <1> QED
    BY <1>1, WholeKept DEF Spliced

LEMMA SortSplices ==
  ASSUME SpliceInv, Spliced, Sort
  PROVE  Spliced'
  <1>1. CASE Predicted > MaxBytes
    BY <1>1, FailSpliced DEF Sort
  <1>2. CASE ~(Predicted > MaxBytes)
    <2>1. /\ pass = "size" /\ pass' = "splice" /\ next' = 1
          /\ predicted' = Predicted /\ cursor' = 0 /\ output' = <<>>
          /\ UNCHANGED <<request, answer>>
      BY <1>2 DEF Sort, Goto
    <2>2. Ready
      BY <2>1 DEF SpliceInv, Ready
    <2>3. Predicted' = Predicted
      BY <2>1, SumsKept
    <2>4. Text(1)' = <<>> /\ At(Behind(1))' = 0
      <3>1. (Done(1))' = {} /\ (Behind(1))' = 0
        BY DEF Done, Behind
      <3>2. (Inserted(0, {}))' = <<>>
        <4>1. Inserted(0, {}) = <<>>
          BY <2>2, InsertedNone
        <4> QED
          BY <2>1, <4>1, AtBoundaryKept
      <3>3. (UpTo(0))' = <<>>
        BY DEF UpTo, FlattenSeq
      <3>4. At(0) = 0
        BY <2>2, BatchFacts DEF At, ByteAt, IsText, LineCount
      <3>5. (At(0))' = 0
        BY <2>1, <3>4 DEF At, source
      <3>6. Text(1)' = (UpTo(0))' \o (Inserted(0, {}))'
        BY <3>1 DEF Text, Inserted, UpTo
      <3> QED
        BY <3>1, <3>2, <3>3, <3>5, <3>6 DEF At
    <2> QED
      BY <2>1, <2>3, <2>4, WholeKept DEF Spliced
  <1> QED
    BY <1>1, <1>2

LEMMA SpliceSplices ==
  ASSUME SpliceInv, Spliced, Splice
  PROVE  Spliced'
  <1> DEFINE i == order[next]
  <1>1. /\ pass = "splice" /\ pass' = "splice" /\ next \in Indices /\ next' = next + 1
        /\ UNCHANGED <<request, order, predicted, answer>>
        /\ output' = output \o Slice(cursor, StartByte(i)) \o Content(i)
        /\ cursor' = IF ~IsInsertion(i) THEN EndByte(i)
                     ELSE IF StartByte(i) > cursor THEN StartByte(i) ELSE cursor
    BY DEF Splice
  <1>2. Ready /\ Sorted
    BY <1>1 DEF SpliceInv, Ready
  <1>3. Len(batch) \in Nat /\ Indices = 1 .. Len(batch) /\ next \in 1 .. Len(batch) + 1
        /\ batch' = batch
    BY <1>1, <1>2, BatchFacts, RequestKept
  <1>4. output = Text(next) /\ cursor = At(Behind(next)) /\ predicted = Predicted
        /\ answer = "pending"
    BY <1>1, <1>3 DEF Spliced
  <1>5. output' = Text(next + 1)
    BY <1>1, <1>2, <1>4, TextGrows
  <1>6. i \in Indices /\ Behind(next + 1) = End(i)
    BY <1>1, <1>2, NextFacts
  <1>7. EndByte(i) = At(End(i)) /\ StartByte(i) = At(Start(i))
    BY <1>2, <1>6, BatchFacts
  <1>8. cursor <= StartByte(i) /\ cursor \in Nat /\ StartByte(i) \in Nat
    <2>1. cursor <= StartByte(i) /\ cursor \in Nat
      BY <1>1, <1>3 DEF SpliceInv, CursorNeverPassesAnEdit
    <2>2. StartByte(i) \in Nat
      BY <1>2, <1>6, BytesTyped
    <2> QED
      BY <2>1, <2>2
  <1>9. cursor' = At(Behind(next + 1))
    <2>1. CASE IsInsertion(i)
      <3>1. cursor' = StartByte(i)
        BY <1>1, <1>8, <2>1
      <3> QED
        BY <1>6, <1>7, <2>1, <3>1 DEF IsInsertion
    <2>2. CASE ~IsInsertion(i)
      BY <1>1, <1>6, <1>7, <2>2
    <2> QED
      BY <2>1, <2>2
  <1>10. predicted' = Predicted'
    BY <1>1, <1>4, SumsKept
  <1>11. \A n : n = next' => output' = Text(n)' /\ cursor' = At(Behind(n))'
    <2>1. \A n : Text(n)' = Text(n) /\ At(Behind(n))' = At(Behind(n))
      BY <1>1, TextKept
    <2> QED
      BY <1>1, <1>5, <1>9, <2>1
  <1>12. (SplicedAsRequested)'
    BY <1>1, <1>4, WholeKept
  <1> QED
    BY <1>1, <1>4, <1>10, <1>11, <1>12 DEF Spliced

LEMMA FinishSplices ==
  ASSUME SpliceInv, Spliced, Finish
  PROVE  Spliced'
  <1>1. /\ pass = "splice" /\ pass' = "done" /\ next \notin Indices
        /\ UNCHANGED <<request, predicted>>
        /\ output' = output \o Slice(cursor, source.len)
    BY DEF Finish, Goto
  <1>2. Ready /\ Sorted
    BY <1>1 DEF SpliceInv, Ready
  <1>3. Len(batch) \in Nat /\ Indices = 1 .. Len(batch) /\ next \in 1 .. Len(batch) + 1
    BY <1>2, BatchFacts DEF Ready, Request
  <1>4. next = Len(batch) + 1
    BY <1>1, <1>3
  <1>5. output = Text(next) /\ cursor = At(Behind(next)) /\ predicted = Predicted
    BY <1>1, <1>3 DEF Spliced
  <1>6. output' = Whole
    BY <1>1, <1>2, <1>4, <1>5, TextEnds DEF Whole
  <1>7. Len(output') = predicted'
    BY <1>1, <1>2, <1>5, <1>6, LengthIsPredicted DEF Whole
  <1> QED
    BY <1>1, <1>6, <1>7, WholeKept DEF Spliced

LEMMA SplicedStep == SpliceInv /\ Spliced /\ [Next]_vars => Spliced'
  <1> SUFFICES ASSUME SpliceInv, Spliced, [Next]_vars
               PROVE  Spliced'
    OBVIOUS
  <1>1. CASE Validate
    <2>1. CASE RequestError = "none"
      BY <1>1, <2>1, PassesOn DEF Validate, Goto
    <2>2. CASE RequestError # "none"
      <3>1. RequestError # "ok"
        BY DEF RequestError
      <3> QED
        BY <1>1, <2>2, <3>1, FailSpliced DEF Validate
    <2> QED
      BY <2>1, <2>2
  <1>2. CASE Resolve
    <2>1. CASE OperationError(next) = "none"
      BY <1>2, <2>1, PassesOn DEF Resolve, Goto
    <2>2. CASE OperationError(next) # "none"
      <3>1. OperationError(next) # "ok"
        BY DEF OperationError
      <3> QED
        BY <1>2, <2>2, <3>1, FailSpliced DEF Resolve
    <2> QED
      BY <2>1, <2>2
  <1>3. CASE OffsetsUnavailable
    BY <1>3, FailSpliced DEF OffsetsUnavailable
  <1>4. CASE RejectOverlaps
    <2>1. CASE \E i, j \in Indices : i < j /\ Overlaps(i, j)
      BY <1>4, <2>1, FailSpliced DEF RejectOverlaps
    <2>2. CASE ~ \E i, j \in Indices : i < j /\ Overlaps(i, j)
      BY <1>4, <2>2, PassesOn DEF RejectOverlaps, Goto
    <2> QED
      BY <2>1, <2>2
  <1>5. CASE Sort
    BY <1>5, SortSplices
  <1>6. CASE Splice
    BY <1>6, SpliceSplices
  <1>7. CASE Finish
    BY <1>7, FinishSplices
  <1>8. CASE UNCHANGED vars
    <2>1. UNCHANGED <<request, pass, next, order, cursor, output, predicted, answer>>
      BY <1>8 DEF vars
    <2>2. batch' = batch /\ Predicted' = Predicted
      BY <2>1, RequestKept, SumsKept
    <2>3. (SplicedAsRequested)'
      BY <2>1, WholeKept DEF Spliced
    <2>4. \A n : Text(n)' = Text(n) /\ At(Behind(n))' = At(Behind(n))
      BY <2>1, TextKept
    <2>5. pass' # "done" => answer' = "pending"
      BY <2>1 DEF Spliced
    <2>6. pass' = "splice" =>
            /\ predicted' = Predicted'
            /\ \A n \in 1 .. Len(batch') + 1 :
                 n = next' => output' = Text(n)' /\ cursor' = At(Behind(n))'
      BY <2>1, <2>2, <2>4 DEF Spliced
    <2> QED
      BY <2>3, <2>5, <2>6 DEF Spliced
  <1> QED
    BY <1>1, <1>2, <1>3, <1>4, <1>5, <1>6, <1>7, <1>8 DEF Next

(* A batch that is applied yields the text R006 describes, at every        *)
(* boundary the insertions in request order, then the replacement, then    *)
(* the line that stays, and its length is the one that was checked against *)
(* the cap: the forward cursor of engine.rs neither loses nor repeats a    *)
(* byte of the source, for any text and any batch.                         *)
THEOREM SplicesAreTheRequest == Spec => []SplicedAsRequested
  <1>1. Init => Spliced
    BY DEF Init, Spliced, SplicedAsRequested
  <1>2. Spliced => SplicedAsRequested
    BY DEF Spliced
  <1> QED
    BY <1>1, <1>2, SpliceInit, SpliceStep, SplicedStep, PTL DEF Spec

===============================================================================
