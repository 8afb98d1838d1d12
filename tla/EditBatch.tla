------------------------------- MODULE EditBatch -------------------------------
(***************************************************************************)
(* Applying one edit batch to one snapshot: apply_edits_fast               *)
(* (src/src/edit/engine.rs) and the reference it falls back to             *)
(* (apply_versioned_reference_edits and apply_reference_edits,             *)
(* src/src/protocol.rs).                                                   *)
(*                                                                         *)
(* Both run the same passes: check the request, resolve every position,    *)
(* reject overlaps, predict the length, sort, splice with one forward      *)
(* cursor.  The fast engine gives up at its first obstacle, whatever it    *)
(* is, and the reference starts over.                                      *)
(***************************************************************************)
EXTENDS LineText, SequencesExt

CONSTANTS
  Texts,         \* texts the current snapshot may be
  Operations,    \* Operations[t]: what a client may send against text t
  BatchSize,     \* BatchSize[t]: bound on the length of a batch against t
  MaxOperations, \* MAX_EDIT_OPERATIONS
  MaxBytes       \* MAX_FILE_BYTES

Position == [line : Nat \ {0}, byte : Nat]

(* start and end tokens, the length of the replacement text, and whether   *)
(* that text holds a NUL.                                                  *)
Operation == [start : Position, end : Position, size : Nat, nul : BOOLEAN]

ASSUME BatchAssumption ==
  /\ \A t \in Texts : IsText(t) /\ Operations[t] \subseteq Operation
  /\ BatchSize \in [Texts -> Nat]
  /\ MaxOperations \in Nat
  /\ MaxBytes \in Nat

VARIABLES
  request,   \* the text of the current snapshot, the operations sent, and
             \* whether they name another snapshot
  engine,    \* "fast", then possibly "reference"
  pass,      \* the pass it is in
  next,      \* the next operation of the pass
  order,     \* the sorted order: order[k] is the operation spliced kth
  cursor,    \* how many bytes of the source are consumed
  output,    \* bytes produced: a source byte is its offset, a byte of the
             \* replacement text of operation i is -i
  predicted, \* final_length
  answer     \* the error, "ok", or "pending"

vars == <<request, engine, pass, next, order, cursor, output, predicted, answer>>
spliceVars == <<order, cursor, output, predicted>>

source == request.text
batch  == request.edits

Indices == 1 .. Len(batch)

Start(i)     == Ordinal(batch[i].start)
End(i)       == Ordinal(batch[i].end)
StartByte(i) == batch[i].start.byte
EndByte(i)   == batch[i].end.byte

IsInsertion(i) == Start(i) = End(i)

Content(i) == [k \in 1 .. batch[i].size |-> -i]

(* Mutant: insertions are left out of the test.                            *)
OverlapsReplacements(i, j) ==
  ~IsInsertion(i) /\ ~IsInsertion(j) /\ Start(i) < End(j) /\ Start(j) < End(i)

(* overlaps / edits_overlap.                                               *)
Overlaps(i, j) ==
  \/ ~IsInsertion(i) /\ ~IsInsertion(j) /\ Start(i) < End(j) /\ Start(j) < End(i)
  \/ IsInsertion(i) /\ ~IsInsertion(j) /\ Start(j) < Start(i) /\ Start(i) < End(j)
  \/ ~IsInsertion(i) /\ IsInsertion(j) /\ Start(i) < Start(j) /\ Start(j) < End(i)

(* Mutant: request order alone among operations with one start.            *)
PrecedesByIndex(i, j) == Start(i) < Start(j) \/ (Start(i) = Start(j) /\ i < j)

(* The sort key: start, then insertions first, then request order.         *)
Precedes(i, j) ==
  \/ Start(i) < Start(j)
  \/ Start(i) = Start(j) /\ IsInsertion(i) /\ ~IsInsertion(j)
  \/ Start(i) = Start(j) /\ (IsInsertion(i) <=> IsInsertion(j)) /\ i < j

-----------------------------------------------------------------------------

(* The request's snapshot and operations: the count, then NUL contents,    *)
(* then the identity, before any position is looked at.                    *)
RequestError ==
  IF batch = <<>> THEN "empty_batch"
  ELSE IF Len(batch) > MaxOperations THEN "too_many_edits"
  ELSE IF \E i \in Indices : batch[i].nul THEN "nul_replacement"
  ELSE IF request.stale THEN "snapshot_conflict"
  ELSE "none"

(* The error of resolving operation i.                                     *)
OperationError(i) ==
  IF ~IsBoundary(source, batch[i].start) \/ ~IsBoundary(source, batch[i].end)
    THEN "invalid_position"
  ELSE IF Start(i) > End(i) THEN "invalid_range"
  ELSE "none"

Goto(p) == pass' = p /\ next' = 1

(* Mutant: the fast engine answers for itself.                             *)
FailAtOnce(code) ==
  /\ Goto("done")
  /\ answer' = code
  /\ UNCHANGED <<request, engine, spliceVars>>

(* `None` from try_fast: the reference decides.  Its own errors are final. *)
Fail(code) ==
  /\ IF engine = "fast" THEN /\ engine' = "reference"
                             /\ Goto("validate")
                             /\ UNCHANGED answer
                        ELSE /\ Goto("done")
                             /\ answer' = code
                             /\ UNCHANGED engine
  /\ UNCHANGED <<request, spliceVars>>

(* request.validate() and the identity test.                               *)
Validate ==
  /\ pass = "validate"
  /\ IF RequestError = "none"
       THEN Goto("resolve") /\ UNCHANGED <<request, engine, spliceVars, answer>>
       ELSE Fail(RequestError)

(* One turn of the loop over the operations.                               *)
Resolve ==
  /\ pass = "resolve"
  /\ IF OperationError(next) # "none" THEN Fail(OperationError(next))
     ELSE /\ IF next < Len(batch) THEN next' = next + 1 /\ UNCHANGED pass
                                  ELSE Goto("overlap")
          /\ UNCHANGED <<request, engine, spliceVars, answer>>

(* The fast engine cannot materialize the snapshot's offset table.         *)
OffsetsUnavailable ==
  /\ engine = "fast" /\ pass = "resolve"
  /\ Fail("offsets")

(* Every pair.                                                             *)
RejectOverlaps ==
  /\ pass = "overlap"
  /\ IF \E i, j \in Indices : i < j /\ Overlaps(i, j)
       THEN Fail("overlapping_edits")
       ELSE Goto("size") /\ UNCHANGED <<request, engine, spliceVars, answer>>

Removed == MapThenSumSet(LAMBDA i : EndByte(i) - StartByte(i), Indices)
Added   == MapThenSumSet(LAMBDA i : batch[i].size, Indices)

Predicted == source.len - Removed + Added

(* The predicted length, the size cap and the sort; the buffer of exactly  *)
(* that capacity is empty.                                                 *)
Sort ==
  /\ pass = "size"
  /\ IF Predicted > MaxBytes THEN Fail("file_too_large")
     ELSE \E o \in [Indices -> Indices] :
       /\ \A k, l \in Indices : k < l => Precedes(o[k], o[l])
       /\ Goto("splice")
       /\ order' = o
       /\ predicted' = Predicted
       /\ cursor' = 0
       /\ output' = <<>>
       /\ UNCHANGED <<request, engine, answer>>

(* Mutant: the cursor is not moved past what a replacement removes.        *)
SpliceKeepsRemoved ==
  /\ pass = "splice" /\ next \in Indices
  /\ LET i == order[next] IN
     /\ output' = output \o Slice(cursor, StartByte(i)) \o Content(i)
     /\ cursor' = IF StartByte(i) > cursor THEN StartByte(i) ELSE cursor
  /\ next' = next + 1
  /\ UNCHANGED <<request, engine, pass, order, predicted, answer>>

(* One turn of the splice loop: the source up to the operation, then its   *)
(* replacement text.                                                       *)
Splice ==
  /\ pass = "splice" /\ next \in Indices
  /\ LET i == order[next] IN
     /\ output' = output \o Slice(cursor, StartByte(i)) \o Content(i)
     /\ cursor' = IF ~IsInsertion(i) THEN EndByte(i)
                  ELSE IF StartByte(i) > cursor THEN StartByte(i) ELSE cursor
  /\ next' = next + 1
  /\ UNCHANGED <<request, engine, pass, order, predicted, answer>>

(* The tail of the source.                                                 *)
Finish ==
  /\ pass = "splice" /\ next \notin Indices
  /\ output' = output \o Slice(cursor, source.len)
  /\ cursor' = source.len
  /\ Goto("done")
  /\ answer' = "ok"
  /\ UNCHANGED <<request, engine, order, predicted>>

Init ==
  /\ \E t \in Texts, stale \in BOOLEAN :
       \E n \in 0 .. BatchSize[t] :
         \E edits \in [1 .. n -> Operations[t]] :
           request = [text |-> t, edits |-> edits, stale |-> stale]
  /\ engine = "fast"
  /\ pass = "validate"
  /\ next = 1
  /\ order = <<>>
  /\ cursor = 0
  /\ output = <<>>
  /\ predicted = 0
  /\ answer = "pending"

Next ==
  \/ Validate \/ Resolve \/ OffsetsUnavailable \/ RejectOverlaps
  \/ Sort \/ Splice \/ Finish

Spec == Init /\ [][Next]_vars

-----------------------------------------------------------------------------
(* Properties *)

Answers == {"pending", "ok", "empty_batch", "too_many_edits", "nul_replacement",
            "snapshot_conflict", "invalid_position", "invalid_range", "overlapping_edits",
            "file_too_large"}

(* Types of the variables.                                                 *)
TypeOK ==
  /\ request = [text |-> source, edits |-> batch, stale |-> request.stale]
  /\ source \in Texts
  /\ batch \in Seq(Operations[source])
  /\ engine \in {"fast", "reference"}
  /\ pass \in {"validate", "resolve", "overlap", "size", "splice", "done"}
  /\ next \in 1 .. Len(batch) + 1
  /\ order \in Seq(Indices)
  /\ cursor \in 0 .. source.len
  /\ output \in Seq(Int)
  /\ predicted \in {0, Predicted}
  /\ answer \in Answers

(* The splice never has to go back: what is consumed never passes the      *)
(* start of an operation still to come.  Each byte of the source is kept   *)
(* once or removed once, and no slice is taken backwards.                  *)
CursorNeverPassesAnEdit ==
  pass = "splice" => \A k \in next .. Len(batch) : cursor <= StartByte(order[k])

(* R006, by lines: the lines operation i removes.                          *)
RemovedLines(i) == Start(i) + 1 .. End(i)

(* Two operations cannot both take effect.                                 *)
Conflict(i, j) ==
  \/ RemovedLines(i) \cap RemovedLines(j) # {}
  \/ IsInsertion(i) /\ {Start(i), Start(i) + 1} \subseteq RemovedLines(j)
  \/ IsInsertion(j) /\ {Start(j), Start(j) + 1} \subseteq RemovedLines(i)

FirstBad == {i \in Indices : /\ OperationError(i) # "none"
                             /\ \A j \in 1 .. i - 1 : OperationError(j) = "none"}

(* What a client is told, as a function of its request alone.              *)
Verdict ==
  IF RequestError # "none" THEN {RequestError}
  ELSE IF FirstBad # {} THEN {OperationError(i) : i \in FirstBad}
  ELSE IF \E i, j \in Indices : i < j /\ Conflict(i, j) THEN {"overlapping_edits"}
  ELSE IF Predicted > MaxBytes THEN {"file_too_large"}
  ELSE {"ok"}

(* Whatever stops the fast engine, the answer is the reference's: the      *)
(* first error in its order, and an error exactly for the batches R006     *)
(* rejects.                                                                *)
AnswerIsTheReferences == pass = "done" => answer \in Verdict

(* What R006 promises at one boundary: insertions in request order, then   *)
(* the replacement that starts there, then the line that follows unless    *)
(* it is removed.                                                          *)
AtBoundary(o) ==
  LET inserted(i) == IF Start(i) = o /\ IsInsertion(i) THEN Content(i) ELSE <<>>
      replacing   == {i \in Indices : Start(i) = o /\ ~IsInsertion(i)}
      kept        == o < LineCount(source) /\ \A i \in Indices : o + 1 \notin RemovedLines(i)
  IN  FlattenSeq([i \in Indices |-> inserted(i)])
        \o (IF replacing = {} THEN <<>> ELSE Content(CHOOSE i \in replacing : TRUE))
        \o (IF kept THEN Slice(ByteAt(source, o), ByteAt(source, o + 1)) ELSE <<>>)

(* A batch that is applied yields exactly the text R006 describes, and of  *)
(* the length that was checked against the cap and reserved for it: the    *)
(* buffer never grows.                                                     *)
SplicedAsRequested ==
  answer = "ok" =>
    /\ output = FlattenSeq([k \in 1 .. LineCount(source) + 1 |-> AtBoundary(k - 1)])
    /\ Len(output) = predicted

===============================================================================
