------------------------------- MODULE LineText -------------------------------
(***************************************************************************)
(* Texts as hashline addresses them: a text is known by the byte offsets   *)
(* at which its logical lines start (LineOffsets of src/src/snapshot.rs,   *)
(* reference_line_starts of src/src/protocol.rs) and by its byte length.   *)
(*                                                                         *)
(* A line ends after its LF, so only the last line may be empty: the text  *)
(* "x\n" has the lines 1@0 and 2@2 and the terminal boundary 3@2.          *)
(***************************************************************************)
EXTENDS Integers, Sequences

IsText(t) ==
  /\ t.starts \in Seq(Nat)
  /\ Len(t.starts) \in Nat \ {0}
  /\ t.starts[1] = 0
  /\ \A i, j \in 1 .. Len(t.starts) : i < j => t.starts[i] < t.starts[j]
  /\ t.len \in Nat
  /\ t.starts[Len(t.starts)] <= t.len

LineCount(t) == Len(t.starts)

(* Boundary ordinals: 0 is before the first line, LineCount(t) the         *)
(* terminal boundary.                                                      *)
Ordinals(t) == 0 .. LineCount(t)

(* The byte of a boundary.                                                 *)
ByteAt(t, ordinal) ==
  IF ordinal < LineCount(t) THEN t.starts[ordinal + 1] ELSE t.len

(* The position token LINE@BYTE of a boundary.                             *)
PositionOf(t, ordinal) == [line |-> ordinal + 1, byte |-> ByteAt(t, ordinal)]

(* boundary_ordinal accepts exactly the positions of boundaries.           *)
IsBoundary(t, p) ==
  /\ p.line \in 1 .. LineCount(t) + 1
  /\ p.byte = ByteAt(t, p.line - 1)

(* The ordinal of an accepted position.                                    *)
Ordinal(p) == p.line - 1

(* The bytes of the source from one offset to another, each by its offset. *)
Slice(from, to) == [k \in 1 .. to - from |-> from + k - 1]

(* reference_context: at most five lines around center, clamped to the     *)
(* text, as line numbers.                                                  *)
Context(t, center) ==
  LET n     == LineCount(t)
      c     == IF center < 1 THEN 1 ELSE IF center > n THEN n ELSE center
      last  == IF c + 2 < n THEN c + 2 ELSE n
      first == IF c - 2 > 1 THEN c - 2 ELSE 1
      low   == IF last - 4 > 1 THEN last - 4 ELSE 1
  IN  (IF first > low THEN first ELSE low) .. last

===============================================================================
