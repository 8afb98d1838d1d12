----------------------------- MODULE GrepSection -----------------------------
(***************************************************************************)
(* The section grep renders for one matching file (included_spans and      *)
(* render_hit of src/src/grep.rs): the match lines of a text, each with    *)
(* its window of context, in spans with a `--` marker between them.        *)
(*                                                                         *)
(* What a line holds is left out: an item of a section is its kind and its *)
(* position, which is what an edit may be sent.                            *)
(***************************************************************************)
EXTENDS LineText, SequencesExt, FiniteSetsExt

Gap == [kind |-> "gap"]

(* The lines a searcher counts: an empty last line is not one of them.     *)
Searchable(t) ==
  IF t.len = 0 \/ t.starts[LineCount(t)] = t.len THEN LineCount(t) - 1 ELSE LineCount(t)

(* Mutant: the synthetic empty line after a final LF counts.               *)
SearchableWithLastLine(t) == LineCount(t)

(* The window of a match, a half-open range of 0-based lines.              *)
Window(line, before, after) ==
  [start |-> IF line - 1 > before THEN line - 1 - before ELSE 0, end |-> line + after]

(* Mutant: adjacent windows stay apart.                                    *)
OpensOnTouch(matched, k, before, after) ==
  \/ k = 1
  \/ Window(matched[k], before, after).start >= Window(matched[k - 1], before, after).end

(* included_spans: a match opens a span unless its window touches that of  *)
(* the match before it, which is where the last span ends so far.          *)
Opens(matched, k, before, after) ==
  \/ k = 1
  \/ Window(matched[k], before, after).start > Window(matched[k - 1], before, after).end

(* The span that match `first` opens reaches to the last match before the  *)
(* next one that opens a span, cut at the end of the text.                 *)
Span(t, matched, first, before, after) ==
  LET later == {k \in first + 1 .. Len(matched) : Opens(matched, k, before, after)}
      last  == IF later = {} THEN Len(matched) ELSE Min(later) - 1
      end   == Window(matched[last], before, after).end
  IN  [start |-> Window(matched[first], before, after).start,
       end   |-> IF end < Searchable(t) THEN end ELSE Searchable(t)]

(* One line of a span.                                                     *)
RenderLine(t, matched, idx) ==
  [kind |-> IF idx + 1 \in Range(matched) THEN "match" ELSE "context",
   at   |-> PositionOf(t, idx)]

(* render_hit in content mode, span by span.                               *)
Section(t, matched, before, after) ==
  LET lines(span) == [k \in 1 .. span.end - span.start |->
                        RenderLine(t, matched, span.start + k - 1)]
      part(k) == IF Opens(matched, k, before, after)
                   THEN (IF k = 1 THEN <<>> ELSE <<Gap>>)
                          \o lines(Span(t, matched, k, before, after))
                   ELSE <<>>
  IN  FlattenSeq([k \in DOMAIN matched |-> part(k)])

-----------------------------------------------------------------------------

(* What the windows say, for one line at a time: a line is shown when it   *)
(* is a line of the text and some match is near enough.                    *)
Shown(t, matched, before, after) ==
  {n \in 1 .. LineCount(t) :
     /\ n < LineCount(t) \/ ByteAt(t, n - 1) < t.len
     /\ \E k \in DOMAIN matched : matched[k] - before <= n /\ n <= matched[k] + after}

(* A section shows exactly those lines, ascending, tells the matches from  *)
(* their context, and marks every place where lines are left out between   *)
(* two shown ones and no other.                                            *)
ShowsTheWindows(section, t, matched, before, after) ==
  LET lines == {k \in DOMAIN section : section[k] # Gap}
      shown == Shown(t, matched, before, after)
  IN  /\ {section[k].at.line : k \in lines} = shown
      /\ \A k \in lines :
           /\ section[k].at = PositionOf(t, section[k].at.line - 1)
           /\ section[k].kind = "match" <=> \E i \in DOMAIN matched : matched[i] = section[k].at.line
           /\ k > 1 =>
                IF section[k - 1] = Gap
                  THEN /\ k > 2
                       /\ section[k - 2].at.line < section[k].at.line - 1
                  ELSE section[k - 1].at.line = section[k].at.line - 1
      /\ section # <<>> => Last(section) # Gap

===============================================================================
