------------------------------ MODULE MCGrepWalk ------------------------------
(***************************************************************************)
(* Trees of up to four entries.  "many" has more match lines than a budget *)
(* of one allows the walk to collect, so that one file stops the walk;     *)
(* "some" and "tail" stop it together.                                     *)
(***************************************************************************)
EXTENDS GrepWalk

File(starts, len, matched) ==
  [kind |-> "text", text |-> [starts |-> starts, len |-> len], matched |-> matched]

NotText(kind) == [kind |-> kind, text |-> [starts |-> <<0>>, len |-> 0], matched |-> <<>>]

\* Nine lines "x", all matching, and the empty one after the last LF.
Many == File([k \in 1 .. 10 |-> 2 * k - 2], 18, [k \in 1 .. 9 |-> k])

\* Six lines, the last without LF: matches at both ends, close by and apart.
Some == File([k \in 1 .. 6 |-> 2 * k - 2], 11, <<1, 3, 6>>)

\* Four lines and the empty one: a match whose context reaches the end.
End4 == File([k \in 1 .. 5 |-> 2 * k - 2], 8, <<4>>)

None4 == File([k \in 1 .. 5 |-> 2 * k - 2], 8, <<>>)

MCTrees ==
  { << >>,
    << End4, Many, Some, End4 >>,
    << Many, NotText("oversized"), End4 >>,
    << Some, NotText("binary"), Some, Some >>,
    << NotText("utf8"), End4, NotText("unreadable"), NotText("binary") >>,
    << NotText("other"), None4, NotText("oversized"), NotText("oversized") >> }

Ask(target, max, mode, before, after, context, fault) ==
  [target |-> target, max |-> max, mode |-> mode, before |-> before, after |-> after,
   context |-> context, fault |-> fault]

MCRequests ==
  { Ask(Tree, 1, "content", None, 1, None, None),
    Ask(Tree, 2, "content", 1, None, None, None),
    Ask(Tree, 3, "content", 2, 2, 0, None),
    Ask(Tree, 1, "discovery", None, None, None, None),
    Ask(Tree, 0, "content", None, None, None, None),
    Ask(Tree, 1, "content", None, 3, None, None),
    Ask(Tree, 1, "discovery", None, None, 1, None),
    Ask(Tree, 1, "content", None, None, None, "invalid_pattern") }
  \cup { Ask(f, 1, "content", None, None, 2, None) : f \in 1 .. 4 }

===============================================================================
