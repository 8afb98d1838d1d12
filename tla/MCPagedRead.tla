------------------------------ MODULE MCPagedRead ------------------------------
(***************************************************************************)
(* Three contents: an empty file, a short one, and a long one of which the *)
(* short one is a prefix, so that a position of one is a boundary of both. *)
(***************************************************************************)
EXTENDS PagedRead

MCVersions == {"empty", "short", "long"}

MCTextOf ==
  [ empty |-> [starts |-> <<0>>, len |-> 0],
    short |-> [starts |-> <<0, 2, 4>>, len |-> 4],
    long  |-> [starts |-> <<0, 2, 4, 5, 6, 7>>, len |-> 9] ]

MCHandMade ==
  {[line |-> 1, byte |-> 0], [line |-> 3, byte |-> 4], [line |-> 4, byte |-> 4],
   [line |-> 6, byte |-> 7], [line |-> 9, byte |-> 9]}

===============================================================================
