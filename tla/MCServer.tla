------------------------------- MODULE MCServer -------------------------------
(***************************************************************************)
(* A small session: the directory /a with the files f and s/g and a link   *)
(* l to /b, and the directory /b with a file f and one whose name is not   *)
(* UTF-8.                                                                  *)
(***************************************************************************)
EXTENDS Server

CONSTANTS top, a, af, as, asg, b, bf, bh, f, s, g, h, l, up

MCPlaces == {top, a, af, as, asg, b, bf, bh}

MCLink == [d \in MCPlaces |-> [n \in {f, s, g, h, l, a, b} |->
  CASE d = top /\ n = a -> a
    [] d = top /\ n = b -> b
    [] d = a /\ n = f -> af
    [] d = a /\ n = s -> as
    [] d = a /\ n = l -> b
    [] d = as /\ n = g -> asg
    [] d = b /\ n = f -> bf
    [] d = b /\ n = h -> bh
    [] OTHER -> None]]

MCParent == [x \in MCPlaces |->
  CASE x \in {af, as} -> a [] x = asg -> as [] x \in {bf, bh} -> b [] OTHER -> top]

MCAbove == [x \in MCPlaces |->
  CASE x = top -> {top}
    [] x \in {a, b} -> {top, x}
    [] x \in {af, as} -> {top, a, x}
    [] x = asg -> {top, a, as, asg}
    [] x \in {bf, bh} -> {top, b, x}]

MCBelow == [x \in MCPlaces |->
  CASE x = a -> {<<f>>, <<s, g>>}
    [] x = as -> {<<g>>}
    [] x = b -> {<<f>>, <<h>>}
    [] OTHER -> {}]

MCRank == [e \in {<<f>>, <<g>>, <<h>>, <<s, g>>} |->
  CASE e = <<f>> -> 0 [] e = <<g>> -> 1 [] e = <<h>> -> 2 [] OTHER -> 3]

Absolute(names) == [absolute |-> TRUE, names |-> names]
Relative(names) == [absolute |-> FALSE, names |-> names]

File(path) == [scheme |-> "file", host |-> "", path |-> path]

MCLists == {
  <<File(Absolute(<<a, f>>)), [File(Absolute(<<b>>)) EXCEPT !.host = "localhost"]>>,
  <<[File(Absolute(<<b>>)) EXCEPT !.host = "other"]>>,
  <<File(Absolute(<<a, s>>)), File(Absolute(<<b>>))>>}

Glob(path, cap) ==
  [tool |-> "glob", parses |-> TRUE, compiles |-> TRUE, path |-> path, cap |-> cap,
   matching |-> DOMAIN MCRank]
FileCall(path) == [Glob(path, 1) EXCEPT !.tool = "file"]

MCRequests ==
  {Glob(Here, 1), Glob(Relative(<<l>>), 1), Glob(Relative(<<f>>), 1),
   FileCall(Relative(<<s, up, f>>)), FileCall(Absolute(<<b, f>>)),
   [FileCall(Here) EXCEPT !.parses = FALSE], Glob(Here, 0)}

MCInitial == {[kind |-> [x \in MCPlaces |-> IF x \in {af, asg, bf, bh} THEN "file" ELSE "dir"],
               modified |-> [x \in MCPlaces |-> 0]]}

===============================================================================
