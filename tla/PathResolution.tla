---------------------------- MODULE PathResolution ----------------------------
(***************************************************************************)
(* How a tool call finds the file its client named (util.rs): a relative   *)
(* path is joined onto the workspace root, an absolute one is taken as it  *)
(* is, and under --restrict the deepest part of the path that exists must  *)
(* lie within the root.                                                    *)
(*                                                                         *)
(* A place is a canonical path: the root of the file system, a directory   *)
(* or a file. Link leads from a directory and a name to a place, which is  *)
(* elsewhere when the name is a symbolic link, and None when no such name  *)
(* ever exists. What is at a place at the moment ("dir", "file" or "none") *)
(* is the argument kind, since other programs change it.                   *)
(***************************************************************************)
EXTENDS Integers, Sequences, FiniteSets

CONSTANTS
  Places,   \* canonical paths
  Top,      \* the root of the file system
  Names,    \* components of paths
  DotDot,   \* the component ".."
  Link,     \* Link[d][n]: the place a name of a directory leads to, or None
  Parent,   \* Parent[x]: the directory that holds a place
  Above,    \* Above[x]: a place and every directory above it
  None

ASSUME TreeAssumption ==
  /\ Top \in Places /\ None \notin Places /\ DotDot \notin Names
  /\ Link \in [Places -> [Names -> Places \cup {None}]]
  /\ Parent \in [Places -> Places]
  /\ Above \in [Places -> SUBSET Places]
  /\ \A x \in Places : x \in Above[x] /\ Top \in Above[x]
  /\ \A x \in Places \ {Top} : Above[x] = {x} \cup Above[Parent[x]]

(* A path of a request: absolute or not, and its components. *)
Paths == [absolute : BOOLEAN, names : Seq(Names \cup {DotDot})]

Here == [absolute |-> FALSE, names |-> <<>>]   \* the path "."

(* One step of the operating system's lookup. *)
Follow(kind, at, n) ==
  IF at = None THEN None
  ELSE IF kind[at] # "dir" THEN None
  ELSE IF n = DotDot THEN Parent[at]
  ELSE IF Link[at][n] = None THEN None
  ELSE IF kind[Link[at][n]] = "none" THEN None
  ELSE Link[at][n]

(* Where each prefix of the path leads; None from the first that is not.   *)
Trail(kind, root, path) ==
  LET start == IF path.absolute THEN Top ELSE root
      trail[k \in 0 .. Len(path.names)] ==
        IF k = 0 THEN IF kind[start] = "none" THEN None ELSE start
        ELSE Follow(kind, trail[k - 1], path.names[k])
  IN  trail

(* Where the path leads. *)
Target(kind, root, path) == Trail(kind, root, path)[Len(path.names)]

Within(root, x) == root \in Above[x]

(* Mutant: only the spelling of the path is looked at. *)
ConfinedLexically(kind, root, path) ==
  /\ \A k \in 1 .. Len(path.names) : path.names[k] # DotDot
  /\ path.absolute => \E k \in 0 .. Len(path.names) : Trail(kind, root, path)[k] = root

(* Confinement refuses ".." before it looks at the file system, then asks  *)
(* where the deepest existing ancestor is. When not even the start of a    *)
(* relative path exists, that ancestor is above the root.                  *)
Confined(kind, root, path) ==
  LET trail == Trail(kind, root, path)
      exists == {k \in DOMAIN trail : trail[k] # None}
      deepest == CHOOSE k \in exists : \A j \in exists : j <= k
  IN  /\ \A k \in 1 .. Len(path.names) : path.names[k] # DotDot
      /\ exists # {}
      /\ Within(root, trail[deepest])

(* A call may go on with its path. *)
Resolves(kind, root, restrict, path) == restrict => Confined(kind, root, path)

===============================================================================
