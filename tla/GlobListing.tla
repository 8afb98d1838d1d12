----------------------------- MODULE GlobListing -----------------------------
(***************************************************************************)
(* The listing of a glob request (glob.rs, R024): entries the walk kept,   *)
(* newest first, ties in the order of their paths, cut at max_results.     *)
(*                                                                         *)
(* A file below a directory is known by the sequence of names that leads   *)
(* to it without following a link. Rank gives those sequences the order of *)
(* their strings; the prefix a request gives all of them does not change   *)
(* it. Which of them the pattern matches is an input.                      *)
(***************************************************************************)
EXTENDS PathResolution

CONSTANTS
  Below,      \* Below[d]: the names of files that may exist under a directory
  Rank,       \* Rank[names]: their order as strings
  TimeLimit   \* largest modification time

ASSUME ListingAssumption ==
  /\ Below \in [Places -> SUBSET Seq(Names)]
  /\ \A d \in Places : \A e \in Below[d] : e \in DOMAIN Rank /\ Rank[e] \in Nat
  /\ \A d \in Places : /\ IsFiniteSet(Below[d])
                       /\ \A e, f \in Below[d] : Rank[e] = Rank[f] => e = f
  /\ \A d \in Places : \A e \in Below[d] : \E step \in [0 .. Len(e) -> Places] :
       /\ step[0] = d
       /\ \A k \in 1 .. Len(e) : /\ Link[step[k - 1]][e[k]] = step[k]
                                 /\ Parent[step[k]] = step[k - 1] /\ step[k] # Top
  /\ TimeLimit \in Nat

Epoch == 0
Times == Epoch .. TimeLimit

(* What the walk collects: a file and the modification time it read. *)
Precedes(e, f) ==
  \/ e.modified > f.modified
  \/ e.modified = f.modified /\ Rank[e.file] < Rank[f.file]

(* Mutant: the request's path is left out. *)
DisplayBare(path, file) == [absolute |-> FALSE, names |-> file]

(* The path of an entry as it is reported: the request's path in front,    *)
(* unless there was none or it was ".".                                    *)
Display(path, file) == [path EXCEPT !.names = @ \o file]

Smaller(m, n) == IF m < n THEN m ELSE n

(* The entries in the order of the answer. *)
Sorted(entries) ==
  CHOOSE sorted \in [1 .. Cardinality(entries) -> entries] :
    \A i, j \in DOMAIN sorted : i < j => Precedes(sorted[i], sorted[j])

(* The answer to a request for whose pattern the walk collected entries. *)
Listing(path, entries, cap) ==
  LET count == Cardinality(entries)
      sorted == Sorted(entries)
  IN  [paths |-> [k \in 1 .. Smaller(count, cap) |-> Display(path, sorted[k].file)],
       truncated |-> count > cap]

===============================================================================
