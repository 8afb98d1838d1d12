---------------------------- MODULE GrepWalk_proofs ----------------------------
(***************************************************************************)
(* Proofs about GrepWalk, for any tree and any number of workers: what the *)
(* walk holds, what its budget reports and what its sections show.         *)
(***************************************************************************)
EXTENDS GrepWalk, FiniteSetTheorems, SequenceTheorems, WellFoundedInduction, TLAPS

Oversized(f) == tree[f].kind = "oversized"

(* The part of the types the proofs need.                                  *)
Shape ==
  /\ tree \in Trees
  /\ phase \in {"called", "walking", "answered"}
  /\ pending \subseteq Entries
  /\ pc \in [Workers -> {"idle", "search", "stop", "ended"}]
  /\ visiting \in [Workers -> Entries \cup {None}]
  /\ hits \in [Workers -> SUBSET Entries]
  /\ collected \subseteq Entries
  /\ slot \in {None, "file_too_large"}

(* Workers run only during a walk, and start with nothing.                 *)
Control ==
  /\ \A w \in Workers : visiting[w] # None <=> pc[w] = "search"
  /\ phase # "walking" => \A w \in Workers : pc[w] = "ended"
  /\ phase = "called" =>
       slot = None /\ collected = {} /\ \A w \in Workers : hits[w] = {}
  /\ phase = "walking" => Walked

(* Whatever is held was visited, and is held once.                         *)
HeldOnce ==
  /\ collected \cap pending = {}
  /\ \A w \in Workers :
       /\ hits[w] \cap (pending \cup collected) = {}
       /\ visiting[w] \notin pending \cup collected \cup hits[w]
       /\ \A v \in Workers \ {w} :
            /\ hits[w] \cap hits[v] = {}
            /\ visiting[w] \notin hits[v]
            /\ visiting[w] # None => visiting[w] # visiting[v]

(* A visited file with matches is held.                                    *)
NoneDropped ==
  \A f \in Visited \cap Matching :
    \/ f \in collected
    \/ \E w \in Workers : f \in hits[w] \/ visiting[w] = f

(* The error slot holds what the workers met and are done with.            *)
SlotIsTruthful ==
  /\ slot # None => \E f \in Visited : Oversized(f)
  /\ \A f \in Visited : Oversized(f) => slot # None \/ \E w \in Workers : visiting[w] = f

ReplyIsTruthful ==
  phase = "answered" => (reply.code = "file_too_large" <=> slot # None)

WalkInv ==
  /\ Shape
  /\ Control
  /\ phase # "called" /\ Walked =>
       HeldOnce /\ NoneDropped /\ SlotIsTruthful /\ ReplyIsTruthful

-----------------------------------------------------------------------------

(* Entries are numbers, and only a text has matches.                       *)
LEMMA EntryShape ==
  ASSUME tree \in Trees
  PROVE  /\ None \notin Entries
         /\ \A f \in Entries : Matches(f) \in Nat
         /\ \A f \in Matching : tree[f].kind = "text"
  <1>1. tree \in Seq(Entry)
    BY GrepAssumption
  <1>2. /\ Entries \subseteq Nat
        /\ \A f \in Entries : tree[f] \in Entry
    BY <1>1 DEF Entries
  <1>3. \A f \in Entries : Matches(f) \in Nat
    BY <1>2 DEF Entry, Matches
  <1>4. ASSUME NEW f \in Matching
        PROVE  tree[f].kind = "text"
    <2>1. f \in Entries /\ tree[f].matched # <<>>
      BY <1>2 DEF Matching, Matches
    <2> QED
      BY <2>1, GrepAssumption DEF Entries
  <1> QED
    BY <1>2, <1>3, <1>4, GrepAssumption

(* The initial states satisfy the invariant.                               *)
LEMMA InitEstablishes == Init => WalkInv
BY GrepAssumption DEF Init, WalkInv, Shape, Control

(* A request that is refused, or names a file, never walks.                *)
LEMMA RefusalPreserves ==
  ASSUME WalkInv, Refuse \/ SearchExplicitFile
  PROVE  WalkInv'
  <1>1. phase = "called" /\ phase' = "answered" /\ ~Walked
    BY DEF Refuse, SearchExplicitFile, Reply, Walked
  <1>2. UNCHANGED <<tree, request, pending, pc, visiting, hits, slot, collected>>
    BY DEF Refuse, SearchExplicitFile, walkVars
  <1>3. ~Walked'
    BY <1>1, <1>2 DEF Walked, IsValid
  <1>4. Shape' /\ Control'
    BY <1>1, <1>2 DEF WalkInv, Shape, Control, Entries
  <1> QED
    BY <1>3, <1>4 DEF WalkInv

(* When the walk starts nothing was visited and nothing is held.           *)
LEMMA StartPreserves ==
  ASSUME WalkInv, StartWalk
  PROVE  WalkInv'
  <1> USE DEF StartWalk
  <1>1. Shape' /\ Walked'
    BY DEF WalkInv, Shape, Entries, Walked, IsValid
  <1>2. \A w \in Workers : visiting[w] = None /\ hits[w] = {}
    BY DEF WalkInv, Control
  <1>3. Control'
    BY <1>1, <1>2 DEF WalkInv, Control
  <1>4. None \notin Entries /\ Visited' = {}
    BY EntryShape DEF WalkInv, Shape, Visited, Entries
  <1>5. HeldOnce'
    BY <1>2, <1>4 DEF WalkInv, Control, HeldOnce, Entries
  <1>6. NoneDropped' /\ SlotIsTruthful' /\ ReplyIsTruthful'
    BY <1>4 DEF WalkInv, Control, NoneDropped, SlotIsTruthful, ReplyIsTruthful
  <1> QED
    BY <1>1, <1>3, <1>5, <1>6 DEF WalkInv

(* What every step of a worker leaves as it is.                            *)
LEMMA WorkerFrame ==
  ASSUME WalkInv, NEW w \in Workers, Step(w)
  PROVE  /\ UNCHANGED <<tree, request, phase, reply>>
         /\ phase = "walking" /\ Walked /\ Walked'
         /\ HeldOnce /\ NoneDropped /\ SlotIsTruthful
         /\ ReplyIsTruthful'
         /\ Entries' = Entries /\ Matching' = Matching
         /\ \A f : Oversized(f)' <=> Oversized(f)
  <1>1. UNCHANGED <<tree, request, phase, reply>> /\ pc[w] # "ended"
    BY DEF Step, Visit, Pass, Fail, Count, Stop, End
  <1>2. phase = "walking" /\ Walked
    BY <1>1 DEF WalkInv, Control
  <1>3. HeldOnce /\ NoneDropped /\ SlotIsTruthful
    BY <1>2 DEF WalkInv
  <1> QED
    BY <1>1, <1>2, <1>3
    DEF Walked, IsValid, ReplyIsTruthful, Entries, Matching, Matches, Oversized

(* An entry given to a worker moves from pending to the worker; one that   *)
(* is no file holds nothing.                                               *)
LEMMA VisitPreserves ==
  ASSUME WalkInv, NEW w \in Workers, NEW f \in Entries, Visit(w, f)
  PROVE  WalkInv'
  <1> USE DEF Visit
  <1>1. /\ Walked' /\ HeldOnce /\ NoneDropped /\ SlotIsTruthful /\ ReplyIsTruthful'
        /\ Entries' = Entries /\ Matching' = Matching
        /\ \A g : Oversized(g)' <=> Oversized(g)
    BY WorkerFrame DEF Step
  <1>2. None \notin Entries /\ \A g \in Matching : tree[g].kind = "text"
    BY EntryShape DEF WalkInv, Shape
  <1>3. Visited' = Visited \cup {f} /\ f \notin Visited
    BY <1>1 DEF Visited, WalkInv, Shape
  <1>4. visiting[w] = None
    BY DEF WalkInv, Control
  <1>5. CASE tree[f].kind = "other"
    <2>1. f \notin Matching /\ ~Oversized(f)
      BY <1>2, <1>5 DEF Oversized
    <2>2. Shape' /\ Control'
      BY <1>1, <1>5 DEF WalkInv, Shape, Control
    <2>3. HeldOnce'
      BY <1>1, <1>5 DEF HeldOnce
    <2>4. NoneDropped'
      BY <1>1, <1>3, <1>5, <2>1 DEF NoneDropped
    <2>5. SlotIsTruthful'
      BY <1>1, <1>3, <1>5, <2>1 DEF SlotIsTruthful
    <2> QED
      BY <1>1, <2>2, <2>3, <2>4, <2>5 DEF WalkInv
  <1>6. CASE tree[f].kind # "other"
    <2>1. visiting' = [visiting EXCEPT ![w] = f] /\ visiting \in [Workers -> Entries \cup {None}]
      BY <1>6 DEF WalkInv, Shape
    <2>2. Shape'
      BY <1>1, <1>6, <2>1 DEF WalkInv, Shape
    <2>3. Control'
      BY <1>1, <1>2, <1>6, <2>1 DEF WalkInv, Shape, Control
    <2>4. f \notin collected /\ \A v \in Workers : f \notin hits[v] /\ visiting[v] # f
      BY <1>1 DEF HeldOnce
    <2>5. HeldOnce'
      BY <1>1, <1>2, <2>1, <2>4 DEF HeldOnce
    <2>6. NoneDropped'
      BY <1>1, <1>3, <1>4, <2>1, <1>2 DEF NoneDropped, Matching
    <2>7. SlotIsTruthful'
      BY <1>1, <1>3, <1>4, <2>1, <1>2 DEF SlotIsTruthful, Visited
    <2> QED
      BY <1>1, <2>2, <2>3, <2>5, <2>6, <2>7 DEF WalkInv
  <1> QED
    BY <1>5, <1>6

(* An entry passed over has no matches and is not oversized.               *)
LEMMA PassPreserves ==
  ASSUME WalkInv, NEW w \in Workers, Pass(w)
  PROVE  WalkInv'
  <1> USE DEF Pass
  <1>1. /\ Walked' /\ HeldOnce /\ NoneDropped /\ SlotIsTruthful /\ ReplyIsTruthful'
        /\ Entries' = Entries /\ Matching' = Matching /\ Visited' = Visited
        /\ \A g : Oversized(g)' <=> Oversized(g)
    BY WorkerFrame DEF Step, Visited
  <1>2. visiting[w] \notin Matching /\ ~Oversized(visiting[w])
    BY DEF Matching, Oversized
  <1>3. visiting' = [visiting EXCEPT ![w] = None] /\ visiting \in [Workers -> Entries \cup {None}]
    BY DEF WalkInv, Shape
  <1>4. Shape' /\ Control'
    BY <1>1, <1>3 DEF WalkInv, Shape, Control
  <1>5. HeldOnce'
    BY <1>1, <1>3, EntryShape DEF HeldOnce, WalkInv, Shape
  <1>6. NoneDropped'
    BY <1>1, <1>2, <1>3 DEF NoneDropped
  <1>7. SlotIsTruthful'
    BY <1>1, <1>2, <1>3 DEF SlotIsTruthful
  <1> QED
    BY <1>1, <1>4, <1>5, <1>6, <1>7 DEF WalkInv

(* An oversized entry fills the slot, and has no matches.                  *)
LEMMA FailPreserves ==
  ASSUME WalkInv, NEW w \in Workers, Fail(w)
  PROVE  WalkInv'
  <1> USE DEF Fail
  <1>1. /\ Walked' /\ HeldOnce /\ NoneDropped /\ SlotIsTruthful /\ ReplyIsTruthful'
        /\ Entries' = Entries /\ Matching' = Matching /\ Visited' = Visited
        /\ \A g : Oversized(g)' <=> Oversized(g)
    BY WorkerFrame DEF Step, Visited
  <1>2. visiting[w] \notin Matching /\ Oversized(visiting[w])
    BY EntryShape DEF WalkInv, Shape, Oversized
  <1>3. visiting' = [visiting EXCEPT ![w] = None] /\ visiting \in [Workers -> Entries \cup {None}]
    BY DEF WalkInv, Shape
  <1>4. visiting[w] \in Visited
    BY <1>1, <1>3 DEF HeldOnce, Visited, WalkInv, Shape, Control
  <1>5. slot' # None
    BY GrepAssumption
  <1>6. Shape' /\ Control'
    BY <1>1, <1>3 DEF WalkInv, Shape, Control
  <1>7. HeldOnce'
    BY <1>1, <1>3, EntryShape DEF HeldOnce, WalkInv, Shape
  <1>8. NoneDropped'
    BY <1>1, <1>2, <1>3 DEF NoneDropped
  <1>9. SlotIsTruthful'
    BY <1>1, <1>2, <1>4, <1>5 DEF SlotIsTruthful
  <1> QED
    BY <1>1, <1>6, <1>7, <1>8, <1>9 DEF WalkInv

(* A file with matches moves from the search to the worker's hits.         *)
LEMMA CountPreserves ==
  ASSUME WalkInv, NEW w \in Workers, Count(w)
  PROVE  WalkInv'
  <1> USE DEF Count
  <1>1. /\ Walked' /\ HeldOnce /\ NoneDropped /\ SlotIsTruthful /\ ReplyIsTruthful'
        /\ Entries' = Entries /\ Matching' = Matching /\ Visited' = Visited
        /\ \A g : Oversized(g)' <=> Oversized(g)
    BY WorkerFrame DEF Step, Visited
  <1>2. /\ visiting' = [visiting EXCEPT ![w] = None]
        /\ visiting \in [Workers -> Entries \cup {None}]
        /\ hits' = [hits EXCEPT ![w] = hits[w] \cup {visiting[w]}]
        /\ hits \in [Workers -> SUBSET Entries]
    BY DEF WalkInv, Shape
  <1>3. visiting[w] # None /\ visiting[w] \in Entries
    BY <1>2 DEF WalkInv, Control
  <1>4. ~Oversized(visiting[w])
    BY <1>3, EntryShape DEF WalkInv, Shape, Oversized, Matching
  <1>5. Shape' /\ Control'
    BY <1>1, <1>2, <1>3 DEF WalkInv, Shape, Control
  <1>6. HeldOnce'
    <2>1. None \notin Entries
      BY EntryShape DEF WalkInv, Shape
    <2>2. \A v \in Workers \ {w} : visiting[w] # visiting[v] /\ visiting[w] \notin hits[v]
      BY <1>1, <1>3 DEF HeldOnce
    <2>3. visiting[w] \notin pending \cup collected
      BY <1>1 DEF HeldOnce
    <2>4. /\ hits'[w] = hits[w] \cup {visiting[w]} /\ visiting'[w] = None
          /\ \A v \in Workers \ {w} : hits'[v] = hits[v] /\ visiting'[v] = visiting[v]
          /\ pending' = pending /\ collected' = collected
      BY <1>2
    <2>5. None \notin pending \cup collected /\ \A v \in Workers : None \notin hits[v] \cup hits'[v]
      BY <1>5, <2>1 DEF WalkInv, Shape, Entries
    <2>6. \A v \in Workers :
            /\ hits'[v] \cap (pending \cup collected) = {}
            /\ visiting'[v] \notin pending \cup collected \cup hits'[v]
      BY <1>1, <2>3, <2>4, <2>5 DEF HeldOnce
    <2>7. \A v, u \in Workers : u # v =>
            /\ hits'[v] \cap hits'[u] = {}
            /\ visiting'[v] \notin hits'[u]
            /\ visiting'[v] # None => visiting'[v] # visiting'[u]
      BY <1>1, <2>2, <2>4, <2>5 DEF HeldOnce
    <2> QED
      BY <1>1, <2>3, <2>4, <2>6, <2>7 DEF HeldOnce
  <1>7. NoneDropped'
    BY <1>1, <1>2 DEF NoneDropped
  <1>8. SlotIsTruthful'
    BY <1>1, <1>2, <1>4 DEF SlotIsTruthful
  <1> QED
    BY <1>1, <1>5, <1>6, <1>7, <1>8 DEF WalkInv

(* Stopping the walk moves nothing.                                        *)
LEMMA StopPreserves ==
  ASSUME WalkInv, NEW w \in Workers, Stop(w)
  PROVE  WalkInv'
  <1> USE DEF Stop
  <1>1. /\ Walked' /\ HeldOnce /\ NoneDropped /\ SlotIsTruthful /\ ReplyIsTruthful'
        /\ Entries' = Entries /\ Matching' = Matching /\ Visited' = Visited
        /\ \A g : Oversized(g)' <=> Oversized(g)
    BY WorkerFrame DEF Step, Visited
  <1>2. Shape' /\ Control'
    BY <1>1 DEF WalkInv, Shape, Control
  <1>3. HeldOnce' /\ NoneDropped' /\ SlotIsTruthful'
    BY <1>1 DEF HeldOnce, NoneDropped, SlotIsTruthful
  <1> QED
    BY <1>1, <1>2, <1>3 DEF WalkInv

(* A worker that ends hands over all its hits.                             *)
LEMMA EndPreserves ==
  ASSUME WalkInv, NEW w \in Workers, End(w)
  PROVE  WalkInv'
  <1> USE DEF End
  <1>1. /\ Walked' /\ HeldOnce /\ NoneDropped /\ SlotIsTruthful /\ ReplyIsTruthful'
        /\ Entries' = Entries /\ Matching' = Matching /\ Visited' = Visited
        /\ \A g : Oversized(g)' <=> Oversized(g)
    BY WorkerFrame DEF Step, Visited
  <1>2. hits' = [hits EXCEPT ![w] = {}] /\ hits \in [Workers -> SUBSET Entries]
    BY DEF WalkInv, Shape
  <1>3. Shape' /\ Control'
    BY <1>1, <1>2 DEF WalkInv, Shape, Control
  <1>4. HeldOnce'
    BY <1>1, <1>2, EntryShape DEF HeldOnce, WalkInv, Shape
  <1>5. NoneDropped'
    BY <1>1, <1>2 DEF NoneDropped
  <1>6. SlotIsTruthful'
    BY <1>1 DEF SlotIsTruthful
  <1> QED
    BY <1>1, <1>3, <1>4, <1>5, <1>6 DEF WalkInv

(* The response fails exactly when the slot is filled.                     *)
LEMMA RespondPreserves ==
  ASSUME WalkInv, Respond
  PROVE  WalkInv'
  <1>1. /\ phase = "walking" /\ phase' = "answered" /\ Walked
        /\ \A w \in Workers : pc[w] = "ended"
        /\ UNCHANGED <<tree, request, pending, pc, visiting, hits, slot, collected>>
    BY DEF Respond, Reply, walkVars, WalkInv, Control
  <1>2. HeldOnce /\ NoneDropped /\ SlotIsTruthful
    BY <1>1 DEF WalkInv
  <1>3. Shape' /\ Control'
    BY <1>1 DEF WalkInv, Shape, Control, Entries
  <1>4. HeldOnce' /\ NoneDropped' /\ SlotIsTruthful'
    BY <1>1, <1>2 DEF HeldOnce, NoneDropped, SlotIsTruthful, Visited, Matching, Matches, Entries,
                      Oversized
  <1>5. ReplyIsTruthful'
    <2>1. \A c : Failed(c).code = c
      BY DEF Failed
    <2>2. \A found, skips : Assemble(found, skips).code = "ok"
      BY DEF Assemble
    <2>3. reply' = IF slot # None THEN Failed(slot) ELSE Assemble(collected, skipped)
      BY DEF Respond, Reply
    <2>4. slot # None => slot = "file_too_large"
      BY DEF WalkInv, Shape
    <2> QED
      BY <1>1, <2>1, <2>2, <2>3, <2>4 DEF ReplyIsTruthful
  <1> QED
    BY <1>3, <1>4, <1>5 DEF WalkInv

LEMMA StepPreserves == WalkInv /\ [Next]_vars => WalkInv'
  <1> SUFFICES ASSUME WalkInv, [Next]_vars
               PROVE  WalkInv'
    OBVIOUS
  <1>1. CASE Handle
    BY <1>1, RefusalPreserves, StartPreserves, RespondPreserves DEF Handle
  <1>2. ASSUME NEW w \in Workers, Step(w)
        PROVE  WalkInv'
    BY <1>2, VisitPreserves, PassPreserves, FailPreserves, CountPreserves, StopPreserves,
       EndPreserves DEF Step
  <1>3. CASE UNCHANGED vars
    <2>1. UNCHANGED <<tree, request, phase, pending, pc, visiting, hits, slot, collected, reply>>
      BY <1>3 DEF vars
    <2>2. /\ Entries' = Entries /\ Visited' = Visited /\ Matching' = Matching
          /\ Walked' <=> Walked
          /\ \A f : Oversized(f)' <=> Oversized(f)
      BY <2>1 DEF Entries, Visited, Matching, Matches, Walked, IsValid, Oversized
    <2>3. Shape' /\ Control'
      BY <2>1, <2>2 DEF WalkInv, Shape, Control
    <2>4. phase # "called" /\ Walked =>
            HeldOnce' /\ NoneDropped' /\ SlotIsTruthful' /\ ReplyIsTruthful'
      BY <2>1, <2>2 DEF WalkInv, HeldOnce, NoneDropped, SlotIsTruthful, ReplyIsTruthful
    <2> QED
      BY <2>1, <2>2, <2>3, <2>4 DEF WalkInv
  <1> QED
    BY <1>1, <1>2, <1>3 DEF Next

LEMMA WalkInvHolds == Spec => []WalkInv
BY InitEstablishes, StepPreserves, PTL DEF Spec

-----------------------------------------------------------------------------

(* No hit is lost or reported twice, however many workers there are, in    *)
(* whatever order they visit, stop one another and end (grep.rs, visit and *)
(* drop of GrepVisitor).                                                   *)
THEOREM HitsAreKept == Spec => []HitsAreAccountedFor
  <1>1. WalkInv => HitsAreAccountedFor
    <2> SUFFICES ASSUME WalkInv, phase # "called", Walked
                 PROVE  HitsAreAccountedFor
      BY DEF HitsAreAccountedFor
    <2> DEFINE searched(w) == IF visiting[w] = None THEN {} ELSE {visiting[w]}
    <2>1. HeldOnce /\ NoneDropped
      BY DEF WalkInv
    <2>2. \A w \in Workers : hits[w] \subseteq Visited /\ searched(w) \subseteq Visited
      BY <2>1 DEF HeldOnce, WalkInv, Shape, Visited
    <2>3. collected \subseteq Visited
      BY <2>1 DEF HeldOnce, WalkInv, Shape, Visited
    <2>4. None \notin Entries
      BY EntryShape DEF WalkInv, Shape
    <2>5. Visited \cap Matching \subseteq
            collected \cup UNION {hits[w] \cup searched(w) : w \in Workers}
      <3> SUFFICES ASSUME NEW f \in Visited \cap Matching, f \notin collected
                   PROVE  \E w \in Workers : f \in hits[w] \cup searched(w)
        OBVIOUS
      <3>1. f # None
        BY <2>4 DEF Visited
      <3> QED
        BY <2>1, <3>1 DEF NoneDropped
    <2>6. UNION {hits[w] \cup searched(w) : w \in Workers} \subseteq Visited
      BY <2>2
    <2>7. \A w \in Workers :
            /\ hits[w] \cap (collected \cup searched(w)) = {}
            /\ \A v \in Workers \ {w} :
                 (hits[w] \cup searched(w)) \cap (hits[v] \cup searched(v)) = {}
      BY <2>1 DEF HeldOnce
    <2> QED
      BY <2>3, <2>5, <2>6, <2>7 DEF HitsAreAccountedFor
  <1> QED
    BY <1>1, WalkInvHolds, PTL

(* A walk fails with file_too_large exactly when one of its workers met an *)
(* oversized file (grep.rs, the error slot of SearchContext).              *)
THEOREM WalksFailOnOversized == Spec => []OversizedFailsTheWalk
  <1>1. WalkInv => OversizedFailsTheWalk
    <2> SUFFICES ASSUME WalkInv, phase = "answered", Walked
                 PROVE  reply.code = "file_too_large" <=> \E f \in Visited : Oversized(f)
      BY DEF OversizedFailsTheWalk, Oversized
    <2>1. SlotIsTruthful /\ ReplyIsTruthful
      BY DEF WalkInv
    <2>2. \A w \in Workers : visiting[w] = None
      BY DEF WalkInv, Control
    <2>3. \A f \in Visited : f # None
      BY EntryShape DEF WalkInv, Shape, Visited
    <2> QED
      BY <2>1, <2>2, <2>3 DEF SlotIsTruthful, ReplyIsTruthful
  <1> QED
    BY <1>1, WalkInvHolds, PTL

-----------------------------------------------------------------------------

(* What TypeOK says beyond Shape.                                          *)
Counters ==
  /\ request \in Requests
  /\ total \in Nat
  /\ skipped \in [binary : Nat, utf8 : Nat]
  /\ quit \in BOOLEAN
  /\ IF phase = "answered" THEN reply.code \in Codes ELSE reply = None

(* Whatever the request is answered with has one of the codes.             *)
LEMMA AnswersHaveCodes ==
  ASSUME WalkInv, Counters, Handle
  PROVE  Counters'
  <1>1. UNCHANGED <<request, total, skipped, quit>>
    BY DEF Handle, Refuse, SearchExplicitFile, StartWalk, Respond, walkVars
  <1>2. CASE StartWalk
    BY <1>1, <1>2 DEF StartWalk, Counters
  <1>3. \A code : Failed(code).code = code
    BY DEF Failed
  <1>4. \A found, skips : Assemble(found, skips).code = "ok"
    BY DEF Assemble
  <1>5. CASE Refuse
    <2>1. request.fault \in {None, "invalid_pattern", "root_escape", "not_found"}
      BY GrepAssumption DEF Counters, Request
    <2>2. reply' \in {Failed("invalid_request"), Failed(request.fault)}
          /\ (reply' = Failed("invalid_request") \/ request.fault # None)
          /\ phase' = "answered"
      BY <1>5 DEF Refuse, Reply
    <2> QED
      BY <1>1, <1>3, <2>1, <2>2 DEF Counters, Codes
  <1>6. CASE SearchExplicitFile
    <2>1. PICK r \in ExplicitAnswers(request.target) : reply' = r /\ phase' = "answered"
      BY <1>6 DEF SearchExplicitFile, Reply
    <2>2. r.code \in Codes
      <3> DEFINE f == request.target
      <3>1. CASE tree[f].kind = "text"
        BY <1>4, <2>1, <3>1 DEF ExplicitAnswers, Codes
      <3>2. CASE tree[f].kind = "binary"
        BY <1>3, <2>1, <3>2 DEF ExplicitAnswers, Codes
      <3>3. CASE tree[f].kind = "utf8"
        BY <1>3, <2>1, <3>3 DEF ExplicitAnswers, Codes
      <3>4. CASE tree[f].kind = "oversized"
        BY <1>3, <2>1, <3>4 DEF ExplicitAnswers, Codes
      <3>5. CASE tree[f].kind \notin {"text", "binary", "utf8", "oversized"}
        <4>1. r \in {Failed(c) : c \in {"not_found", "permission_denied", "io"}}
          BY <2>1, <3>5 DEF ExplicitAnswers
        <4> QED
          BY <1>3, <4>1 DEF Codes
      <3> QED
        BY <3>1, <3>2, <3>3, <3>4, <3>5
    <2> QED
      BY <1>1, <2>1, <2>2 DEF Counters
  <1>7. CASE Respond
    <2>1. slot \in {None, "file_too_large"}
      BY DEF WalkInv, Shape
    <2>2. phase' = "answered" /\ reply'.code \in {"ok", "file_too_large"}
      BY <1>3, <1>4, <1>7, <2>1 DEF Respond, Reply
    <2> QED
      BY <1>1, <2>2 DEF Counters, Codes
  <1> QED
    BY <1>2, <1>5, <1>6, <1>7 DEF Handle

(* The counters stay numbers, and workers never answer.                    *)
LEMMA CountersCount ==
  ASSUME WalkInv, Counters, NEW w \in Workers, Step(w)
  PROVE  Counters'
  <1>1. UNCHANGED <<request, phase, reply>>
    BY DEF Step, Visit, Pass, Fail, Count, Stop, End
  <1>2. total' \in Nat
    <2>1. CASE Count(w)
      <3>1. visiting[w] \in Entries
        BY <2>1 DEF Count, WalkInv, Shape, Control
      <3> QED
        BY <2>1, <3>1, EntryShape DEF Count, Counters, WalkInv, Shape
    <2>2. CASE UNCHANGED total
      BY <2>2 DEF Counters
    <2> QED
      BY <2>1, <2>2 DEF Step, Visit, Pass, Fail, Stop, End
  <1>3. skipped' \in [binary : Nat, utf8 : Nat]
    <2>1. CASE Pass(w)
      <3>1. SkipReason(tree[visiting[w]].kind) \in {"binary", "utf8", None}
        BY DEF SkipReason
      <3> QED
        BY <2>1, <3>1 DEF Pass, Counters
    <2>2. CASE UNCHANGED skipped
      BY <2>2 DEF Counters
    <2> QED
      BY <2>1, <2>2 DEF Step, Visit, Fail, Count, Stop, End
  <1>4. quit' \in BOOLEAN
    BY DEF Step, Visit, Pass, Fail, Count, Stop, End, Counters
  <1> QED
    BY <1>1, <1>2, <1>3, <1>4 DEF Counters

(* Every reachable state of a grep is well typed, and every answer has one *)
(* of the codes of GrepRequest and search_file (grep.rs).                  *)
THEOREM WalkIsTyped == Spec => []TypeOK
  <1>1. Init => Counters
    <2> SUFFICES ASSUME Init
                 PROVE  Counters
      OBVIOUS
    <2>1. request \in Requests
      BY DEF Init
    <2>2. skipped \in [binary : Nat, utf8 : Nat]
      BY DEF Init, NoSkips
    <2>3. total = 0 /\ quit = FALSE /\ phase = "called" /\ reply = None
      BY DEF Init
    <2> QED
      BY <2>1, <2>2, <2>3 DEF Counters
  <1>2. WalkInv /\ Counters /\ [Next]_vars => Counters'
    <2>1. WalkInv /\ Counters /\ UNCHANGED vars => Counters'
      BY DEF vars, Counters
    <2> QED
      BY <2>1, AnswersHaveCodes, CountersCount DEF Next
  <1>3. WalkInv /\ Counters => TypeOK
    BY DEF WalkInv, Shape, Counters, TypeOK
  <1> QED
    BY <1>1, <1>2, <1>3, WalkInvHolds, PTL DEF Spec

(* A set of naturals with an element has a least one.                      *)
LEMMA Least ==
  ASSUME NEW T \in SUBSET Nat, T # {}
  PROVE  \E n \in T : \A m \in T : n <= m
  <1> DEFINE Less == {ss \in Nat \X Nat : ss[1] < ss[2]}
  <1>1. IsWellFoundedOn(Less, Nat)
    BY NatLessThanWellFounded DEF OpToRel
  <1> HIDE DEF Less
  <1>2. PICK n \in T : \A m \in T : ~(<<m, n>> \in Less)
    BY <1>1, WFMin
  <1>3. \A m \in T : ~(m < n)
    BY <1>2 DEF Less
  <1> QED
    BY <1>2, <1>3

(* A property of 0 that is handed on holds up to n: S is where it holds.   *)
LEMMA Reaches ==
  ASSUME NEW n \in Nat, NEW S, 0 \in S, \A j \in 1 .. n : j - 1 \in S => j \in S
  PROVE  0 .. n \subseteq S
  <1> DEFINE Bad == (0 .. n) \ S
  <1> SUFFICES ASSUME Bad # {} PROVE FALSE
    OBVIOUS
  <1>0. Bad \in SUBSET Nat
    OBVIOUS
  <1>1. PICK j \in Bad : \A i \in Bad : j <= i
    <2> HIDE DEF Bad
    <2> QED BY <1>0, Least
  <1>2. j \in 1 .. n /\ j - 1 \in 0 .. n /\ j - 1 \notin Bad
    BY <1>1
  <1> QED
    BY <1>1, <1>2

(* Sums over finite sets, by well-founded induction on the subsets of a    *)
(* set, with the property of a subset given as the set that has it.        *)

LEMMA SubsetInduction ==
  ASSUME NEW S, IsFiniteSet(S), NEW G,
         \A T \in SUBSET S : (\A U \in SUBSET T : U # T => U \in G) => T \in G
  PROVE  \A T \in SUBSET S : T \in G
  <1> DEFINE Bad == {T \in SUBSET S : T \notin G}
  <1> SUFFICES ASSUME Bad # {} PROVE FALSE
    OBVIOUS
  <1>1. IsWellFoundedOn(StrictSubsetOrdering(S), FiniteSubsetsOf(S))
    BY FS_StrictSubsetOrderingWellFounded
  <1>2. Bad \subseteq FiniteSubsetsOf(S)
    BY FS_FiniteSubsetsOfFinite
  <1>3. PICK T \in Bad : \A U \in Bad : <<U, T>> \notin StrictSubsetOrdering(S)
    <2> HIDE DEF Bad
    <2> QED BY <1>1, <1>2, WFMin
  <1>4. \A U \in SUBSET T : U # T => <<U, T>> \in StrictSubsetOrdering(S)
    BY DEF StrictSubsetOrdering
  <1>5. T \in SUBSET S /\ T \notin G
    OBVIOUS
  <1>6. PICK U \in SUBSET T : U # T /\ U \notin G
    BY <1>5
  <1>7. U \in Bad
    BY <1>5, <1>6
  <1> QED
    BY <1>3, <1>4, <1>6, <1>7

(* The element the folds of the community modules take next.               *)
Pick(T) == CHOOSE x \in T : TRUE

(* f sums the weights w over every subset of S, one picked element at a    *)
(* time.                                                                   *)
Sums(f, w, S) ==
  \A T \in SUBSET S : f[T] = IF T = {} THEN 0 ELSE w[Pick(T)] + f[T \ {Pick(T)}]

(* There is one such f ...                                                 *)
LEMMA SumsAgree ==
  ASSUME NEW S, IsFiniteSet(S), NEW w, NEW f, NEW g, NEW R, NEW Q,
         Sums(f, w, R), Sums(g, w, Q), S \subseteq R, S \subseteq Q
  PROVE  f[S] = g[S]
  <1> DEFINE G == {T \in SUBSET S : f[T] = g[T]}
  <1>1. ASSUME NEW T \in SUBSET S, \A U \in SUBSET T : U # T => U \in G
        PROVE  T \in G
    <2>1. T # {} => T \ {Pick(T)} \in SUBSET T /\ T \ {Pick(T)} # T
      BY DEF Pick
    <2>2. T # {} => f[T \ {Pick(T)}] = g[T \ {Pick(T)}]
      BY <1>1, <2>1
    <2>3. f[T] = IF T = {} THEN 0 ELSE w[Pick(T)] + f[T \ {Pick(T)}]
      BY DEF Sums
    <2>4. g[T] = IF T = {} THEN 0 ELSE w[Pick(T)] + g[T \ {Pick(T)}]
      BY DEF Sums
    <2> QED
      BY <2>2, <2>3, <2>4
  <1>2. \A T \in SUBSET S : T \in G
    <2> HIDE DEF G
    <2> QED BY <1>1, SubsetInduction
  <1> QED
    BY <1>2

(* ... at least.                                                           *)
LEMMA SumsExist ==
  ASSUME NEW S, IsFiniteSet(S), NEW w \in [S -> Int]
  PROVE  \E f \in [SUBSET S -> Int] : Sums(f, w, S)
  <1> DEFINE G == {T \in SUBSET S : \E f \in [SUBSET T -> Int] : Sums(f, w, T)}
  <1>1. ASSUME NEW T \in SUBSET S, \A U \in SUBSET T : U # T => U \in G
        PROVE  T \in G
    <2> DEFINE F(U) == CHOOSE f \in [SUBSET U -> Int] : Sums(f, w, U)
               g == [U \in SUBSET T |->
                       IF U = {} THEN 0
                       ELSE w[Pick(U)] + F(U \ {Pick(U)})[U \ {Pick(U)}]]
    <2>1. ASSUME NEW U \in SUBSET T, U # T
          PROVE  F(U) \in [SUBSET U -> Int] /\ Sums(F(U), w, U)
      <3>1. U \in G
        BY <1>1, <2>1
      <3>2. \E f \in [SUBSET U -> Int] : Sums(f, w, U)
        BY <3>1
      <3> QED
        BY <3>2
    <2> HIDE DEF F
    <2>2. ASSUME NEW U \in SUBSET T, U # {}
          PROVE  /\ U \ {Pick(U)} \in SUBSET T /\ U \ {Pick(U)} # T
                 /\ U \ {Pick(U)} \subseteq U /\ U \ {Pick(U)} # U
                 /\ w[Pick(U)] \in Int
      BY <2>2 DEF Pick
    <2>3. g \in [SUBSET T -> Int]
      <3>1. ASSUME NEW U \in SUBSET T, U # {}
            PROVE  F(U \ {Pick(U)})[U \ {Pick(U)}] \in Int
        <4> DEFINE V == U \ {Pick(U)}
        <4>1. V \in SUBSET T /\ V # T
          BY <2>2, <3>1
        <4>2. F(V) \in [SUBSET V -> Int]
          BY <2>1, <4>1
        <4> QED
          BY <4>2
      <3> QED
        BY <2>2, <3>1
    <2>4. ASSUME NEW U \in SUBSET T, U # T PROVE g[U] = F(U)[U]
      <3>1. F(U) \in [SUBSET U -> Int] /\ Sums(F(U), w, U)
        BY <2>1, <2>4
      <3>2. F(U)[U] = IF U = {} THEN 0 ELSE w[Pick(U)] + F(U)[U \ {Pick(U)}]
        BY <3>1 DEF Sums
      <3>3. CASE U = {}
        BY <3>2, <3>3
      <3>4. CASE U # {}
        <4> DEFINE V == U \ {Pick(U)}
        <4>1. V \in SUBSET T /\ V # T /\ V \subseteq U /\ V \in SUBSET S
          BY <2>2, <3>4
        <4>2. Sums(F(V), w, V)
          BY <2>1, <4>1
        <4>3. IsFiniteSet(V)
          BY <4>1, FS_Subset
        <4>4. F(U)[V] = F(V)[V]
          <5> HIDE DEF V
          <5> QED BY <3>1, <4>1, <4>2, <4>3, SumsAgree
        <4> QED
          BY <3>2, <3>4, <4>4
      <3> QED
        BY <3>3, <3>4
    <2>5. ASSUME NEW U \in SUBSET T
          PROVE  g[U] = IF U = {} THEN 0 ELSE w[Pick(U)] + g[U \ {Pick(U)}]
      BY <2>2, <2>4
    <2>6. Sums(g, w, T)
      <3> HIDE DEF g
      <3> QED BY <2>5 DEF Sums
    <2> QED
      BY <2>3, <2>6
  <1>2. \A T \in SUBSET S : T \in G
    <2> HIDE DEF G
    <2> QED BY <1>1, SubsetInduction
  <1> QED
    BY <1>2

(* The sum of the weights w over S, as the model takes it.                 *)
Sum(w, S) == MapThenSumSet(LAMBDA x : w[x], S)

LEMMA SumIs ==
  ASSUME NEW S, IsFiniteSet(S), NEW w \in [S -> Int], NEW T \in SUBSET S, 
         NEW f, Sums(f, w, S)
  PROVE  Sum(w, T) = f[T]
  <1> DEFINE Body(iter) ==
        [s \in SUBSET T |-> IF s = {} THEN 0 ELSE w[Pick(s)] + iter[s \ {Pick(s)}]]
      iter == CHOOSE iter : iter = Body(iter)
  <1>1. Sum(w, T) = iter[T]
    BY DEF Sum, MapThenSumSet, MapThenFoldSet, Pick
  <1>2. \E h : h = Body(h)
    <2> DEFINE h == [s \in SUBSET T |-> f[s]]
    <2>1. ASSUME NEW s \in SUBSET T PROVE h[s] = Body(h)[s]
      <3>1. s # {} => s \ {Pick(s)} \in SUBSET T
        OBVIOUS
      <3>2. f[s] = IF s = {} THEN 0 ELSE w[Pick(s)] + f[s \ {Pick(s)}]
        BY DEF Sums
      <3> QED
        BY <3>1, <3>2
    <2>2. h = Body(h)
      BY <2>1
    <2> QED
      BY <2>2
  <1>3. iter = Body(iter)
    <2> HIDE DEF Body
    <2> QED BY <1>2
  <1>4. Sums(iter, w, T)
    <2> SUFFICES ASSUME NEW U \in SUBSET T
                 PROVE  iter[U] = IF U = {} THEN 0 ELSE w[Pick(U)] + iter[U \ {Pick(U)}]
      BY DEF Sums
    <2> HIDE DEF iter
    <2> QED BY <1>3
  <1>5. IsFiniteSet(T)
    BY FS_Subset
  <1> HIDE DEF iter
  <1> QED
    BY <1>1, <1>4, <1>5, SumsAgree

LEMMA SumType ==
  ASSUME NEW S, IsFiniteSet(S), NEW w \in [S -> Int]
  PROVE  /\ Sum(w, {}) = 0
         /\ \A T \in SUBSET S : Sum(w, T) \in Int
  <1>1. PICK f \in [SUBSET S -> Int] : Sums(f, w, S)
    BY SumsExist
  <1>2. \A T \in SUBSET S : Sum(w, T) = f[T]
    BY <1>1, SumIs
  <1>3. f[{}] = 0
    BY <1>1 DEF Sums
  <1> QED
    BY <1>2, <1>3

(* Any element may be the one that is added last.                          *)
LEMMA SumTake ==
  ASSUME NEW S, IsFiniteSet(S), NEW w \in [S -> Int],
         NEW T \in SUBSET S, NEW x \in T
  PROVE  Sum(w, T) = w[x] + Sum(w, T \ {x})
  <1>1. PICK f \in [SUBSET S -> Int] : Sums(f, w, S)
    BY SumsExist
  <1> DEFINE G == {U \in SUBSET S : \A z \in U : f[U] = w[z] + f[U \ {z}]}
  <1>2. ASSUME NEW V \in SUBSET S, \A U \in SUBSET V : U # V => U \in G
        PROVE  V \in G
    <2> SUFFICES ASSUME NEW z \in V PROVE f[V] = w[z] + f[V \ {z}]
      OBVIOUS
    <2> DEFINE y == Pick(V)
               Vy == V \ {y}
               Vz == V \ {z}
    <2>1. y \in V /\ f[V] = w[y] + f[Vy]
      BY <1>1 DEF Sums, Pick
    <2>2. CASE y = z
      BY <2>1, <2>2
    <2>3. CASE y # z
      <3> HIDE DEF y
      <3>1. Vy \in G /\ z \in Vy /\ Vz \in G /\ y \in Vz /\ Vy \ {z} = Vz \ {y}
        BY <1>2, <2>1, <2>3
      <3>2. f[Vy] = w[z] + f[Vy \ {z}] /\ f[Vz] = w[y] + f[Vz \ {y}]
        BY <3>1
      <3>3. w[y] \in Int /\ w[z] \in Int /\ f[Vy \ {z}] \in Int
        BY <2>1
      <3> QED
        BY <2>1, <3>1, <3>2, <3>3
    <2> QED
      BY <2>2, <2>3
  <1>3. \A V \in SUBSET S : V \in G
    <2> HIDE DEF G
    <2> QED BY <1>2, SubsetInduction
  <1> QED
    BY <1>1, <1>3, SumIs

LEMMA SumOfNaturals ==
  ASSUME NEW S, IsFiniteSet(S), NEW w \in [S -> Nat], NEW T \in SUBSET S
  PROVE  Sum(w, T) \in Nat
  <1> DEFINE G == {U \in SUBSET S : Sum(w, U) \in Nat}
  <1>1. ASSUME NEW U \in SUBSET S, \A V \in SUBSET U : V # U => V \in G
        PROVE  U \in G
    <2>1. CASE U = {}
      BY <2>1, SumType
    <2>2. CASE U # {}
      <3>1. PICK x \in U : TRUE
        BY <2>2
      <3>2. U \ {x} \in G
        BY <1>1
      <3>3. Sum(w, U) = w[x] + Sum(w, U \ {x})
        BY SumTake
      <3> QED
        BY <3>2, <3>3
    <2> QED
      BY <2>1, <2>2
  <1>2. \A U \in SUBSET S : U \in G
    <2> HIDE DEF G
    <2> QED BY <1>1, SubsetInduction
  <1> QED
    BY <1>2

(* More adds more.                                                         *)
LEMMA SumGrows ==
  ASSUME NEW S, IsFiniteSet(S), NEW w \in [S -> Nat], NEW U \in SUBSET S, NEW T \in SUBSET U
  PROVE  Sum(w, T) <= Sum(w, U)
  <1> DEFINE G == {V \in SUBSET S : \A W \in SUBSET V : Sum(w, W) <= Sum(w, V)}
  <1>0. w \in [S -> Int]
    OBVIOUS
  <1>1. ASSUME NEW V \in SUBSET S, \A W \in SUBSET V : W # V => W \in G
        PROVE  V \in G
    <2> SUFFICES ASSUME NEW W \in SUBSET V PROVE Sum(w, W) <= Sum(w, V)
      OBVIOUS
    <2>1. Sum(w, V) \in Nat
      BY SumOfNaturals
    <2>2. CASE W = V
      BY <2>1, <2>2
    <2>3. CASE W # V
      <3>1. PICK x \in V : x \notin W
        BY <2>3
      <3>2. V \ {x} \in G /\ W \in SUBSET (V \ {x})
        BY <1>1, <3>1
      <3>3. Sum(w, W) <= Sum(w, V \ {x})
        BY <3>2
      <3>4. Sum(w, V) = w[x] + Sum(w, V \ {x})
        BY <1>0, SumTake
      <3>5. Sum(w, V \ {x}) \in Nat /\ Sum(w, W) \in Nat /\ w[x] \in Nat
        BY SumOfNaturals
      <3> QED
        BY <3>3, <3>4, <3>5
    <2> QED
      BY <2>2, <2>3
  <1>2. \A V \in SUBSET S : V \in G
    <2> HIDE DEF G
    <2> QED BY <1>1, SubsetInduction
  <1> QED
    BY <1>2

-----------------------------------------------------------------------------
(* The response: what the loop of assemble_output leaves                   *)

(* f takes n steps from base.                                              *)
Recurs(f, n, base, step) ==
  f[0] = base /\ \A k \in 1 .. n : f[k] = step[<<f[k - 1], k>>]

LEMMA RecursionExists ==
  ASSUME NEW n \in Nat, NEW R, NEW base \in R, NEW step \in [R \X (1 .. n) -> R]
  PROVE  \E f \in [0 .. n -> R] : Recurs(f, n, base, step)
  <1> DEFINE S == {m \in 0 .. n : \E f \in [0 .. m -> R] : Recurs(f, m, base, step)}
  <1>1. 0 \in S
    <2> DEFINE f == [i \in 0 .. 0 |-> base]
    <2>1. f \in [0 .. 0 -> R] /\ Recurs(f, 0, base, step)
      BY DEF Recurs
    <2> QED
      BY <2>1
  <1>2. ASSUME NEW m \in 1 .. n, m - 1 \in S
        PROVE  m \in S
    <2>1. PICK f \in [0 .. m - 1 -> R] : Recurs(f, m - 1, base, step)
      BY <1>2
    <2> DEFINE v == step[<<f[m - 1], m>>]
               g == [i \in 0 .. m |-> IF i = m THEN v ELSE f[i]]
    <2>2. v \in R /\ m - 1 \in Nat
      BY <2>1
    <2> HIDE DEF v
    <2>3. g \in [0 .. m -> R]
      BY <2>1, <2>2
    <2>4. g[m] = v /\ \A i \in 0 .. m - 1 : g[i] = f[i]
      BY <2>2
    <2> HIDE DEF g
    <2>5. g[0] = base
      BY <2>1, <2>2, <2>4 DEF Recurs
    <2>6. ASSUME NEW k \in 1 .. m
          PROVE  g[k] = step[<<g[k - 1], k>>]
      <3>1. k - 1 \in 0 .. m - 1 /\ g[k - 1] = f[k - 1]
        BY <2>2, <2>4
      <3>2. CASE k = m
        BY <2>4, <3>1, <3>2 DEF v
      <3>3. CASE k # m
        <4>1. k \in 1 .. m - 1 /\ g[k] = f[k]
          BY <2>4, <3>3
        <4> QED
          BY <2>1, <3>1, <4>1 DEF Recurs
      <3> QED
        BY <3>2, <3>3
    <2>7. Recurs(g, m, base, step)
      BY <2>5, <2>6 DEF Recurs
    <2> QED
      BY <2>3, <2>7
  <1>3. n \in S
    <2> HIDE DEF S
    <2>1. 0 .. n \subseteq S
      BY <1>1, <1>2, Reaches
    <2> QED
      BY <2>1
  <1> QED
    BY <1>3

(* The match lines of each entry.                                          *)
MatchCounts == [f \in Entries |-> Matches(f)]

LEMMA EntriesCount ==
  ASSUME tree \in Trees
  PROVE  /\ Len(tree) \in Nat /\ Entries = 1 .. Len(tree)
         /\ IsFiniteSet(Entries)
         /\ MatchCounts \in [Entries -> Nat] /\ MatchCounts \in [Entries -> Int]
         /\ \A f \in Entries : MatchCounts[f] = Matches(f)
  <1>1. tree \in Seq(Entry)
    BY GrepAssumption
  <1>2. Len(tree) \in Nat /\ Entries = 1 .. Len(tree)
    BY <1>1 DEF Entries
  <1>3. IsFiniteSet(Entries)
    BY <1>2, FS_Interval
  <1> QED
    BY <1>2, <1>3, EntryShape DEF MatchCounts

(* The sum the properties take is the one of the lemmas above.             *)
LEMMA MatchSums ==
  ASSUME tree \in Trees, NEW T \in SUBSET Entries
  PROVE  MatchesIn(T) = Sum(MatchCounts, T)
  <1> DEFINE F(iter) == [s \in SUBSET T |-> IF s = {} THEN 0
                           ELSE Matches(Pick(s)) + iter[s \ {Pick(s)}]]
             H(iter) == [s \in SUBSET T |-> IF s = {} THEN 0
                           ELSE MatchCounts[Pick(s)] + iter[s \ {Pick(s)}]]
  <1>1. MatchesIn(T) = (CHOOSE iter : iter = F(iter))[T]
    BY DEF MatchesIn, MapThenSumSet, MapThenFoldSet, Pick
  <1>2. Sum(MatchCounts, T) = (CHOOSE iter : iter = H(iter))[T]
    BY DEF Sum, MapThenSumSet, MapThenFoldSet, Pick
  <1>3. ASSUME NEW s \in SUBSET T, s # {}
        PROVE  Matches(Pick(s)) = MatchCounts[Pick(s)]
    <2>1. Pick(s) \in Entries
      BY <1>3 DEF Pick
    <2> QED
      BY <2>1, EntriesCount
  <1>4. \A iter : F(iter) = H(iter)
    BY <1>3
  <1> HIDE DEF F, H
  <1> QED
    BY <1>1, <1>2, <1>4

(* What the response is while it is put together.                          *)
Outputs == [files : Seq(Nat), matches : Nat, truncated : BOOLEAN]

(* The found files up to the entry k, and those of them before which the   *)
(* budget was not used up.                                                 *)
FoundUpTo(found, k) == {f \in found : f <= k}
ShownUpTo(w, max, found, k) ==
  {f \in FoundUpTo(found, k) : Sum(w, FoundUpTo(found, f - 1)) < max}

(* out reports what the budget allows of the files up to k.                *)
Fits(out, w, max, found, k) ==
  LET shown == ShownUpTo(w, max, found, k) IN
  /\ {out.files[i] : i \in DOMAIN out.files} = shown
  /\ \A i, j \in DOMAIN out.files : i < j => out.files[i] < out.files[j]
  /\ out.matches = Sum(w, shown)
  /\ out.truncated <=> shown # FoundUpTo(found, k)
  /\ out.truncated => out.matches >= max

(* A file that was not found changes nothing.                              *)
LEMMA SkippingFits ==
  ASSUME NEW out, NEW w, NEW max, NEW found \in SUBSET Nat, NEW k \in Nat \ {0}, k \notin found,
         Fits(out, w, max, found, k - 1)
  PROVE  Fits(out, w, max, found, k)
  <1>1. FoundUpTo(found, k) = FoundUpTo(found, k - 1)
    <2>1. \A f \in found : f <= k <=> f <= k - 1
      <3> SUFFICES ASSUME NEW f \in found PROVE f <= k <=> f <= k - 1
        OBVIOUS
      <3>1. f \in Nat /\ f # k
        OBVIOUS
      <3> QED
        BY <3>1
    <2> QED
      BY <2>1 DEF FoundUpTo
  <1>2. ShownUpTo(w, max, found, k) = ShownUpTo(w, max, found, k - 1)
    BY <1>1 DEF ShownUpTo
  <1> QED
    BY <1>1, <1>2 DEF Fits

LEMMA ShowingIsTyped ==
  ASSUME tree \in Trees, NEW k \in Entries, NEW out \in Outputs
  PROVE  Show(out, k) \in Outputs
  <1> DEFINE y == [out EXCEPT !.files = Append(out.files, k)]
             o == [y EXCEPT !.matches = out.matches + Matches(k)]
  <1>1. /\ out.files \in Seq(Nat) /\ out.matches \in Nat /\ k \in Nat
        /\ Matches(k) \in Nat
    BY EntriesCount DEF Outputs
  <1>2. Append(out.files, k) \in Seq(Nat) /\ out.matches + Matches(k) \in Nat
    BY <1>1
  <1>3. y \in Outputs
    BY <1>2 DEF Outputs
  <1>4. Show(out, k) = [out EXCEPT !.truncated = TRUE] \/ Show(out, k) = o
    BY DEF Show, Outputs
  <1>5. o \in Outputs
    <2> HIDE DEF y
    <2> QED
      BY <1>2, <1>3 DEF Outputs
  <1>6. [out EXCEPT !.truncated = TRUE] \in Outputs
    BY DEF Outputs
  <1> QED
    BY <1>4, <1>5, <1>6

(* A file that was found is shown when the budget was not used up before.  *)
LEMMA ShowingFits ==
  ASSUME tree \in Trees, request.max \in Nat, NEW found \in SUBSET Entries, NEW k \in found,
         NEW out \in Outputs, Fits(out, MatchCounts, request.max, found, k - 1)
  PROVE  Fits(Show(out, k), MatchCounts, request.max, found, k)
  <1> DEFINE w == MatchCounts
             max == request.max
             before == FoundUpTo(found, k - 1)
             shown == ShownUpTo(w, max, found, k - 1)
  <1>1. /\ found \subseteq Nat /\ k \in Nat \ {0} /\ max \in Nat
        /\ IsFiniteSet(Entries) /\ w \in [Entries -> Nat] /\ w \in [Entries -> Int]
        /\ w[k] = Matches(k) /\ Matches(k) \in Nat
    BY EntriesCount
  <1> HIDE DEF w, max
  <1>2. /\ FoundUpTo(found, k) = before \cup {k} /\ k \notin before
        /\ before \in SUBSET Entries
    <2>1. \A f \in found : (f <= k <=> f <= k - 1 \/ f = k) /\ ~(k <= k - 1) /\ k <= k
      <3> SUFFICES ASSUME NEW f \in found
                   PROVE  (f <= k <=> f <= k - 1 \/ f = k) /\ ~(k <= k - 1) /\ k <= k
        OBVIOUS
      <3>1. f \in Nat
        BY <1>1
      <3> QED
        BY <1>1, <3>1
    <2> QED
      BY <2>1 DEF FoundUpTo
  <1>3. shown \subseteq before /\ k \notin shown /\ shown \in SUBSET Entries
    BY <1>2 DEF ShownUpTo
  <1>4. ShownUpTo(w, max, found, k) = IF Sum(w, before) < max THEN shown \cup {k} ELSE shown
    BY <1>2 DEF ShownUpTo
  <1>5. Sum(w, before) \in Nat /\ Sum(w, shown) \in Nat
    BY <1>1, <1>2, <1>3, SumOfNaturals
  <1>6. /\ {out.files[i] : i \in DOMAIN out.files} = shown
        /\ \A i, j \in DOMAIN out.files : i < j => out.files[i] < out.files[j]
        /\ out.matches = Sum(w, shown)
        /\ out.truncated <=> shown # before
        /\ out.truncated => out.matches >= max
    BY DEF Fits, w, max
  <1>7. out.files \in Seq(Nat) /\ out.matches \in Nat /\ out.truncated \in BOOLEAN
    BY DEF Outputs
  <1>8. CASE out.truncated \/ out.matches >= max
    <2> DEFINE o == [out EXCEPT !.truncated = TRUE]
    <2>1. Show(out, k) = o
      BY <1>8 DEF Show, max
    <2>2. o.files = out.files /\ o.matches = out.matches /\ o.truncated
      BY DEF Outputs
    <2>3. Sum(w, before) >= max
      <3>1. Sum(w, shown) <= Sum(w, before)
        BY <1>1, <1>2, <1>3, SumGrows
      <3>2. out.matches >= max
        BY <1>6, <1>8
      <3> QED
        BY <1>1, <1>5, <1>6, <3>1, <3>2
    <2>4. ShownUpTo(w, max, found, k) = shown
      BY <1>1, <1>4, <1>5, <2>3
    <2>5. shown # FoundUpTo(found, k)
      BY <1>2, <1>3
    <2>6. o.matches >= max
      BY <1>6, <1>8, <2>2
    <2> HIDE DEF o, shown
    <2>7. Fits(o, w, max, found, k)
      BY <1>6, <2>2, <2>4, <2>5, <2>6 DEF Fits
    <2> QED
      BY <2>1, <2>7 DEF w, max
  <1>9. CASE ~out.truncated /\ ~(out.matches >= max)
    <2> DEFINE o == [out EXCEPT !.files = Append(out.files, k), !.matches = out.matches + Matches(k)]
    <2>1. Show(out, k) = o
      BY <1>9 DEF Show, max
    <2>2. /\ o.files = Append(out.files, k) /\ o.matches = out.matches + w[k]
          /\ o.truncated = out.truncated
      BY <1>1 DEF Outputs
    <2> HIDE DEF o
    <2>4. shown = before /\ Sum(w, before) < max
      BY <1>1, <1>6, <1>7, <1>9
    <2>5. ShownUpTo(w, max, found, k) = shown \cup {k} /\ FoundUpTo(found, k) = shown \cup {k}
      BY <1>2, <1>4, <2>4
    <2>6. Sum(w, shown \cup {k}) = w[k] + Sum(w, shown)
      <3> DEFINE T == shown \cup {k}
      <3>1. T \ {k} = shown /\ T \in SUBSET Entries /\ k \in T
        BY <1>3
      <3> HIDE DEF T, shown
      <3>2. Sum(w, T) = w[k] + Sum(w, T \ {k})
        <4>1. IsFiniteSet(Entries) /\ w \in [Entries -> Int] /\ T \in SUBSET Entries /\ k \in T
          BY <1>1, <3>1
        <4> QED
          BY ONLY <4>1, SumTake
      <3> QED
        BY <3>1, <3>2 DEF T
    <2>7. o.matches = Sum(w, shown \cup {k})
      BY <1>1, <1>5, <1>6, <2>2, <2>6
    <2> DEFINE n == Len(out.files)
    <2>8. /\ n \in Nat /\ DOMAIN out.files = 1 .. n /\ DOMAIN o.files = 1 .. n + 1
          /\ o.files[n + 1] = k
          /\ \A i \in 1 .. n : o.files[i] = out.files[i]
      BY <1>1, <1>7, <2>2
    <2> HIDE DEF n
    <2>9. {o.files[i] : i \in DOMAIN o.files} = shown \cup {k}
      <3>1. \A f \in shown : \E i \in DOMAIN o.files : o.files[i] = f
        <4> SUFFICES ASSUME NEW f \in shown
                     PROVE  \E i \in DOMAIN o.files : o.files[i] = f
          OBVIOUS
        <4>1. PICK i \in DOMAIN out.files : out.files[i] = f
          BY <1>6
        <4> QED
          BY <2>8, <4>1
      <3>2. \A i \in DOMAIN o.files : o.files[i] \in shown \cup {k}
        <4> SUFFICES ASSUME NEW i \in 1 .. n + 1
                     PROVE  o.files[i] \in shown \cup {k}
          BY <2>8
        <4>1. i \in 1 .. n \/ i = n + 1
          BY <2>8
        <4>2. i \in 1 .. n => out.files[i] \in shown
          BY <1>6, <2>8
        <4> QED
          BY <2>8, <4>1, <4>2
      <3>3. \E i \in DOMAIN o.files : o.files[i] = k
        BY <2>8
      <3> HIDE DEF shown
      <3> QED
        BY <3>1, <3>2, <3>3
    <2>10. ASSUME NEW i \in DOMAIN o.files, NEW j \in DOMAIN o.files, i < j
           PROVE  o.files[i] < o.files[j]
      <3>1. i \in 1 .. n
        BY <2>8, <2>10
      <3>2. o.files[i] = out.files[i] /\ out.files[i] \in shown
        BY <1>6, <2>8, <3>1
      <3>3. CASE j = n + 1
        <4>1. out.files[i] \in before
          BY <1>3, <3>2
        <4>2. out.files[i] <= k - 1 /\ out.files[i] \in Nat
          BY <1>1, <4>1 DEF FoundUpTo
        <4> QED
          BY <1>1, <2>8, <3>2, <3>3, <4>2
      <3>4. CASE j # n + 1
        <4>1. j \in 1 .. n
          BY <2>8, <3>4
        <4> QED
          BY <1>6, <2>8, <2>10, <3>1, <4>1
      <3> QED
        BY <3>3, <3>4
    <2>11. ~o.truncated
      BY <1>9, <2>2
    <2> HIDE DEF shown
    <2>12. Fits(o, w, max, found, k)
      BY <2>5, <2>7, <2>9, <2>10, <2>11 DEF Fits
    <2> QED
      BY <2>1, <2>12 DEF w, max
  <1> QED
    BY <1>8, <1>9

(* The response that is put together reports what the budget allows.       *)
LEMMA AssembledFits ==
  ASSUME tree \in Trees, request.max \in Nat, NEW found \in SUBSET Entries, NEW skips
  PROVE  LET r == Assemble(found, skips) IN
         /\ r.code = "ok" /\ r.skipped = skips
         /\ r.files \in Seq(Nat) /\ r.truncated \in BOOLEAN
         /\ Fits(r, MatchCounts, request.max, found, Len(tree))
         /\ r.sections = IF request.mode = "content"
                           THEN [k \in DOMAIN r.files |->
                                   Section(tree[r.files[k]].text, tree[r.files[k]].matched,
                                           Before, After)]
                           ELSE <<>>
  <1> DEFINE n == Len(tree)
             none == [files |-> <<>>, matches |-> 0, truncated |-> FALSE]
             step == [x \in Outputs \X (1 .. n) |->
                        IF x[2] \in found THEN Show(x[1], x[2]) ELSE x[1]]
             Body(f) == [k \in 0 .. n |->
                           IF k = 0 THEN none
                           ELSE IF k \in found THEN Show(f[k - 1], k) ELSE f[k - 1]]
             upTo == CHOOSE f : f = Body(f)
             out == upTo[n]
             r == Assemble(found, skips)
  <1>1. n \in Nat /\ Entries = 1 .. n /\ found \in SUBSET Nat
    BY EntriesCount
  <1>2. /\ r.code = "ok" /\ r.skipped = skips
        /\ r.files = out.files /\ r.matches = out.matches /\ r.truncated = out.truncated
        /\ r.sections = IF request.mode = "content"
                          THEN [k \in DOMAIN r.files |->
                                  Section(tree[r.files[k]].text, tree[r.files[k]].matched,
                                          Before, After)]
                          ELSE <<>>
    BY DEF Assemble
  <1>3. none \in Outputs
    BY DEF Outputs
  <1>4. step \in [Outputs \X (1 .. n) -> Outputs]
    <2> SUFFICES ASSUME NEW x \in Outputs \X (1 .. n)
                 PROVE  (IF x[2] \in found THEN Show(x[1], x[2]) ELSE x[1]) \in Outputs
      OBVIOUS
    <2>1. x[1] \in Outputs
      OBVIOUS
    <2> QED
      BY <2>1, ShowingIsTyped
  <1>5. PICK f \in [0 .. n -> Outputs] : Recurs(f, n, none, step)
    <2> HIDE DEF step, none
    <2> QED
      BY <1>1, <1>3, <1>4, RecursionExists
  <1>6. f = Body(f)
    <2>1. f[0] = none
      BY <1>5 DEF Recurs
    <2>2. ASSUME NEW k \in 1 .. n
          PROVE  f[k] = IF k \in found THEN Show(f[k - 1], k) ELSE f[k - 1]
      <3>1. k - 1 \in 0 .. n /\ f[k - 1] \in Outputs
        BY <1>1, <1>5
      <3>2. f[k] = step[<<f[k - 1], k>>]
        BY <1>5 DEF Recurs
      <3> QED
        BY <3>1, <3>2
    <2> HIDE DEF none
    <2>3. \A k \in 0 .. n : f[k] = Body(f)[k]
      BY <1>1, <2>1, <2>2
    <2> HIDE DEF n
    <2> QED
      BY <1>5, <2>3
  <1>7. upTo = Body(upTo)
    <2> HIDE DEF Body
    <2> QED
      BY <1>6
  <1> DEFINE S == {k \in 0 .. n : upTo[k] \in Outputs
                                  /\ Fits(upTo[k], MatchCounts, request.max, found, k)}
  <1> HIDE DEF upTo, r
  <1>8. upTo[0] = none /\ \A k \in 1 .. n :
          upTo[k] = IF k \in found THEN Show(upTo[k - 1], k) ELSE upTo[k - 1]
    <2> HIDE DEF none
    <2> QED
      BY <1>1, <1>7, SMTT(30)
  <1>9. 0 \in S
    <2>1. FoundUpTo(found, 0) = {} /\ ShownUpTo(MatchCounts, request.max, found, 0) = {}
      BY <1>1 DEF FoundUpTo, ShownUpTo
    <2>2. Sum(MatchCounts, {}) = 0
      BY EntriesCount, SumType
    <2>3. none.files = <<>> /\ none.matches = 0 /\ none.truncated = FALSE
      OBVIOUS
    <2> HIDE DEF none
    <2>4. Fits(none, MatchCounts, request.max, found, 0)
      BY <2>1, <2>2, <2>3 DEF Fits
    <2> QED
      BY <1>1, <1>3, <1>8, <2>4
  <1>10. ASSUME NEW k \in 1 .. n, k - 1 \in S
         PROVE  k \in S
    <2>1. /\ upTo[k - 1] \in Outputs
          /\ Fits(upTo[k - 1], MatchCounts, request.max, found, k - 1)
          /\ k \in Entries /\ k \in Nat \ {0} /\ k \in 0 .. n
      BY <1>1, <1>10
    <2>2. CASE k \in found
      BY <1>8, <2>1, <2>2, ShowingIsTyped, ShowingFits
    <2>3. CASE k \notin found
      <3>1. upTo[k] = upTo[k - 1]
        BY <1>8, <2>3
      <3>2. Fits(upTo[k - 1], MatchCounts, request.max, found, k)
        BY <1>1, <2>1, <2>3, SkippingFits
      <3> QED
        BY <2>1, <3>1, <3>2
    <2> QED
      BY <2>2, <2>3
  <1>11. n \in S
    <2> HIDE DEF S
    <2>1. 0 .. n \subseteq S
      BY <1>1, <1>9, <1>10, Reaches
    <2> QED
      BY <1>1, <2>1
  <1>12. out \in Outputs /\ Fits(out, MatchCounts, request.max, found, n)
    BY <1>11
  <1> HIDE DEF out
  <1>13. r.files \in Seq(Nat) /\ r.truncated \in BOOLEAN
    BY <1>2, <1>12 DEF Outputs
  <1>14. Fits(r, MatchCounts, request.max, found, n)
    BY <1>2, <1>12 DEF Fits
  <1> QED
    BY <1>2, <1>13, <1>14 DEF r

-----------------------------------------------------------------------------
(* What the walk has counted, and why it ended                             *)

Searched == {f \in Visited : \A w \in Workers : visiting[w] # f}

OfKind(kind) == {f \in Searched : tree[f].kind = kind}

(* The counters count what was searched, and hits are files with matches.  *)
CountersAreExact ==
  /\ total = Sum(MatchCounts, Searched \cap Matching)
  /\ \A reason \in {"binary", "utf8"} : skipped[reason] = Cardinality(OfKind(reason))
  /\ collected \subseteq Matching
  /\ \A w \in Workers : /\ hits[w] \subseteq Matching
                        /\ pc[w] = "ended" => hits[w] = {}

(* A walk is stopped for a reason, and ends when stopped or at its end.    *)
StopsForAReason ==
  /\ quit \/ (\E w \in Workers : pc[w] = "stop") => slot # None \/ total > QuitThreshold
  /\ (\E w \in Workers : pc[w] = "ended") => quit \/ pending = {}

(* The response was put together from what was collected.                  *)
ReplyFits ==
  phase = "answered" /\ slot = None =>
    /\ reply.skipped = skipped
    /\ reply.files \in Seq(Nat) /\ reply.truncated \in BOOLEAN
    /\ Fits(reply, MatchCounts, request.max, collected, Len(tree))

CountInv ==
  /\ phase = "called" =>
       total = 0 /\ skipped = NoSkips /\ ~quit /\ \A w \in Workers : hits[w] = {}
  /\ phase # "called" /\ Walked => CountersAreExact /\ StopsForAReason /\ ReplyFits

(* What is added to a finite set is counted.                               *)
LEMMA OneMore ==
  ASSUME NEW S, IsFiniteSet(S), NEW x, x \notin S
  PROVE  IsFiniteSet(S \cup {x}) /\ Cardinality(S \cup {x}) = Cardinality(S) + 1
  BY FS_AddElement

(* When an entry is done with, each counter grows by what it is.           *)
LEMMA SearchedAdds ==
  ASSUME WalkInv, Counters, HeldOnce, CountersAreExact, NEW f \in Entries, f \notin Searched,
         tree' = tree, Searched' = Searched \cup {f},
         total' = total + (IF f \in Matching THEN Matches(f) ELSE 0),
         \A reason \in {"binary", "utf8"} :
           skipped'[reason] = skipped[reason] + (IF tree[f].kind = reason THEN 1 ELSE 0)
  PROVE  /\ total' = Sum(MatchCounts', (Searched \cap Matching)')
         /\ \A reason \in {"binary", "utf8"} : skipped'[reason] = Cardinality(OfKind(reason)')
  <1>1. /\ MatchCounts' = MatchCounts /\ Matching' = Matching
        /\ (Searched \cap Matching)' = Searched' \cap Matching
    BY DEF MatchCounts, Matching, Matches, Entries
  <1>2. /\ IsFiniteSet(Entries) /\ MatchCounts \in [Entries -> Int]
        /\ \A g \in Entries : MatchCounts[g] = Matches(g) /\ Matches(g) \in Nat
    BY EntriesCount, EntryShape DEF WalkInv, Shape
  <1>3. Searched \subseteq Entries
    BY DEF Searched, Visited
  <1>4. total' = Sum(MatchCounts, Searched' \cap Matching)
    <2>1. CASE f \notin Matching
      <3>1. Searched' \cap Matching = Searched \cap Matching /\ total' = total
        BY <2>1 DEF Counters
      <3> QED
        BY <3>1 DEF CountersAreExact
    <2>2. CASE f \in Matching
      <3> DEFINE T == Searched' \cap Matching
      <3>1. T \in SUBSET Entries /\ f \in T /\ T \ {f} = Searched \cap Matching
        BY <1>3, <2>2
      <3> HIDE DEF T
      <3>2. Sum(MatchCounts, T) = MatchCounts[f] + Sum(MatchCounts, T \ {f})
        BY ONLY <1>2, <3>1, SumTake
      <3>3. Sum(MatchCounts, T \ {f}) = total
        BY <3>1 DEF CountersAreExact
      <3>4. total \in Nat /\ MatchCounts[f] = Matches(f) /\ Matches(f) \in Nat
        BY <1>2 DEF Counters
      <3> QED
        BY <2>2, <3>2, <3>3, <3>4 DEF T
    <2> QED
      BY <2>1, <2>2
  <1>5. ASSUME NEW reason \in {"binary", "utf8"}
        PROVE  skipped'[reason] = Cardinality(OfKind(reason)')
    <2>1. OfKind(reason)' = IF tree[f].kind = reason THEN OfKind(reason) \cup {f} ELSE OfKind(reason)
      BY DEF OfKind
    <2>2. f \notin OfKind(reason) /\ OfKind(reason) \subseteq Entries
      BY <1>3 DEF OfKind
    <2>3. IsFiniteSet(OfKind(reason))
      BY <1>2, <2>2, FS_Subset
    <2>4. Cardinality(OfKind(reason)) \in Nat /\ skipped[reason] = Cardinality(OfKind(reason))
      BY <2>3, FS_CardinalityType DEF CountersAreExact
    <2>5. Cardinality(OfKind(reason) \cup {f}) = Cardinality(OfKind(reason)) + 1
      BY <2>2, <2>3, OneMore
    <2> QED
      BY <2>1, <2>4, <2>5
  <1> QED
    BY <1>1, <1>4, <1>5

(* An entry a worker is done with was not done with before.                *)
LEMMA WorkerIsDone ==
  ASSUME WalkInv, HeldOnce, NEW w \in Workers, pc[w] = "search",
         visiting' = [visiting EXCEPT ![w] = None], UNCHANGED <<pending, tree>>
  PROVE  /\ visiting[w] \in Entries /\ visiting[w] \notin Searched
         /\ Searched' = Searched \cup {visiting[w]}
  <1>1. /\ visiting[w] \in Entries /\ visiting[w] \notin pending
        /\ visiting \in [Workers -> Entries \cup {None}]
    BY DEF WalkInv, Shape, Control, HeldOnce
  <1>2. None \notin Entries
    BY EntryShape DEF WalkInv, Shape
  <1>3. \A v \in Workers \ {w} : visiting[v] # visiting[w]
    BY <1>1, <1>2 DEF HeldOnce
  <1>4. Visited' = Visited /\ visiting[w] \in Visited
    BY <1>1 DEF Visited, Entries
  <1>5. /\ visiting'[w] = None
        /\ \A v \in Workers \ {w} : visiting'[v] = visiting[v]
    BY <1>1
  <1>6. ASSUME NEW g \in Visited
        PROVE  (\A v \in Workers : visiting'[v] # g) <=> 
                 (\A v \in Workers : visiting[v] # g) \/ g = visiting[w]
    <2>1. g # None
      BY <1>2 DEF Visited
    <2> QED
      BY <1>3, <1>5, <2>1
  <1>7. Searched' = {g \in Visited : \A v \in Workers : visiting'[v] # g}
    BY <1>4 DEF Searched
  <1>8. Searched' = Searched \cup {visiting[w]}
    BY <1>4, <1>6, <1>7 DEF Searched
  <1> QED
    BY <1>1, <1>8 DEF Searched

(* What each step of a worker finds, and what it leaves.                   *)
LEMMA CountFrame ==
  ASSUME WalkInv, Counters, CountInv, NEW w \in Workers, Step(w)
  PROVE  /\ UNCHANGED <<tree, request, phase, reply>>
         /\ phase = "walking" /\ Walked /\ HeldOnce
         /\ CountersAreExact /\ StopsForAReason /\ ReplyFits'
         /\ QuitThreshold' = QuitThreshold /\ QuitThreshold \in Nat
         /\ total \in Nat
  <1>1. /\ UNCHANGED <<tree, request, phase, reply>> /\ phase = "walking" /\ Walked /\ HeldOnce
    BY WorkerFrame
  <1>2. CountersAreExact /\ StopsForAReason
    BY <1>1 DEF CountInv
  <1>3. request.max \in Nat
    BY GrepAssumption DEF Counters, Request
  <1>4. request.max * QuitFactor \in Nat
    BY <1>3, GrepAssumption
  <1> QED
    BY <1>1, <1>2, <1>4 DEF ReplyFits, QuitThreshold, Counters

(* The sets the counters count, when nothing was searched.                 *)
LEMMA NothingSearched ==
  ASSUME CountersAreExact, UNCHANGED <<tree, total, skipped>>, Searched' = Searched
  PROVE  /\ total' = Sum(MatchCounts', (Searched \cap Matching)')
         /\ \A reason \in {"binary", "utf8"} : skipped'[reason] = Cardinality(OfKind(reason)')
         /\ Matching' = Matching
  <1>1. MatchCounts' = MatchCounts /\ Matching' = Matching
    BY DEF MatchCounts, Matching, Matches, Entries
  <1>2. \A reason \in {"binary", "utf8"} : OfKind(reason)' = OfKind(reason)
    BY DEF OfKind
  <1>3. (Searched \cap Matching)' = Searched \cap Matching
    BY <1>1
  <1> QED
    BY <1>1, <1>2, <1>3 DEF CountersAreExact

LEMMA VisitCounts ==
  ASSUME WalkInv, Counters, CountInv, NEW w \in Workers, NEW f \in Entries, Visit(w, f)
  PROVE  CountInv'
  <1> USE DEF Visit
  <1>1. /\ phase' = "walking" /\ HeldOnce /\ CountersAreExact /\ StopsForAReason /\ ReplyFits'
        /\ QuitThreshold' = QuitThreshold
    BY CountFrame DEF Step
  <1>2. /\ None \notin Entries /\ Matching' = Matching /\ f \in pending /\ f \notin Visited
        /\ \A g \in Matching : tree[g].kind = "text"
    BY EntryShape DEF WalkInv, Shape, Visited, Matching, Matches, Entries
  <1>3. \A v \in Workers : visiting[v] # f
    BY <1>1, <1>2 DEF HeldOnce
  <1>4. Visited' = Visited \cup {f}
    BY <1>2 DEF Visited, Entries
  <1>5. /\ pc \in [Workers -> {"idle", "search", "stop", "ended"}]
        /\ visiting \in [Workers -> Entries \cup {None}]
    BY DEF WalkInv, Shape
  <1>6. /\ total' = Sum(MatchCounts', (Searched \cap Matching)')
        /\ \A reason \in {"binary", "utf8"} : skipped'[reason] = Cardinality(OfKind(reason)')
    <2>1. CASE tree[f].kind = "other"
      <3>1. Searched' = Searched \cup {f} /\ f \notin Searched
        BY <1>2, <1>3, <1>4, <2>1 DEF Searched
      <3>2. f \notin Matching /\ total' = total + 0 /\ skipped' = skipped
        BY <1>2, <2>1 DEF Counters
      <3>3. \A reason \in {"binary", "utf8"} : skipped[reason] + 0 = skipped[reason]
        BY DEF Counters
      <3> QED
        BY <1>1, <2>1, <3>1, <3>2, <3>3, SearchedAdds
    <2>2. CASE tree[f].kind # "other"
      <3>1. /\ visiting'[w] = f /\ visiting[w] = None
            /\ \A v \in Workers \ {w} : visiting'[v] = visiting[v]
        BY <1>5, <2>2 DEF WalkInv, Control
      <3>2. \A g \in Visited : g # None
        BY <1>2 DEF Visited
      <3>3. Searched' = {g \in Visited \cup {f} : \A v \in Workers : visiting'[v] # g}
        BY <1>4 DEF Searched
      <3>4. Searched' = Searched
        BY <1>2, <3>1, <3>2, <3>3 DEF Searched
      <3> QED
        BY <1>1, <3>4, NothingSearched
    <2> QED
      BY <2>1, <2>2
  <1>7. CountersAreExact'
    <2>1. \A v \in Workers : pc'[v] = "ended" => pc[v] = "ended"
      BY <1>5
    <2> QED
      BY <1>1, <1>2, <1>6, <2>1 DEF CountersAreExact
  <1>8. StopsForAReason'
    <2>1. /\ \A v \in Workers : pc'[v] = "ended" => pc[v] = "ended"
          /\ \A v \in Workers : pc'[v] = "stop" => pc[v] = "stop"
      BY <1>5
    <2> QED
      BY <1>1, <1>2, <2>1 DEF StopsForAReason
  <1> QED
    BY <1>1, <1>7, <1>8 DEF CountInv

LEMMA PassCounts ==
  ASSUME WalkInv, Counters, CountInv, NEW w \in Workers, Pass(w)
  PROVE  CountInv'
  <1> USE DEF Pass
  <1>1. /\ phase' = "walking" /\ HeldOnce /\ CountersAreExact /\ StopsForAReason /\ ReplyFits'
        /\ QuitThreshold' = QuitThreshold
    BY CountFrame DEF Step
  <1> DEFINE f == visiting[w]
  <1>2. f \in Entries /\ f \notin Searched /\ Searched' = Searched \cup {f}
    BY <1>1, WorkerIsDone
  <1>3. f \notin Matching /\ Matching' = Matching
    BY DEF Matching, Matches, Entries
  <1>4. total' = total + 0
    BY DEF Counters
  <1>5. ASSUME NEW reason \in {"binary", "utf8"}
        PROVE  skipped'[reason] = skipped[reason] + (IF tree[f].kind = reason THEN 1 ELSE 0)
    <2>1. skipped \in [{"binary", "utf8"} -> Nat]
      BY DEF Counters
    <2>2. CASE tree[f].kind = "binary"
      BY <2>1, <2>2, GrepAssumption DEF SkipReason
    <2>3. CASE tree[f].kind = "utf8"
      BY <2>1, <2>3, GrepAssumption DEF SkipReason
    <2>4. CASE tree[f].kind \notin {"binary", "utf8"}
      BY <2>1, <2>4 DEF SkipReason
    <2> QED
      BY <2>2, <2>3, <2>4
  <1>6. /\ total' = Sum(MatchCounts', (Searched \cap Matching)')
        /\ \A reason \in {"binary", "utf8"} : skipped'[reason] = Cardinality(OfKind(reason)')
    <2> HIDE DEF f
    <2> QED
      BY <1>1, <1>2, <1>3, <1>4, <1>5, SearchedAdds
  <1>7. \A v \in Workers : /\ pc'[v] = "ended" => pc[v] = "ended"
                           /\ pc'[v] = "stop" => pc[v] = "stop"
    BY DEF WalkInv, Shape
  <1>8. CountersAreExact' /\ StopsForAReason'
    BY <1>1, <1>3, <1>6, <1>7 DEF CountersAreExact, StopsForAReason
  <1> QED
    BY <1>1, <1>8 DEF CountInv

LEMMA FailCounts ==
  ASSUME WalkInv, Counters, CountInv, NEW w \in Workers, Fail(w)
  PROVE  CountInv'
  <1> USE DEF Fail
  <1>1. /\ phase' = "walking" /\ HeldOnce /\ CountersAreExact /\ StopsForAReason /\ ReplyFits'
        /\ QuitThreshold' = QuitThreshold
    BY CountFrame DEF Step
  <1> DEFINE f == visiting[w]
  <1>2. f \in Entries /\ f \notin Searched /\ Searched' = Searched \cup {f}
    BY <1>1, WorkerIsDone
  <1>3. f \notin Matching /\ Matching' = Matching
    BY EntryShape DEF Matching, Matches, Entries, WalkInv, Shape
  <1>4. /\ total' = total + 0
        /\ \A reason \in {"binary", "utf8"} : skipped'[reason] = skipped[reason] + 0
    BY DEF Counters
  <1>5. /\ total' = Sum(MatchCounts', (Searched \cap Matching)')
        /\ \A reason \in {"binary", "utf8"} : skipped'[reason] = Cardinality(OfKind(reason)')
    <2>1. \A reason \in {"binary", "utf8"} :
            skipped'[reason] = skipped[reason] + (IF tree[f].kind = reason THEN 1 ELSE 0)
      BY <1>4
    <2> HIDE DEF f
    <2> QED
      BY <1>1, <1>2, <1>3, <1>4, <2>1, SearchedAdds
  <1>6. \A v \in Workers : pc'[v] = "ended" => pc[v] = "ended"
    BY DEF WalkInv, Shape
  <1>7. slot' # None
    BY GrepAssumption
  <1>8. CountersAreExact' /\ StopsForAReason'
    BY <1>1, <1>3, <1>5, <1>6, <1>7 DEF CountersAreExact, StopsForAReason
  <1> QED
    BY <1>1, <1>8 DEF CountInv

LEMMA CountCounts ==
  ASSUME WalkInv, Counters, CountInv, NEW w \in Workers, Count(w)
  PROVE  CountInv'
  <1> USE DEF Count
  <1>1. /\ phase' = "walking" /\ HeldOnce /\ CountersAreExact /\ StopsForAReason /\ ReplyFits'
        /\ QuitThreshold' = QuitThreshold /\ QuitThreshold \in Nat /\ total \in Nat
    BY CountFrame DEF Step
  <1> DEFINE f == visiting[w]
  <1>2. f \in Entries /\ f \notin Searched /\ Searched' = Searched \cup {f}
    BY <1>1, WorkerIsDone
  <1>3. f \in Matching /\ Matching' = Matching /\ tree[f].kind = "text" /\ Matches(f) \in Nat
    BY <1>2, EntryShape DEF Matching, Matches, Entries, WalkInv, Shape
  <1>4. /\ total' = total + Matches(f)
        /\ \A reason \in {"binary", "utf8"} : skipped'[reason] = skipped[reason] + 0
    BY DEF Counters
  <1>5. /\ total' = Sum(MatchCounts', (Searched \cap Matching)')
        /\ \A reason \in {"binary", "utf8"} : skipped'[reason] = Cardinality(OfKind(reason)')
    <2>1. \A reason \in {"binary", "utf8"} :
            skipped'[reason] = skipped[reason] + (IF tree[f].kind = reason THEN 1 ELSE 0)
      BY <1>3, <1>4
    <2>2. total' = total + (IF f \in Matching THEN Matches(f) ELSE 0)
      BY <1>3, <1>4
    <2> HIDE DEF f
    <2> QED
      BY <1>1, <1>2, <2>1, <2>2, SearchedAdds
  <1>6. /\ pc \in [Workers -> {"idle", "search", "stop", "ended"}]
        /\ hits \in [Workers -> SUBSET Entries]
    BY DEF WalkInv, Shape
  <1>7. \A v \in Workers : /\ pc'[v] = "ended" => pc[v] = "ended" /\ v # w
                           /\ pc'[v] = "stop" => pc[v] = "stop" \/ total' > QuitThreshold
    BY <1>6
  <1>8. \A v \in Workers : hits'[v] = hits[v] \/ (v = w /\ hits'[v] = hits[v] \cup {f})
    BY <1>6
  <1>9. \A v \in Workers : v # w => hits'[v] = hits[v]
    BY <1>6
  <1>10. CountersAreExact'
    BY <1>1, <1>3, <1>5, <1>7, <1>8, <1>9 DEF CountersAreExact
  <1>11. total > QuitThreshold => total' > QuitThreshold
    BY <1>1, <1>3, <1>4
  <1>12. StopsForAReason'
    BY <1>1, <1>7, <1>11 DEF StopsForAReason
  <1> QED
    BY <1>1, <1>10, <1>12 DEF CountInv

(* A worker that stops the walk, or ends.                                  *)
LEMMA StopCounts ==
  ASSUME WalkInv, Counters, CountInv, NEW w \in Workers, Stop(w) \/ End(w)
  PROVE  CountInv'
  <1>1. /\ phase' = "walking" /\ HeldOnce /\ CountersAreExact /\ StopsForAReason /\ ReplyFits'
        /\ QuitThreshold' = QuitThreshold
    BY CountFrame DEF Step
  <1>2. UNCHANGED <<tree, pending, visiting, total, skipped, slot>>
    BY DEF Stop, End
  <1>3. Searched' = Searched
    BY <1>2 DEF Searched, Visited, Entries
  <1>4. /\ total' = Sum(MatchCounts', (Searched \cap Matching)')
        /\ \A reason \in {"binary", "utf8"} : skipped'[reason] = Cardinality(OfKind(reason)')
        /\ Matching' = Matching
    BY <1>1, <1>2, <1>3, NothingSearched
  <1>5. /\ pc \in [Workers -> {"idle", "search", "stop", "ended"}]
        /\ hits \in [Workers -> SUBSET Entries]
    BY DEF WalkInv, Shape
  <1>6. CASE Stop(w)
    <2>1. \A v \in Workers : /\ pc'[v] = "ended" => pc[v] = "ended"
                             /\ pc'[v] = "stop" => pc[v] = "stop"
      BY <1>5, <1>6 DEF Stop
    <2>2. CountersAreExact' /\ StopsForAReason'
      BY <1>1, <1>2, <1>4, <1>6, <2>1 DEF CountersAreExact, StopsForAReason, Stop
    <2> QED
      BY <1>1, <2>2 DEF CountInv
  <1>7. CASE End(w)
    <2>1. \A v \in Workers : /\ pc'[v] = "ended" => pc[v] = "ended" \/ v = w
                             /\ pc'[v] = "stop" => pc[v] = "stop"
      BY <1>5, <1>7 DEF End
    <2>2. \A v \in Workers : hits'[v] = IF v = w THEN {} ELSE hits[v]
      BY <1>5, <1>7 DEF End
    <2>3. CountersAreExact'
      BY <1>1, <1>4, <1>7, <2>1, <2>2 DEF CountersAreExact, End
    <2>4. StopsForAReason'
      BY <1>1, <1>2, <1>7, <2>1 DEF StopsForAReason, End
    <2> QED
      BY <1>1, <2>3, <2>4 DEF CountInv
  <1> QED
    BY <1>6, <1>7

(* Before the walk nothing is counted.                                     *)
LEMMA StartCounts ==
  ASSUME WalkInv, Counters, CountInv, StartWalk
  PROVE  CountInv'
  <1> USE DEF StartWalk
  <1>1. /\ \A w \in Workers : visiting[w] = None /\ hits[w] = {} /\ pc'[w] = "idle"
        /\ collected = {} /\ total = 0 /\ skipped = NoSkips /\ ~quit
    BY DEF WalkInv, Control, CountInv
  <1>2. Visited' = {} /\ Searched' = {}
    BY DEF Visited, Searched, Entries
  <1>3. /\ MatchCounts' = MatchCounts
        /\ (Searched \cap Matching)' = {}
        /\ \A kind : OfKind(kind)' = {}
    BY <1>2 DEF MatchCounts, Matches, Entries, OfKind
  <1>4. Sum(MatchCounts, {}) = 0 /\ Cardinality({}) = 0
    BY EntriesCount, SumType, FS_EmptySet DEF WalkInv, Shape
  <1>5. \A reason \in {"binary", "utf8"} : skipped'[reason] = 0
    BY <1>1 DEF NoSkips
  <1>6. CountersAreExact'
    <2>1. total' = Sum(MatchCounts', (Searched \cap Matching)')
      BY <1>1, <1>3, <1>4
    <2>2. \A reason \in {"binary", "utf8"} : skipped'[reason] = Cardinality(OfKind(reason)')
      BY <1>3, <1>4, <1>5
    <2> QED
      BY <1>1, <2>1, <2>2 DEF CountersAreExact
  <1>7. StopsForAReason' /\ ReplyFits'
    BY <1>1 DEF StopsForAReason, ReplyFits
  <1> QED
    BY <1>6, <1>7 DEF CountInv

(* The response is put together from all that was collected.               *)
LEMMA RespondCounts ==
  ASSUME WalkInv, Counters, CountInv, Respond
  PROVE  CountInv'
  <1>1. /\ phase = "walking" /\ phase' = "answered" /\ Walked
        /\ UNCHANGED <<tree, request, walkVars>>
    BY DEF Respond, Reply, WalkInv, Control
  <1>2. UNCHANGED <<tree, request, pending, pc, visiting, hits, total, skipped, slot, quit, collected>>
    BY <1>1 DEF walkVars
  <1>3. CountersAreExact /\ StopsForAReason
    BY <1>1 DEF CountInv
  <1>4. Searched' = Searched
    BY <1>2 DEF Searched, Visited, Entries
  <1>5. /\ total' = Sum(MatchCounts', (Searched \cap Matching)')
        /\ \A reason \in {"binary", "utf8"} : skipped'[reason] = Cardinality(OfKind(reason)')
        /\ Matching' = Matching
    BY <1>2, <1>3, <1>4, NothingSearched
  <1>6. CountersAreExact' /\ StopsForAReason'
    BY <1>2, <1>3, <1>5 DEF CountersAreExact, StopsForAReason, QuitThreshold
  <1>7. ReplyFits'
    <2> SUFFICES ASSUME slot = None
                 PROVE  /\ reply'.skipped = skipped
                        /\ reply'.files \in Seq(Nat) /\ reply'.truncated \in BOOLEAN
                        /\ Fits(reply', MatchCounts, request.max, collected, Len(tree))
      <3>1. MatchCounts' = MatchCounts
        BY <1>2 DEF MatchCounts, Matches, Entries
      <3> QED
        BY <1>2, <3>1 DEF ReplyFits
    <2>1. reply' = Assemble(collected, skipped)
      BY DEF Respond, Reply
    <2>2. request.max \in Nat /\ tree \in Trees /\ collected \in SUBSET Entries
      BY GrepAssumption DEF Counters, Request, WalkInv, Shape
    <2> QED
      BY <2>1, <2>2, AssembledFits
  <1> QED
    BY <1>1, <1>6, <1>7 DEF CountInv

(* Requests that are answered at once, and steps of nobody.                *)
LEMMA OthersCount ==
  ASSUME WalkInv, Counters, CountInv, Refuse \/ SearchExplicitFile \/ UNCHANGED vars
  PROVE  CountInv'
  <1>1. CASE Refuse \/ SearchExplicitFile
    <2>1. phase' = "answered" /\ ~Walked' /\ UNCHANGED <<tree, request>>
      BY <1>1 DEF Refuse, SearchExplicitFile, Reply, Walked, IsValid
    <2> QED
      BY <2>1 DEF CountInv
  <1>2. CASE UNCHANGED vars
    <2>1. UNCHANGED <<tree, request, phase, pending, pc, visiting, hits, total, skipped, slot, quit,
                      collected, reply>>
      BY <1>2 DEF vars
    <2>2. Searched' = Searched /\ MatchCounts' = MatchCounts /\ (Walked' <=> Walked)
          /\ QuitThreshold' = QuitThreshold
      BY <2>1 DEF Searched, Visited, Entries, MatchCounts, Matches, Walked, IsValid, QuitThreshold
    <2>3. CountersAreExact => CountersAreExact'
      <3> SUFFICES ASSUME CountersAreExact PROVE CountersAreExact'
        OBVIOUS
      <3>1. /\ total' = Sum(MatchCounts', (Searched \cap Matching)')
            /\ \A reason \in {"binary", "utf8"} : skipped'[reason] = Cardinality(OfKind(reason)')
            /\ Matching' = Matching
        BY <2>1, <2>2, NothingSearched
      <3> QED
        BY <2>1, <3>1 DEF CountersAreExact
    <2>4. StopsForAReason => StopsForAReason'
      BY <2>1, <2>2 DEF StopsForAReason
    <2>5. ReplyFits => ReplyFits'
      BY <2>1, <2>2 DEF ReplyFits
    <2> QED
      BY <2>1, <2>2, <2>3, <2>4, <2>5 DEF CountInv
  <1> QED
    BY <1>1, <1>2

Counted == WalkInv /\ Counters /\ CountInv

LEMMA CountedHolds == Spec => []Counted
  <1>1. Init => Counted
    <2> SUFFICES ASSUME Init
                 PROVE  Counted
      OBVIOUS
    <2>1. WalkInv
      BY InitEstablishes
    <2>2. Counters
      BY DEF Init, NoSkips, Counters
    <2>3. CountInv
      BY DEF Init, CountInv
    <2> QED
      BY <2>1, <2>2, <2>3 DEF Counted
  <1>2. Counted /\ [Next]_vars => Counted'
    <2> SUFFICES ASSUME Counted, [Next]_vars
                 PROVE  Counted'
      OBVIOUS
    <2>0. WalkInv /\ Counters /\ CountInv
      BY DEF Counted
    <2>1. WalkInv'
      BY <2>0, StepPreserves
    <2>2. Counters'
      <3>1. UNCHANGED vars => Counters'
        BY <2>0 DEF vars, Counters
      <3> QED
        BY <2>0, <3>1, AnswersHaveCodes, CountersCount DEF Next
    <2>3. CountInv'
      <3>1. CASE Handle
        BY <2>0, <3>1, OthersCount, StartCounts, RespondCounts DEF Handle
      <3>2. ASSUME NEW w \in Workers, Step(w)
            PROVE  CountInv'
        BY <2>0, <3>2, VisitCounts, PassCounts, FailCounts, CountCounts, StopCounts DEF Step
      <3>3. CASE UNCHANGED vars
        BY <2>0, <3>3, OthersCount
      <3> QED
        BY <3>1, <3>2, <3>3 DEF Next
    <2> QED
      BY <2>1, <2>2, <2>3 DEF Counted
  <1> QED
    BY <1>1, <1>2, PTL DEF Spec

(* When a walk is answered with files, all that was found was collected.   *)
LEMMA RespondsFromAll ==
  ASSUME Counted, Responds
  PROVE  /\ slot = None /\ tree \in Trees /\ request.max \in Nat /\ request.max * QuitFactor \in Nat
         /\ CountersAreExact /\ StopsForAReason
         /\ \A w \in Workers : pc[w] = "ended"
         /\ Searched = Visited
         /\ Visited \cap Matching = collected /\ collected \in SUBSET Entries
         /\ reply.skipped = skipped /\ reply.files \in Seq(Nat) /\ reply.truncated \in BOOLEAN
         /\ Fits(reply, MatchCounts, request.max, collected, Len(tree))
  <1>1. phase = "answered" /\ Walked /\ reply.code = "ok"
    BY DEF Responds
  <1>2. HeldOnce /\ NoneDropped /\ ReplyIsTruthful /\ CountersAreExact /\ StopsForAReason /\ ReplyFits
    BY <1>1 DEF Counted, WalkInv, CountInv
  <1>3. slot = None
    BY <1>1, <1>2 DEF ReplyIsTruthful
  <1>4. \A w \in Workers : pc[w] = "ended" /\ visiting[w] = None
    BY <1>1 DEF Counted, WalkInv, Control
  <1>5. None \notin Entries /\ tree \in Trees
    BY EntryShape DEF Counted, WalkInv, Shape
  <1>6. Searched = Visited
    BY <1>4, <1>5 DEF Searched, Visited
  <1>7. \A w \in Workers : hits[w] = {}
    BY <1>2, <1>4 DEF CountersAreExact
  <1>8. Visited \cap Matching \subseteq collected
    BY <1>2, <1>4, <1>5, <1>7 DEF NoneDropped, Visited
  <1>9. collected \subseteq Visited \cap Matching /\ collected \in SUBSET Entries
    BY <1>2 DEF HeldOnce, CountersAreExact, Counted, WalkInv, Shape, Visited
  <1>10. request.max \in Nat /\ request.max * QuitFactor \in Nat
    <2>1. request.max \in Nat
      BY GrepAssumption DEF Counted, Counters, Request
    <2> QED
      BY <2>1, GrepAssumption
  <1> QED
    BY <1>1, <1>2, <1>3, <1>4, <1>5, <1>6, <1>8, <1>9, <1>10 DEF ReplyFits

FilesOf(r) == {r.files[k] : k \in DOMAIN r.files}

(* What the budget allows of all the files that were found.                *)
Allowed(found, max) == {f \in found : MatchesIn({g \in found : g < f}) < max}

LEMMA FitsAll ==
  ASSUME tree \in Trees, NEW found \in SUBSET Entries, NEW max, NEW r,
         Fits(r, MatchCounts, max, found, Len(tree))
  PROVE  /\ FoundUpTo(found, Len(tree)) = found
         /\ FilesOf(r) = Allowed(found, max)
         /\ \A i, j \in DOMAIN r.files : i < j => r.files[i] < r.files[j]
         /\ r.matches = Sum(MatchCounts, FilesOf(r))
         /\ r.truncated <=> FilesOf(r) # found
         /\ r.truncated => r.matches >= max
  <1>1. Len(tree) \in Nat /\ Entries = 1 .. Len(tree)
    BY EntriesCount
  <1>2. FoundUpTo(found, Len(tree)) = found
    <2>1. \A f \in found : f <= Len(tree)
      BY <1>1
    <2> QED
      BY <2>1 DEF FoundUpTo
  <1>3. ASSUME NEW f \in found
        PROVE  Sum(MatchCounts, FoundUpTo(found, f - 1)) = MatchesIn({g \in found : g < f})
    <2>1. FoundUpTo(found, f - 1) = {g \in found : g < f}
      <3>1. \A g \in found : g <= f - 1 <=> g < f
        <4> SUFFICES ASSUME NEW g \in found PROVE g <= f - 1 <=> g < f
          OBVIOUS
        <4>1. f \in Nat /\ g \in Nat
          BY <1>1
        <4> QED
          BY <4>1
      <3> QED
        BY <3>1 DEF FoundUpTo
    <2>2. {g \in found : g < f} \in SUBSET Entries
      OBVIOUS
    <2> QED
      BY <2>1, <2>2, MatchSums
  <1>4. ShownUpTo(MatchCounts, max, found, Len(tree)) = Allowed(found, max)
    BY <1>2, <1>3 DEF ShownUpTo, Allowed
  <1> QED
    BY <1>2, <1>4 DEF Fits, FilesOf

(* R015: whatever the workers found, the response reports in path order    *)
(* the files before which the budget was not used up, and says so when it  *)
(* leaves out one (grep.rs, assemble_output).                              *)
THEOREM BudgetIsFilled == Spec => []FoundFilesFillTheBudget
  <1>1. Counted => FoundFilesFillTheBudget
    <2> SUFFICES ASSUME Counted, Responds
                 PROVE  FoundFilesFillTheBudget
      BY DEF FoundFilesFillTheBudget
    <2> DEFINE found == Visited \cap Matching
    <2>1. /\ tree \in Trees /\ found \in SUBSET Entries
          /\ Fits(reply, MatchCounts, request.max, found, Len(tree))
      BY RespondsFromAll
    <2> HIDE DEF found
    <2>0. Reported = FilesOf(reply)
      BY DEF Reported, FilesOf
    <2>2. /\ Reported = Allowed(found, request.max)
          /\ \A i, j \in DOMAIN reply.files : i < j => reply.files[i] < reply.files[j]
          /\ reply.matches = Sum(MatchCounts, Reported)
          /\ reply.truncated <=> Reported # found
      BY <2>0, <2>1, FitsAll, SMTT(30)
    <2>3. Reported \in SUBSET Entries
      BY <2>1, <2>2 DEF Allowed
    <2>4. reply.matches = MatchesIn(Reported)
      BY <2>1, <2>2, <2>3, MatchSums
    <2> QED
      BY <2>2, <2>4 DEF FoundFilesFillTheBudget, found, Allowed
  <1> QED
    BY <1>1, CountedHolds, PTL

(* A response below its budget is the whole answer, whatever the order of  *)
(* the walk and its workers: the walk was not stopped, for it stops only   *)
(* with more matches than that (grep.rs, quit_threshold and visit).        *)
THEOREM BelowBudgetAllIsFound == Spec => []BelowBudgetIsComplete
  <1>1. Counted => BelowBudgetIsComplete
    <2> SUFFICES ASSUME Counted, Responds, reply.matches < request.max
                 PROVE  /\ Reported = Matching
                        /\ ~reply.truncated
                        /\ \A f \in Entries : tree[f].kind # "oversized"
                        /\ \A reason \in {"binary", "utf8"} :
                             reply.skipped[reason]
                               = Cardinality({f \in Entries : tree[f].kind = reason})
      BY DEF BelowBudgetIsComplete
    <2>1. /\ slot = None /\ tree \in Trees /\ request.max \in Nat /\ request.max * QuitFactor \in Nat
          /\ CountersAreExact /\ StopsForAReason
          /\ \A w \in Workers : pc[w] = "ended"
          /\ Searched = Visited
          /\ Visited \cap Matching = collected /\ collected \in SUBSET Entries
          /\ reply.skipped = skipped /\ reply.truncated \in BOOLEAN
          /\ Fits(reply, MatchCounts, request.max, collected, Len(tree))
      BY RespondsFromAll
    <2>2. /\ reply.matches = Sum(MatchCounts, Reported)
          /\ reply.truncated <=> Reported # collected
          /\ reply.truncated => reply.matches >= request.max
      <3>1. Reported = FilesOf(reply)
        BY DEF Reported, FilesOf
      <3> QED
        BY <2>1, <3>1, FitsAll
    <2>3. total = Sum(MatchCounts, collected) /\ total \in Nat
      BY <2>1 DEF CountersAreExact, Counted, Counters
    <2>4. ~reply.truncated /\ Reported = collected /\ total = reply.matches
      <3>1. reply.matches \in Nat \/ ~reply.truncated
        <4>1. Reported = ShownUpTo(MatchCounts, request.max, collected, Len(tree))
          BY <2>1 DEF Fits, Reported
        <4>2. Reported \in SUBSET Entries
          BY <2>1, <4>1 DEF ShownUpTo, FoundUpTo
        <4> QED
          BY <2>1, <2>2, <4>2, EntriesCount, SumOfNaturals
      <3> QED
        BY <2>1, <2>2, <2>3, <3>1
    <2>5. ~(total > QuitThreshold)
      <3>1. request.max * QuitFactor >= request.max
        BY <2>1, GrepAssumption
      <3> QED
        BY <2>1, <2>3, <2>4, <3>1 DEF QuitThreshold
    <2>6. ~quit /\ pending = {}
      <3>1. PICK w \in Workers : TRUE
        BY GrepAssumption
      <3> QED
        BY <2>1, <2>5, <3>1 DEF StopsForAReason
    <2>7. Visited = Entries /\ Searched = Entries
      BY <2>1, <2>6 DEF Visited
    <2>8. Reported = Matching
      BY <2>1, <2>4, <2>7 DEF Matching
    <2>9. ASSUME NEW f \in Entries
          PROVE  tree[f].kind # "oversized"
      <3>1. SlotIsTruthful
        BY DEF Responds, Counted, WalkInv
      <3>2. \A w \in Workers : visiting[w] # f
        BY <2>7 DEF Searched
      <3> QED
        BY <2>1, <2>7, <3>1, <3>2 DEF SlotIsTruthful, Oversized
    <2>10. ASSUME NEW reason \in {"binary", "utf8"}
           PROVE  reply.skipped[reason] = Cardinality({f \in Entries : tree[f].kind = reason})
      BY <2>1, <2>7 DEF CountersAreExact, OfKind
    <2> QED
      BY <2>4, <2>8, <2>9, <2>10
  <1> QED
    BY <1>1, CountedHolds, PTL

-----------------------------------------------------------------------------
(* Sections: what included_spans and render_hit leave of a file            *)

(* Flattening adds one part after the other.                               *)
LEMMA FlattenSteps ==
  ASSUME NEW X, NEW parts \in Seq(Seq(X))
  PROVE  \E f \in [0 .. Len(parts) -> Seq(X)] :
           /\ f[0] = <<>>
           /\ \A k \in 1 .. Len(parts) : f[k] = f[k - 1] \o parts[k]
           /\ FlattenSeq(parts) = f[Len(parts)]
  <1> DEFINE n == Len(parts)
             none == <<>>
             step == [x \in Seq(X) \X (1 .. n) |-> x[1] \o parts[x[2]]]
  <1>1. n \in Nat /\ \A k \in 1 .. n : parts[k] \in Seq(X)
    OBVIOUS
  <1> HIDE DEF n
  <1>2. none \in Seq(X) /\ step \in [Seq(X) \X (1 .. n) -> Seq(X)]
    BY <1>1
  <1>3. PICK f \in [0 .. n -> Seq(X)] : Recurs(f, n, none, step)
    <2> HIDE DEF step, none
    <2> QED
      BY <1>1, <1>2, RecursionExists
  <1>4. f[0] = <<>>
    BY <1>3 DEF Recurs
  <1>5. ASSUME NEW k \in 1 .. n
        PROVE  f[k] = f[k - 1] \o parts[k]
    <2>1. k - 1 \in 0 .. n /\ f[k - 1] \in Seq(X)
      BY <1>1, <1>3
    <2>2. f[k] = step[<<f[k - 1], k>>]
      BY <1>3 DEF Recurs
    <2> QED
      BY <2>1, <2>2
  <1>0. n # 0 => f[1] = parts[1]
    <2> SUFFICES ASSUME n # 0 PROVE f[1] = parts[1]
      OBVIOUS
    <2>1. 1 \in 1 .. n /\ 1 - 1 = 0
      BY <1>1
    <2>2. f[1] = <<>> \o parts[1]
      BY <1>4, <1>5, <2>1
    <2> QED
      BY <1>1, <2>1, <2>2, ConcatEmptySeq
  <1>6. CASE n = 0
    <2>1. FlattenSeq(parts) = parts /\ parts = <<>>
      BY <1>6 DEF FlattenSeq, n
    <2> QED
      BY <1>3, <1>4, <1>5, <1>6, <2>1 DEF n
  <1>7. CASE n # 0
    <2> DEFINE Body(g) == [i \in 1 .. n |-> IF i = 1 THEN parts[i] ELSE g[i - 1] \o parts[i]]
               h == [i \in 1 .. n |-> f[i]]
               flatten == CHOOSE g : g = Body(g)
    <2>1. FlattenSeq(parts) = flatten[n]
      BY <1>7 DEF FlattenSeq, n
    <2>2. \A i \in 1 .. n : h[i] = Body(h)[i]
      <3> SUFFICES ASSUME NEW i \in 1 .. n
                   PROVE  f[i] = IF i = 1 THEN parts[i] ELSE h[i - 1] \o parts[i]
        OBVIOUS
      <3>1. CASE i = 1
        BY <1>0, <1>1, <3>1
      <3>2. CASE i # 1
        <4>1. i - 1 \in 1 .. n /\ h[i - 1] = f[i - 1]
          BY <1>1, <3>2
        <4> QED
          BY <1>5, <3>2, <4>1
      <3> QED
        BY <3>1, <3>2
    <2>3. h = Body(h)
      BY <2>2
    <2>4. flatten = Body(flatten)
      <3> HIDE DEF Body, h
      <3> QED
        BY <2>3
    <2> DEFINE S == {i \in 0 .. n : i = 0 \/ flatten[i] = f[i]}
    <2> HIDE DEF flatten
    <2>5. ASSUME NEW i \in 1 .. n, i - 1 \in S
          PROVE  i \in S
      <3>1. flatten[i] = IF i = 1 THEN parts[i] ELSE flatten[i - 1] \o parts[i]
        BY <2>4
      <3>2. CASE i = 1
        BY <1>0, <1>1, <3>1, <3>2
      <3>3. CASE i # 1
        <4>1. flatten[i - 1] = f[i - 1] /\ i \in 0 .. n
          BY <1>1, <2>5, <3>3
        <4> QED
          BY <1>5, <3>1, <3>3, <4>1
      <3> QED
        BY <3>2, <3>3
    <2>6. n \in S
      <3>1. 0 \in S
        BY <1>1
      <3> HIDE DEF S
      <3>2. 0 .. n \subseteq S
        BY <1>1, <2>5, <3>1, Reaches
      <3> QED
        BY <1>1, <3>2
    <2>7. FlattenSeq(parts) = f[n]
      BY <1>7, <2>1, <2>6
    <2> QED
      BY <1>3, <1>4, <1>5, <2>7 DEF n
  <1> QED
    BY <1>6, <1>7

(* What a searcher hands over: match lines of a text, ascending.           *)
Searches(t, matched, before, after) ==
  /\ IsText(t)
  /\ matched \in Seq(Nat \ {0})
  /\ \A i, j \in DOMAIN matched : i < j => matched[i] < matched[j]
  /\ \A i \in DOMAIN matched : matched[i] <= Searchable(t)
  /\ before \in Nat /\ after \in Nat

(* The last match of the span that match k belongs to.                     *)
LastOf(matched, k, before, after) ==
  LET later == {j \in k + 1 .. Len(matched) : Opens(matched, j, before, after)} IN
  IF later = {} THEN Len(matched) ELSE Min(later) - 1

(* The span ends before the next match that opens one.                     *)
LEMMA LastOfSpan ==
  ASSUME NEW t, NEW matched, NEW before, NEW after, Searches(t, matched, before, after),
         NEW k \in 1 .. Len(matched)
  PROVE  /\ LastOf(matched, k, before, after) \in k .. Len(matched)
         /\ \A j \in k + 1 .. LastOf(matched, k, before, after) : ~Opens(matched, j, before, after)
         /\ LastOf(matched, k, before, after) < Len(matched) =>
              Opens(matched, LastOf(matched, k, before, after) + 1, before, after)
  <1> DEFINE later == {j \in k + 1 .. Len(matched) : Opens(matched, j, before, after)}
             last == LastOf(matched, k, before, after)
  <1>1. Len(matched) \in Nat
    BY DEF Searches
  <1>2. CASE later = {}
    BY <1>1, <1>2 DEF LastOf
  <1>3. CASE later # {}
    <2>1. later \in SUBSET Nat
      BY <1>1
    <2> HIDE DEF later
    <2>2. \E j \in later : \A i \in later : j <= i
      BY <1>3, <2>1, Least
    <2>3. Min(later) \in later /\ \A i \in later : Min(later) <= i
      BY <2>2 DEF Min
    <2>4. last = Min(later) - 1
      BY <1>3 DEF LastOf, later
    <2>5. Min(later) \in k + 1 .. Len(matched) /\ Opens(matched, Min(later), before, after)
      BY <2>3 DEF later
    <2>6. \A j \in k + 1 .. Len(matched) : Opens(matched, j, before, after) => Min(later) <= j
      BY <2>3 DEF later
    <2> HIDE DEF last
    <2>7. last \in k .. Len(matched) /\ last + 1 = Min(later)
      BY <1>1, <2>4, <2>5
    <2>8. ASSUME NEW j \in k + 1 .. last
          PROVE  ~Opens(matched, j, before, after)
      <3>1. j \in k + 1 .. Len(matched) /\ ~(Min(later) <= j)
        BY <1>1, <2>5, <2>7
      <3> QED
        BY <2>6, <3>1
    <2> QED
      BY <2>5, <2>7, <2>8 DEF last
  <1> QED
    BY <1>2, <1>3

(* A match that opens no span belongs to the one of the match before it.   *)
LEMMA LastOfNext ==
  ASSUME NEW t, NEW matched, NEW before, NEW after, Searches(t, matched, before, after),
         NEW k \in 2 .. Len(matched)
  PROVE  LastOf(matched, k - 1, before, after)
           = IF Opens(matched, k, before, after) THEN k - 1 ELSE LastOf(matched, k, before, after)
  <1> DEFINE l == LastOf(matched, k - 1, before, after)
             m == LastOf(matched, k, before, after)
  <1>1. Len(matched) \in Nat /\ k - 1 \in 1 .. Len(matched) /\ k \in 1 .. Len(matched)
        /\ k - 1 + 1 = k
    BY DEF Searches
  <1>2. /\ l \in k - 1 .. Len(matched)
        /\ \A j \in k .. l : ~Opens(matched, j, before, after)
        /\ l < Len(matched) => Opens(matched, l + 1, before, after)
    BY <1>1, LastOfSpan
  <1>3. /\ m \in k .. Len(matched)
        /\ \A j \in k + 1 .. m : ~Opens(matched, j, before, after)
        /\ m < Len(matched) => Opens(matched, m + 1, before, after)
    BY <1>1, LastOfSpan
  <1> HIDE DEF l, m
  <1>4. CASE Opens(matched, k, before, after)
    <2>1. ~(k <= l)
      BY <1>1, <1>2, <1>4
    <2> QED
      BY <1>1, <1>2, <1>4, <2>1 DEF l
  <1>5. CASE ~Opens(matched, k, before, after)
    <2>1. l >= k
      <3>1. l = k - 1 => Opens(matched, k, before, after)
        BY <1>1, <1>2
      <3> QED
        BY <1>1, <1>2, <1>5, <3>1
    <2>2. ~(l < m)
      <3>1. l < m => l + 1 \in k + 1 .. m /\ l < Len(matched)
        BY <1>1, <1>2, <1>3, <2>1
      <3> QED
        BY <1>2, <1>3, <3>1
    <2>3. ~(m < l)
      <3>1. m < l => m + 1 \in k .. l /\ m < Len(matched)
        BY <1>1, <1>2, <1>3
      <3> QED
        BY <1>2, <1>3, <3>1
    <2> QED
      BY <1>1, <1>2, <1>3, <1>5, <2>2, <2>3 DEF l, m
  <1> QED
    BY <1>4, <1>5

(* The lines a searcher counts are those a section may show.               *)
LEMMA SearchableLines ==
  ASSUME NEW t, IsText(t)
  PROVE  /\ Searchable(t) \in Nat /\ LineCount(t) \in Nat \ {0}
         /\ 1 .. Searchable(t) = {l \in 1 .. LineCount(t) : l < LineCount(t) \/ ByteAt(t, l - 1) < t.len}
  <1> DEFINE n == LineCount(t)
             s == Searchable(t)
  <1>1. n \in Nat \ {0} /\ t.len \in Nat /\ t.starts[n] \in Nat /\ t.starts[n] <= t.len
    BY DEF IsText, LineCount
  <1>2. ByteAt(t, n - 1) = t.starts[n]
    BY <1>1 DEF ByteAt, LineCount
  <1>3. s = IF t.starts[n] = t.len THEN n - 1 ELSE n
    BY <1>1 DEF Searchable
  <1> HIDE DEF n, s
  <1>4. s \in Nat
    BY <1>1, <1>3
  <1>5. \A l \in 1 .. n : l \in 1 .. s <=> l < n \/ ByteAt(t, l - 1) < t.len
    <2> SUFFICES ASSUME NEW l \in 1 .. n
                 PROVE  l \in 1 .. s <=> l < n \/ ByteAt(t, l - 1) < t.len
      OBVIOUS
    <2>1. CASE l < n
      BY <1>1, <1>3, <2>1
    <2>2. CASE l = n
      BY <1>1, <1>2, <1>3, <2>2
    <2> QED
      BY <1>1, <2>1, <2>2
  <1>6. 1 .. s \subseteq 1 .. n
    BY <1>1, <1>3
  <1>7. 1 .. s = {l \in 1 .. n : l < n \/ ByteAt(t, l - 1) < t.len}
    BY <1>5, <1>6
  <1> QED
    BY <1>1, <1>4, <1>7 DEF n, s

(* The lines within reach of the matches from one to another.              *)
Near(t, matched, from, to, before, after) ==
  {l \in 1 .. Searchable(t) :
     \E j \in from .. to : matched[j] - before <= l /\ l <= matched[j] + after}

(* Match lines are searchable lines, and lie in their own windows.         *)
LEMMA MatchedLines ==
  ASSUME NEW t, NEW matched, NEW before, NEW after, Searches(t, matched, before, after)
  PROVE  /\ Searchable(t) \in Nat /\ Len(matched) \in Nat
         /\ before \in Nat /\ after \in Nat
         /\ DOMAIN matched = 1 .. Len(matched)
         /\ \A k \in 1 .. Len(matched) :
              /\ matched[k] \in Nat \ {0} /\ matched[k] <= Searchable(t)
              /\ Window(matched[k], before, after).start \in Nat
              /\ Window(matched[k], before, after).start < matched[k]
              /\ Window(matched[k], before, after).end = matched[k] + after
              /\ \A l \in Nat \ {0} :
                   l > Window(matched[k], before, after).start <=> matched[k] - before <= l
  <1>1. Searchable(t) \in Nat
    BY SearchableLines DEF Searches
  <1>2. Len(matched) \in Nat /\ DOMAIN matched = 1 .. Len(matched) /\ before \in Nat /\ after \in Nat
    BY DEF Searches
  <1>3. ASSUME NEW k \in 1 .. Len(matched)
        PROVE  /\ matched[k] \in Nat \ {0} /\ matched[k] <= Searchable(t)
               /\ Window(matched[k], before, after).start \in Nat
               /\ Window(matched[k], before, after).start < matched[k]
               /\ Window(matched[k], before, after).end = matched[k] + after
               /\ \A l \in Nat \ {0} :
                    l > Window(matched[k], before, after).start <=> matched[k] - before <= l
    <2>1. matched[k] \in Nat \ {0} /\ matched[k] <= Searchable(t)
      BY <1>2 DEF Searches
    <2>2. /\ Window(matched[k], before, after).start
               = IF matched[k] - 1 > before THEN matched[k] - 1 - before ELSE 0
          /\ Window(matched[k], before, after).end = matched[k] + after
      BY DEF Window
    <2> QED
      BY <1>2, <2>1, <2>2
  <1> QED
    BY <1>1, <1>2, <1>3

(* A span is not empty, ends within the text, and holds the windows of its *)
(* matches and no other line: each begins within the one before it.        *)
LEMMA SpanHolds ==
  ASSUME NEW t, NEW matched, NEW before, NEW after, Searches(t, matched, before, after),
         NEW k \in 1 .. Len(matched)
  PROVE  LET span == Span(t, matched, k, before, after)
             last == LastOf(matched, k, before, after)
         IN  /\ span.start = Window(matched[k], before, after).start
             /\ span.end = IF matched[last] + after < Searchable(t)
                             THEN matched[last] + after ELSE Searchable(t)
             /\ span.start \in Nat /\ span.end \in Nat /\ span.start < span.end
             /\ span.start + 1 .. span.end = Near(t, matched, k, last, before, after)
  <1> DEFINE span == Span(t, matched, k, before, after)
             last == LastOf(matched, k, before, after)
             n == Searchable(t)
             start(j) == Window(matched[j], before, after).start
  <1>1. /\ n \in Nat /\ Len(matched) \in Nat /\ before \in Nat /\ after \in Nat
        /\ DOMAIN matched = 1 .. Len(matched)
        /\ \A j \in 1 .. Len(matched) :
              /\ matched[j] \in Nat \ {0} /\ matched[j] <= n
              /\ start(j) \in Nat /\ start(j) < matched[j]
              /\ Window(matched[j], before, after).end = matched[j] + after
              /\ \A l \in Nat \ {0} : l > start(j) <=> matched[j] - before <= l
    BY MatchedLines
  <1>2. /\ last \in k .. Len(matched)
        /\ \A j \in k + 1 .. last : ~Opens(matched, j, before, after)
    BY LastOfSpan
  <1>3. /\ span.start = start(k)
        /\ span.end = IF Window(matched[last], before, after).end < n
                        THEN Window(matched[last], before, after).end ELSE n
    BY DEF Span, LastOf
  <1>4. last \in 1 .. Len(matched) /\ \A j \in k .. last : j \in 1 .. Len(matched)
    BY <1>1, <1>2
  <1>5. span.end = IF matched[last] + after < n THEN matched[last] + after ELSE n
    BY <1>1, <1>3, <1>4
  <1> HIDE DEF span, last, n
  <1>6. \A i, j \in k .. last : i < j => matched[i] < matched[j]
    BY <1>1, <1>4 DEF Searches
  <1>7. \A j \in k .. last : matched[k] <= matched[j] /\ matched[j] <= matched[last]
    <2> SUFFICES ASSUME NEW j \in k .. last
                 PROVE  matched[k] <= matched[j] /\ matched[j] <= matched[last]
      OBVIOUS
    <2>1. /\ k \in k .. last /\ last \in k .. last
          /\ matched[k] \in Nat /\ matched[j] \in Nat /\ matched[last] \in Nat
      BY <1>1, <1>2, <1>4
    <2>2. k = j \/ k < j
      BY <1>4
    <2>3. j = last \/ j < last
      BY <1>4
    <2>4. k < j => matched[k] < matched[j]
      BY <1>6, <2>1
    <2>5. j < last => matched[j] < matched[last]
      BY <1>6, <2>1
    <2> QED
      BY <2>1, <2>2, <2>3, <2>4, <2>5
  <1>8. span.start \in Nat /\ span.end \in Nat /\ span.start < span.end
    <2>1. matched[k] <= matched[last]
      BY <1>2, <1>7
    <2> QED
      BY <1>1, <1>3, <1>4, <1>5, <2>1
  <1>9. ASSUME NEW l \in span.start + 1 .. span.end
        PROVE  l \in Near(t, matched, k, last, before, after)
    <2>1. l \in 1 .. n /\ l <= matched[last] + after
      BY <1>1, <1>4, <1>5, <1>8
    <2> DEFINE reaching == {j \in k .. last : l <= matched[j] + after}
    <2>2. reaching \in SUBSET Nat /\ last \in reaching
      BY <1>1, <1>2, <2>1
    <2>3. PICK j \in reaching : \A i \in reaching : j <= i
      <3> HIDE DEF reaching
      <3> QED
        BY <2>2, Least
    <2>4. j \in k .. last /\ l <= matched[j] + after
      OBVIOUS
    <2>5. l > start(j)
      <3>1. CASE j = k
        BY <1>1, <1>3, <1>4, <1>8, <3>1
      <3>2. CASE j # k
        <4>1. j \in k + 1 .. last /\ j - 1 \in k .. last /\ j - 1 \notin reaching
          BY <1>4, <2>3, <2>4, <3>2
        <4>2. ~(l <= matched[j - 1] + after)
          BY <4>1
        <4>3. ~Opens(matched, j, before, after)
          BY <1>2, <4>1
        <4>4. ~(start(j) > Window(matched[j - 1], before, after).end)
          BY <4>3 DEF Opens
        <4>5. /\ Window(matched[j - 1], before, after).end = matched[j - 1] + after
              /\ matched[j - 1] \in Nat /\ start(j) \in Nat
          BY <1>1, <1>4, <2>4, <4>1
        <4> QED
          BY <1>1, <2>1, <4>2, <4>4, <4>5
      <3> QED
        BY <3>1, <3>2
    <2>6. matched[j] - before <= l
      BY <1>1, <1>4, <2>1, <2>4, <2>5
    <2> QED
      BY <2>1, <2>4, <2>6 DEF Near, n
  <1>10. ASSUME NEW l \in Near(t, matched, k, last, before, after)
         PROVE  l \in span.start + 1 .. span.end
    <2>1. PICK j \in k .. last : matched[j] - before <= l /\ l <= matched[j] + after
      BY DEF Near
    <2>2. l \in 1 .. n
      BY DEF Near, n
    <2>3. matched[k] \in Nat /\ matched[j] \in Nat /\ matched[last] \in Nat
      BY <1>1, <1>4
    <2>4. matched[k] - before <= l
      BY <1>1, <1>7, <2>1, <2>2, <2>3
    <2>5. l > start(k)
      BY <1>1, <1>4, <2>2, <2>4
    <2>6. l <= matched[last] + after
      BY <1>1, <1>7, <2>1, <2>2, <2>3, SMTT(30)
    <2> QED
      BY <1>1, <1>3, <1>5, <1>8, <2>2, <2>3, <2>5, <2>6
  <1>11. span.start + 1 .. span.end = Near(t, matched, k, last, before, after)
    BY <1>9, <1>10
  <1> QED
    BY <1>3, <1>5, <1>8, <1>11 DEF span, last, n

(* The items a section of a text is made of.                               *)
Items(t, matched) == {Gap} \cup {RenderLine(t, matched, idx) : idx \in Nat}

(* s shows the given lines, ascending, and ends with the line `end`.       *)
Shows(s, t, matched, lines, end) ==
  /\ s \in Seq(Items(t, matched))
  /\ {s[k].at.line : k \in {k \in DOMAIN s : s[k] # Gap}} = lines
  /\ \A k \in DOMAIN s : s[k] # Gap =>
       /\ s[k].at.line \in Nat \ {0}
       /\ s[k] = RenderLine(t, matched, s[k].at.line - 1)
       /\ k > 1 => IF s[k - 1] = Gap
                     THEN k > 2 /\ s[k - 2].at.line < s[k].at.line - 1
                     ELSE s[k - 1].at.line = s[k].at.line - 1
  /\ Len(s) > 0
  /\ s[Len(s)] # Gap /\ s[Len(s)].at.line = end

(* A rendered line knows its position and whether it is a match.           *)
LEMMA RenderedLine ==
  ASSUME NEW t, NEW matched, NEW idx \in Nat
  PROVE  /\ RenderLine(t, matched, idx) # Gap
         /\ RenderLine(t, matched, idx).at = PositionOf(t, idx)
         /\ RenderLine(t, matched, idx).at.line = idx + 1
         /\ RenderLine(t, matched, idx).kind = "match" <=> idx + 1 \in Range(matched)
  <1>1. /\ RenderLine(t, matched, idx).kind \in {"match", "context"}
        /\ RenderLine(t, matched, idx).at = PositionOf(t, idx)
        /\ RenderLine(t, matched, idx).kind = "match" <=> idx + 1 \in Range(matched)
    BY DEF RenderLine
  <1>2. PositionOf(t, idx).line = idx + 1
    BY DEF PositionOf
  <1>3. Gap.kind = "gap"
    BY DEF Gap
  <1> QED
    BY <1>1, <1>2, <1>3

(* The lines of one span.                                                  *)
LEMMA LinesShow ==
  ASSUME NEW t, NEW matched, NEW start \in Nat, NEW end \in Nat, start < end
  PROVE  Shows([k \in 1 .. end - start |-> RenderLine(t, matched, start + k - 1)], t, matched,
               start + 1 .. end, end)
  <1> DEFINE n == end - start
             s == [k \in 1 .. n |-> RenderLine(t, matched, start + k - 1)]
  <1>1. n \in Nat \ {0}
    OBVIOUS
  <1>2. \A k \in 1 .. n : start + k - 1 \in Nat /\ start + k - 1 + 1 = start + k
    BY <1>1
  <1>3. s \in Seq(Items(t, matched)) /\ Len(s) = n /\ DOMAIN s = 1 .. n
    BY <1>1, <1>2 DEF Items
  <1>4. \A k \in 1 .. n : s[k] # Gap /\ s[k].at.line = start + k
                          /\ s[k] = RenderLine(t, matched, start + k - 1)
    BY <1>2, RenderedLine
  <1> HIDE DEF s
  <1>5. ASSUME NEW k \in 1 .. n
        PROVE  /\ s[k].at.line \in Nat \ {0}
               /\ s[k] = RenderLine(t, matched, s[k].at.line - 1)
               /\ k > 1 => s[k - 1] # Gap /\ s[k - 1].at.line = s[k].at.line - 1
    <2>1. k > 1 => k - 1 \in 1 .. n
      BY <1>1
    <2>2. k > 1 => s[k - 1] # Gap /\ s[k - 1].at.line = start + (k - 1)
      BY <1>4, <2>1
    <2>3. s[k].at.line = start + k
      BY <1>4
    <2> QED
      BY <1>1, <1>4, <2>2, <2>3
  <1>6. {s[k].at.line : k \in {k \in DOMAIN s : s[k] # Gap}} = start + 1 .. end
    <2>1. ASSUME NEW k \in 1 .. n
          PROVE  s[k].at.line \in start + 1 .. end
      BY <1>1, <1>4
    <2>2. ASSUME NEW l \in start + 1 .. end
          PROVE  \E k \in 1 .. n : s[k].at.line = l
      <3>1. l - start \in 1 .. n /\ start + (l - start) = l
        BY <1>1
      <3>2. s[l - start].at.line = start + (l - start)
        BY <1>4, <3>1
      <3> QED
        BY <3>1, <3>2
    <2> QED
      BY <1>3, <1>4, <2>1, <2>2
  <1>7. n \in 1 .. n /\ start + n = end
    BY <1>1
  <1> HIDE DEF n
  <1>8. s[Len(s)] # Gap /\ s[Len(s)].at.line = end /\ Len(s) > 0
    <2>1. Len(s) = n /\ n > 0
      BY <1>1, <1>3
    <2>2. s[n] # Gap /\ s[n].at.line = start + n
      BY <1>4, <1>7
    <2> QED
      BY <1>7, <2>1, <2>2
  <1>9. Shows(s, t, matched, start + 1 .. end, end)
    BY <1>3, <1>5, <1>6, <1>8 DEF Shows
  <1> QED
    BY <1>9 DEF s, n

(* c is b behind a.                                                        *)
Joins(c, a, b, X) ==
  /\ c \in Seq(X) /\ Len(c) = Len(a) + Len(b)
  /\ \A i \in 1 .. Len(a) : c[i] = a[i]
  /\ \A i \in 1 .. Len(b) : c[Len(a) + i] = b[i]

(* Concatenation puts one sequence behind the other.                       *)
LEMMA Joined ==
  ASSUME NEW X, NEW a \in Seq(X), NEW b \in Seq(X)
  PROVE  Joins(a \o b, a, b, X)
  <1> DEFINE c == a \o b
  <1>1. /\ c \in Seq(X) /\ Len(c) = Len(a) + Len(b)
        /\ \A i \in 1 .. Len(a) + Len(b) : c[i] = IF i <= Len(a) THEN a[i] ELSE b[i - Len(a)]
    BY ConcatProperties
  <1>2. Len(a) \in Nat /\ Len(b) \in Nat
    OBVIOUS
  <1> HIDE DEF c
  <1>3. ASSUME NEW i \in 1 .. Len(b)
        PROVE  c[Len(a) + i] = b[i]
    <2>1. Len(a) + i \in 1 .. Len(a) + Len(b) /\ ~(Len(a) + i <= Len(a)) /\ Len(a) + i - Len(a) = i
      BY <1>2
    <2> QED
      BY <1>1, <2>1
  <1>4. ASSUME NEW i \in 1 .. Len(a)
        PROVE  c[i] = a[i]
    <2>1. i \in 1 .. Len(a) + Len(b) /\ i <= Len(a)
      BY <1>2
    <2> QED
      BY <1>1, <2>1
  <1> QED
    BY <1>1, <1>3, <1>4 DEF c, Joins

(* Two sequences with one element between them.                            *)
LEMMA JoinedBy ==
  ASSUME NEW X, NEW a \in Seq(X), NEW b \in Seq(X), NEW c \in X
  PROVE  /\ a \o (<<c>> \o b) \in Seq(X)
         /\ Len(a \o (<<c>> \o b)) = Len(a) + 1 + Len(b)
         /\ DOMAIN (a \o (<<c>> \o b)) = 1 .. Len(a) + 1 + Len(b)
         /\ \A i \in 1 .. Len(a) : (a \o (<<c>> \o b))[i] = a[i]
         /\ (a \o (<<c>> \o b))[Len(a) + 1] = c
         /\ \A i \in 1 .. Len(b) : (a \o (<<c>> \o b))[Len(a) + 1 + i] = b[i]
  <1>1. <<c>> \in Seq(X) /\ Len(<<c>>) = 1 /\ <<c>>[1] = c
    OBVIOUS
  <1>2. PICK g : g = <<c>>
    OBVIOUS
  <1>3. PICK v : v = g \o b
    OBVIOUS
  <1>4. PICK r : r = a \o v
    OBVIOUS
  <1>5. Len(a) \in Nat /\ Len(b) \in Nat
    OBVIOUS
  <1>6. g \in Seq(X) /\ Len(g) = 1 /\ g[1] = c
    BY <1>1, <1>2
  <1>7. /\ v \in Seq(X) /\ Len(v) = Len(g) + Len(b)
        /\ \A i \in 1 .. Len(g) : v[i] = g[i]
        /\ \A i \in 1 .. Len(b) : v[Len(g) + i] = b[i]
    <2>1. Joins(g \o b, g, b, X)
      BY <1>6, Joined
    <2> QED
      BY <1>3, <2>1 DEF Joins
  <1>8. v[1] = c /\ Len(v) = 1 + Len(b) /\ \A i \in 1 .. Len(b) : v[1 + i] = b[i]
    <2>1. 1 \in 1 .. 1
      OBVIOUS
    <2> QED
      BY <1>6, <1>7, <2>1
  <1>9. /\ r \in Seq(X) /\ Len(r) = Len(a) + Len(v)
        /\ \A i \in 1 .. Len(a) : r[i] = a[i]
        /\ \A i \in 1 .. Len(v) : r[Len(a) + i] = v[i]
    <2>1. Joins(a \o v, a, v, X)
      BY <1>7, Joined
    <2> QED
      BY <1>4, <2>1 DEF Joins
  <1>10. ASSUME NEW i \in 1 .. Len(b)
         PROVE  r[Len(a) + 1 + i] = b[i]
    <2>1. 1 + i \in 1 .. Len(v) /\ Len(a) + (1 + i) = Len(a) + 1 + i
      BY <1>5, <1>8
    <2>2. r[Len(a) + (1 + i)] = v[1 + i]
      BY <1>9, <2>1
    <2> QED
      BY <1>8, <2>1, <2>2
  <1>11. r[Len(a) + 1] = c
    <2>1. 1 \in 1 .. Len(v)
      BY <1>5, <1>8
    <2> QED
      BY <1>8, <1>9, <2>1
  <1>12. Len(r) = Len(a) + 1 + Len(b) /\ DOMAIN r = 1 .. Len(a) + 1 + Len(b)
    BY <1>5, <1>8, <1>9
  <1>13. r = a \o (<<c>> \o b)
    BY <1>2, <1>3, <1>4
  <1> QED
    BY <1>9, <1>10, <1>11, <1>12, <1>13

(* Two runs of lines with a marker between them.                           *)
LEMMA GapJoins ==
  ASSUME NEW t, NEW matched, NEW s, NEW A, NEW x, Shows(s, t, matched, A, x),
         NEW u, NEW B, NEW y, Shows(u, t, matched, B, y),
         u[1] # Gap, x < u[1].at.line - 1
  PROVE  Shows(s \o (<<Gap>> \o u), t, matched, A \cup B, y)
  <1> DEFINE X == Items(t, matched)
             p == Len(s)
             q == Len(u)
             r == s \o (<<Gap>> \o u)
  <1>1. /\ s \in Seq(X) /\ u \in Seq(X) /\ Gap \in X
        /\ p \in Nat \ {0} /\ q \in Nat \ {0}
        /\ DOMAIN s = 1 .. p /\ DOMAIN u = 1 .. q
    BY DEF Shows, Items
  <1> HIDE DEF X
  <1>2. /\ r \in Seq(X) /\ Len(r) = p + 1 + q /\ DOMAIN r = 1 .. p + 1 + q
        /\ \A i \in 1 .. p : r[i] = s[i]
        /\ r[p + 1] = Gap
        /\ \A i \in 1 .. q : r[p + 1 + i] = u[i]
    BY ONLY <1>1, JoinedBy
  <1> HIDE DEF r, p, q
  <1>3. ASSUME NEW k \in 1 .. p + 1 + q
        PROVE  k \in 1 .. p \/ k = p + 1 \/ \E i \in 1 .. q : k = p + 1 + i
    <2>1. CASE k > p + 1
      <3>1. k - (p + 1) \in 1 .. q /\ k = p + 1 + (k - (p + 1))
        BY <1>1, <2>1
      <3> QED
        BY <3>1
    <2> QED
      BY <1>1, <2>1
  <1>4. \A i \in 1 .. p : s[i] # Gap =>
          /\ s[i].at.line \in Nat \ {0}
          /\ s[i] = RenderLine(t, matched, s[i].at.line - 1)
          /\ i > 1 => IF s[i - 1] = Gap
                        THEN i > 2 /\ s[i - 2].at.line < s[i].at.line - 1
                        ELSE s[i - 1].at.line = s[i].at.line - 1
    BY <1>1 DEF Shows
  <1>5. \A i \in 1 .. q : u[i] # Gap =>
          /\ u[i].at.line \in Nat \ {0}
          /\ u[i] = RenderLine(t, matched, u[i].at.line - 1)
          /\ i > 1 => IF u[i - 1] = Gap
                        THEN i > 2 /\ u[i - 2].at.line < u[i].at.line - 1
                        ELSE u[i - 1].at.line = u[i].at.line - 1
    BY <1>1 DEF Shows
  <1>6. s[p] # Gap /\ s[p].at.line = x /\ u[q] # Gap /\ u[q].at.line = y
    BY DEF Shows, p, q
  <1>7. ASSUME NEW k \in 1 .. p + 1 + q, r[k] # Gap
        PROVE  /\ r[k].at.line \in Nat \ {0}
               /\ r[k] = RenderLine(t, matched, r[k].at.line - 1)
               /\ k > 1 => IF r[k - 1] = Gap
                             THEN k > 2 /\ r[k - 2].at.line < r[k].at.line - 1
                             ELSE r[k - 1].at.line = r[k].at.line - 1
    <2>1. CASE k \in 1 .. p
      <3>1. r[k] = s[k] /\ (k > 1 => r[k - 1] = s[k - 1]) /\ (k > 2 => r[k - 2] = s[k - 2])
        BY <1>1, <1>2, <2>1
      <3> QED
        BY <1>4, <1>7, <2>1, <3>1
    <2>2. ASSUME NEW i \in 1 .. q, k = p + 1 + i
          PROVE  /\ r[k].at.line \in Nat \ {0}
                 /\ r[k] = RenderLine(t, matched, r[k].at.line - 1)
                 /\ k > 1 => IF r[k - 1] = Gap
                               THEN k > 2 /\ r[k - 2].at.line < r[k].at.line - 1
                               ELSE r[k - 1].at.line = r[k].at.line - 1
      <3>1. r[k] = u[i]
        BY <1>2, <2>2
      <3>2. CASE i = 1
        <4>1. k - 1 = p + 1 /\ k - 2 = p /\ k > 2
          BY <1>1, <2>2, <3>2
        <4>2. r[k - 1] = Gap /\ r[k - 2] = s[p]
          BY <1>1, <1>2, <4>1
        <4>3. r[k - 2].at.line < r[k].at.line - 1
          BY <1>6, <3>1, <3>2, <4>2
        <4> QED
          BY <1>5, <1>7, <3>1, <4>1, <4>2, <4>3
      <3>3. CASE i = 2
        <4>1. i - 1 \in 1 .. q /\ k - 1 = p + 1 + (i - 1) /\ i - 1 = 1
          BY <1>1, <2>2, <3>3
        <4>2. r[k - 1] = u[i - 1] /\ u[i - 1] # Gap
          BY <1>2, <4>1
        <4> QED
          BY <1>5, <1>7, <3>1, <3>3, <4>2
      <3>4. CASE i > 2
        <4>1. /\ i - 1 \in 1 .. q /\ k - 1 = p + 1 + (i - 1)
              /\ i - 2 \in 1 .. q /\ k - 2 = p + 1 + (i - 2) /\ k > 2
          BY <1>1, <2>2, <3>4
        <4>2. r[k - 1] = u[i - 1] /\ r[k - 2] = u[i - 2]
          BY <1>2, <4>1
        <4> QED
          BY <1>5, <1>7, <3>1, <3>4, <4>1, <4>2
      <3> QED
        BY <1>1, <3>2, <3>3, <3>4
    <2> QED
      BY <1>2, <1>3, <1>7, <2>1, <2>2
  <1>8. {r[k].at.line : k \in {k \in DOMAIN r : r[k] # Gap}} = A \cup B
    <2>1. /\ {s[k].at.line : k \in {k \in DOMAIN s : s[k] # Gap}} = A
          /\ {u[k].at.line : k \in {k \in DOMAIN u : u[k] # Gap}} = B
      BY DEF Shows
    <2>2. ASSUME NEW k \in 1 .. p + 1 + q, r[k] # Gap
          PROVE  r[k].at.line \in A \cup B
      <3>1. k \in 1 .. p => r[k] = s[k] /\ k \in DOMAIN s
        BY <1>1, <1>2
      <3>2. \A i \in 1 .. q : k = p + 1 + i => r[k] = u[i] /\ i \in DOMAIN u
        BY <1>1, <1>2
      <3>3. k \in 1 .. p => r[k].at.line \in A
        BY <2>1, <2>2, <3>1
      <3>4. \A i \in 1 .. q : k = p + 1 + i => r[k].at.line \in B
        BY <2>1, <2>2, <3>2
      <3> QED
        BY <1>2, <1>3, <2>2, <3>3, <3>4
    <2>3. ASSUME NEW l \in A
          PROVE  \E k \in 1 .. p + 1 + q : r[k] # Gap /\ r[k].at.line = l
      <3>1. PICK k \in DOMAIN s : s[k] # Gap /\ s[k].at.line = l
        BY <2>1
      <3> QED
        BY <1>1, <1>2, <3>1
    <2>4. ASSUME NEW l \in B
          PROVE  \E k \in 1 .. p + 1 + q : r[k] # Gap /\ r[k].at.line = l
      <3>1. PICK i \in DOMAIN u : u[i] # Gap /\ u[i].at.line = l
        BY <2>1
      <3>2. i \in 1 .. q /\ p + 1 + i \in 1 .. p + 1 + q
        BY <1>1
      <3> QED
        BY <1>2, <3>1, <3>2
    <2> QED
      BY <1>2, <2>2, <2>3, <2>4
  <1>9. r[Len(r)] # Gap /\ r[Len(r)].at.line = y /\ Len(r) > 0
    <2>1. Len(r) = p + 1 + q /\ q \in 1 .. q
      BY <1>1, <1>2
    <2> QED
      BY <1>1, <1>2, <1>6, <2>1
  <1>10. Shows(r, t, matched, A \cup B, y)
    BY <1>2, <1>7, <1>8, <1>9 DEF Shows, X
  <1> QED
    BY <1>10 DEF r

(* What one match adds to a section.                                       *)
Lines(t, matched, k, before, after) ==
  LET span == Span(t, matched, k, before, after) IN
  [i \in 1 .. span.end - span.start |-> RenderLine(t, matched, span.start + i - 1)]

Part(t, matched, k, before, after) ==
  IF Opens(matched, k, before, after)
    THEN (IF k = 1 THEN <<>> ELSE <<Gap>>) \o Lines(t, matched, k, before, after)
    ELSE <<>>

(* The last line of the windows up to a match.                             *)
Cut(t, matched, k, after) ==
  IF matched[k] + after < Searchable(t) THEN matched[k] + after ELSE Searchable(t)

(* The lines of a span show the windows of its matches.                    *)
LEMMA SpanShows ==
  ASSUME NEW t, NEW matched, NEW before, NEW after, Searches(t, matched, before, after),
         NEW k \in 1 .. Len(matched)
  PROVE  LET u    == Lines(t, matched, k, before, after)
             last == LastOf(matched, k, before, after)
         IN  /\ Shows(u, t, matched, Near(t, matched, k, last, before, after),
                      Cut(t, matched, last, after))
             /\ u[1] # Gap
             /\ u[1].at.line = Window(matched[k], before, after).start + 1
  <1> DEFINE u == Lines(t, matched, k, before, after)
             last == LastOf(matched, k, before, after)
             span == Span(t, matched, k, before, after)
             a == span.start
             b == span.end
  <1>1. /\ a = Window(matched[k], before, after).start
        /\ b = Cut(t, matched, last, after)
        /\ a \in Nat /\ b \in Nat /\ a < b
        /\ a + 1 .. b = Near(t, matched, k, last, before, after)
    BY SpanHolds DEF Cut
  <1>2. u = [i \in 1 .. b - a |-> RenderLine(t, matched, a + i - 1)]
    BY DEF Lines
  <1> HIDE DEF u, last, a, b
  <1>3. Shows(u, t, matched, a + 1 .. b, b)
    BY <1>1, <1>2, LinesShow
  <1>4. u[1] = RenderLine(t, matched, a)
    <2>1. 1 \in 1 .. b - a /\ a + 1 - 1 = a
      BY <1>1
    <2> QED
      BY <1>2, <2>1
  <1>5. u[1] # Gap /\ u[1].at.line = a + 1
    BY <1>1, <1>4, RenderedLine
  <1> QED
    BY <1>1, <1>3, <1>5 DEF u, last

(* Parts are sequences of items.                                           *)
LEMMA PartIsTyped ==
  ASSUME NEW t, NEW matched, NEW before, NEW after, Searches(t, matched, before, after),
         NEW k \in 1 .. Len(matched)
  PROVE  Part(t, matched, k, before, after) \in Seq(Items(t, matched))
  <1> DEFINE u == Lines(t, matched, k, before, after)
             X == Items(t, matched)
  <1>1. u \in Seq(X)
    BY SpanShows DEF Shows
  <1>2. <<>> \in Seq(X) /\ <<Gap>> \in Seq(X)
    BY DEF Items
  <1> HIDE DEF u, X
  <1>3. (IF k = 1 THEN <<>> ELSE <<Gap>>) \o u \in Seq(X)
    BY <1>1, <1>2, ConcatProperties
  <1> QED
    BY <1>2, <1>3 DEF Part, u, X

(* The windows of a run of matches, one after the other.                   *)
LEMMA NearJoins ==
  ASSUME NEW t, NEW matched, NEW before, NEW after,
         NEW k \in Nat \ {0, 1}, NEW l \in Nat, k <= l
  PROVE  Near(t, matched, 1, k - 1, before, after) \cup Near(t, matched, k, l, before, after)
           = Near(t, matched, 1, l, before, after)
  <1>1. 1 .. l = (1 .. k - 1) \cup (k .. l)
    OBVIOUS
  <1> QED
    BY <1>1 DEF Near

(* The section of a file that has matches.                                 *)
LEMMA SectionShows ==
  ASSUME NEW t, NEW matched, NEW before, NEW after, Searches(t, matched, before, after)
  PROVE  /\ Len(matched) = 0 => Section(t, matched, before, after) = <<>>
         /\ Len(matched) # 0 =>
              Shows(Section(t, matched, before, after), t, matched,
                    Near(t, matched, 1, Len(matched), before, after),
                    Cut(t, matched, Len(matched), after))
  <1> DEFINE m == Len(matched)
             X == Items(t, matched)
             part(k) == Part(t, matched, k, before, after)
             parts == [k \in 1 .. m |-> part(k)]
             last(k) == LastOf(matched, k, before, after)
             near(i, j) == Near(t, matched, i, j, before, after)
             cut(k) == Cut(t, matched, k, after)
             opens(k) == Opens(matched, k, before, after)
             u(k) == Lines(t, matched, k, before, after)
  <1>1. m \in Nat /\ DOMAIN matched = 1 .. m
    BY MatchedLines
  <1>2. Section(t, matched, before, after) = FlattenSeq(parts)
    BY <1>1 DEF Section, Part, Lines
  <1>3. parts \in Seq(Seq(X)) /\ Len(parts) = m
    <2> HIDE DEF X, part, m
    <2>1. \A k \in 1 .. m : part(k) \in Seq(X)
      BY PartIsTyped DEF X, part, m
    <2> QED
      BY <1>1, <2>1
  <1>4. \A k \in 1 .. m : parts[k] = part(k)
    OBVIOUS
  <1> HIDE DEF m, X, parts, part, last, near, cut, opens, u
  <1>5. PICK f \in [0 .. m -> Seq(X)] :
          /\ f[0] = <<>>
          /\ \A k \in 1 .. m : f[k] = f[k - 1] \o parts[k]
          /\ FlattenSeq(parts) = f[m]
    BY <1>3, FlattenSteps
  <1> DEFINE shows(k) == Shows(f[k], t, matched, near(1, last(k)), cut(last(k)))
             S == {k \in 0 .. m : k = 0 \/ shows(k)}
  <1>6. ASSUME NEW k \in 1 .. m, k - 1 \in S
        PROVE  k \in S
    <2>1. f[k] = f[k - 1] \o part(k) /\ f[k - 1] \in Seq(X) /\ k \in 0 .. m
      <3>1. k \in 0 .. m /\ k - 1 \in 0 .. m
        BY <1>1
      <3>2. f[k] = f[k - 1] \o parts[k]
        BY <1>5, Zenon
      <3>3. parts[k] = part(k)
        BY <1>4
      <3> QED
        BY <3>1, <3>2, <3>3
    <2>2. /\ Shows(u(k), t, matched, near(k, last(k)), cut(last(k)))
          /\ u(k) # <<>> /\ u(k)[1] # Gap
          /\ u(k)[1].at.line = Window(matched[k], before, after).start + 1
          /\ u(k) \in Seq(X)
      <3>1. /\ Shows(u(k), t, matched, near(k, last(k)), cut(last(k)))
            /\ u(k)[1] # Gap
            /\ u(k)[1].at.line = Window(matched[k], before, after).start + 1
        BY SpanShows DEF m, u, near, last, cut
      <3>2. u(k) \in Seq(X) /\ Len(u(k)) > 0
        BY <3>1 DEF Shows, X
      <3> QED
        BY <3>1, <3>2
    <2>3. last(k) \in k .. m
      BY LastOfSpan DEF last, m
    <2>4. CASE k = 1
      <3>1. part(k) = <<>> \o u(k)
        BY <2>4 DEF part, Part, u, Opens
      <3>2. part(k) = u(k)
        BY <2>2, <3>1, ConcatEmptySeq
      <3>0. k - 1 = 0
        BY <2>4
      <3>3. f[k] = <<>> \o u(k)
        <4>1. f[k - 1] = <<>>
          BY <1>5, <3>0, Zenon
        <4> QED
          BY <2>1, <3>2, <4>1, Zenon
      <3>4. f[k] = u(k)
        BY <2>2, <3>3, ConcatEmptySeq
      <3>5. shows(k)
        BY <2>2, <2>4, <3>4
      <3> QED
        BY <2>1, <3>5
    <2>5. ASSUME k # 1
          PROVE  /\ k \in 2 .. m /\ k - 1 \in 1 .. m
                 /\ shows(k - 1)
                 /\ last(k - 1) = IF opens(k) THEN k - 1 ELSE last(k)
      <3>1. k \in 2 .. m /\ k - 1 \in 1 .. m /\ k - 1 # 0
        BY <1>1, <2>5
      <3>2. shows(k - 1)
        BY <1>6, <3>1
      <3>3. last(k - 1) = IF opens(k) THEN k - 1 ELSE last(k)
        BY <3>1, LastOfNext DEF last, opens, m
      <3> QED
        BY <3>1, <3>2, <3>3
    <2>6. CASE k # 1 /\ opens(k)
      <3>1. part(k) = <<Gap>> \o u(k)
        BY <2>6 DEF part, Part, u, opens
      <3>2. Shows(f[k - 1], t, matched, near(1, k - 1), cut(k - 1))
        BY <2>5, <2>6
      <3>3. cut(k - 1) < Window(matched[k], before, after).start
        <4>1. Window(matched[k], before, after).start > Window(matched[k - 1], before, after).end
          BY <2>6 DEF opens, Opens
        <4>2. /\ Searchable(t) \in Nat /\ after \in Nat
              /\ matched[k] <= Searchable(t) /\ matched[k] \in Nat
              /\ matched[k - 1] \in Nat
              /\ Window(matched[k], before, after).start \in Nat
              /\ Window(matched[k], before, after).start < matched[k]
              /\ Window(matched[k - 1], before, after).end = matched[k - 1] + after
          BY <2>5, <2>6, MatchedLines DEF m
        <4>3. cut(k - 1) = IF matched[k - 1] + after < Searchable(t)
                             THEN matched[k - 1] + after ELSE Searchable(t)
          BY DEF cut, Cut
        <4> QED
          BY <4>1, <4>2, <4>3
      <3>4. cut(k - 1) < u(k)[1].at.line - 1
        <4>1. Window(matched[k], before, after).start \in Nat
          BY MatchedLines DEF m
        <4> QED
          BY <2>2, <3>3, <4>1
      <3>5. Shows(f[k - 1] \o (<<Gap>> \o u(k)), t, matched,
                  near(1, k - 1) \cup near(k, last(k)), cut(last(k)))
        BY <2>2, <3>2, <3>4, GapJoins
      <3>6. near(1, k - 1) \cup near(k, last(k)) = near(1, last(k))
        <4>1. k \in Nat \ {0, 1} /\ last(k) \in Nat /\ k <= last(k)
          BY <1>1, <2>3, <2>6
        <4> QED
          BY <4>1, NearJoins DEF near
      <3>7. shows(k)
        BY <2>1, <3>1, <3>5, <3>6
      <3> QED
        BY <2>1, <3>7
    <2>7. CASE k # 1 /\ ~opens(k)
      <3>1. part(k) = <<>>
        BY <2>7 DEF part, Part, opens
      <3>2. f[k] = f[k - 1]
        BY <2>1, <3>1, ConcatEmptySeq
      <3>3. shows(k)
        BY <2>5, <2>7, <3>2
      <3> QED
        BY <2>1, <3>3
    <2> QED
      BY <2>4, <2>6, <2>7
  <1>7. m \in S
    <2>1. 0 \in S
      BY <1>1
    <2> HIDE DEF S
    <2>2. 0 .. m \subseteq S
      BY <1>1, <1>6, <2>1, Reaches
    <2> QED
      BY <1>1, <2>2
  <1>8. CASE m = 0
    <2>1. Section(t, matched, before, after) = <<>>
      BY <1>2, <1>5, <1>8
    <2> QED
      BY <1>8, <2>1 DEF m
  <1>9. CASE m # 0
    <2>1. m \in 1 .. m
      BY <1>1, <1>9
    <2>2. last(m) \in m .. m
      BY <2>1, LastOfSpan DEF last, m
    <2>3. last(m) = m
      BY <1>1, <2>2
    <2>4. Shows(f[m], t, matched, near(1, m), cut(m))
      BY <1>7, <1>9, <2>3
    <2>5. Section(t, matched, before, after) = f[m]
      BY <1>2, <1>5
    <2> QED
      BY <1>9, <2>4, <2>5 DEF m, near, cut
  <1> QED
    BY <1>8, <1>9

(* The reference of the windows is the lines near the matches.             *)
LEMMA ShownIsNear ==
  ASSUME NEW t, NEW matched, NEW before, NEW after, Searches(t, matched, before, after)
  PROVE  Shown(t, matched, before, after)
           = Near(t, matched, 1, Len(matched), before, after)
  <1>1. DOMAIN matched = 1 .. Len(matched)
    BY MatchedLines
  <1>2. 1 .. Searchable(t)
          = {l \in 1 .. LineCount(t) : l < LineCount(t) \/ ByteAt(t, l - 1) < t.len}
    BY SearchableLines DEF Searches
  <1> QED
    BY <1>1, <1>2 DEF Shown, Near

(* Every section shows its windows.                                        *)
LEMMA SectionsShow ==
  ASSUME NEW t, NEW matched, NEW before, NEW after, Searches(t, matched, before, after)
  PROVE  ShowsTheWindows(Section(t, matched, before, after), t, matched, before, after)
  <1> DEFINE s == Section(t, matched, before, after)
             shown == Shown(t, matched, before, after)
  <1>1. /\ Len(matched) = 0 => s = <<>>
        /\ Len(matched) # 0 => Shows(s, t, matched, shown, Cut(t, matched, Len(matched), after))
    BY SectionShows, ShownIsNear
  <1> HIDE DEF s
  <1>2. CASE Len(matched) = 0
    <2>1. DOMAIN matched = {} /\ s = <<>> /\ DOMAIN s = {}
      BY <1>1, <1>2, MatchedLines
    <2>2. shown = {}
      BY <2>1 DEF Shown
    <2> QED
      BY <2>1, <2>2 DEF ShowsTheWindows, s
  <1>3. CASE Len(matched) # 0
    <2> DEFINE lines == {k \in DOMAIN s : s[k] # Gap}
    <2>1. Shows(s, t, matched, shown, Cut(t, matched, Len(matched), after))
      BY <1>1, <1>3
    <2>2. {s[k].at.line : k \in lines} = shown
      BY <2>1 DEF Shows
    <2> HIDE DEF shown
    <2>3. ASSUME NEW k \in lines
          PROVE  /\ s[k].at = PositionOf(t, s[k].at.line - 1)
                 /\ s[k].kind = "match" <=> \E i \in DOMAIN matched : matched[i] = s[k].at.line
                 /\ k > 1 => IF s[k - 1] = Gap
                               THEN k > 2 /\ s[k - 2].at.line < s[k].at.line - 1
                               ELSE s[k - 1].at.line = s[k].at.line - 1
      <3>1. /\ s[k].at.line \in Nat \ {0}
            /\ s[k] = RenderLine(t, matched, s[k].at.line - 1)
            /\ k > 1 => IF s[k - 1] = Gap
                          THEN k > 2 /\ s[k - 2].at.line < s[k].at.line - 1
                          ELSE s[k - 1].at.line = s[k].at.line - 1
        BY <2>1 DEF Shows
      <3>2. PICK l : l = s[k].at.line
        OBVIOUS
      <3>3. l - 1 \in Nat /\ l - 1 + 1 = l /\ s[k] = RenderLine(t, matched, l - 1)
        BY <3>1, <3>2
      <3>4. s[k].at = PositionOf(t, l - 1) /\ (s[k].kind = "match" <=> l \in Range(matched))
        BY <3>3, RenderedLine
      <3>5. l \in Range(matched) <=> \E i \in DOMAIN matched : matched[i] = l
        BY DEF Range
      <3> QED
        BY <3>1, <3>2, <3>4, <3>5
    <2>4. Last(s) # Gap
      BY <2>1 DEF Shows, Last
    <2>5. ShowsTheWindows(s, t, matched, before, after)
      BY <2>2, <2>3, <2>4 DEF ShowsTheWindows, shown
    <2> QED
      BY <2>5 DEF s
  <1> QED
    BY <1>2, <1>3

(* What grep hands to the rendering of a file is what a searcher may find. *)
LEMMA EntriesAreSearched ==
  ASSUME tree \in Trees, request \in Requests, NEW f \in Entries
  PROVE  Searches(tree[f].text, tree[f].matched, Before, After)
  <1>1. request \in Request /\ None \notin Nat
    BY GrepAssumption
  <1>2. Before \in Nat /\ After \in Nat
    BY <1>1 DEF Before, After, Request
  <1>3. tree \in Seq(Entry)
    BY GrepAssumption
  <1>4. tree[f] \in Entry
    BY <1>3 DEF Entries
  <1>5. IsText(tree[f].text) /\ tree[f].matched \in Seq(Nat \ {0})
    BY <1>4 DEF Entry
  <1>6. /\ \A i, j \in DOMAIN tree[f].matched : i < j => tree[f].matched[i] < tree[f].matched[j]
        /\ \A i \in DOMAIN tree[f].matched : tree[f].matched[i] <= Searchable(tree[f].text)
    BY GrepAssumption DEF Entries
  <1> QED
    BY <1>2, <1>5, <1>6 DEF Searches

(* The section of one file of the tree.                                    *)
SectionOf(f) == Section(tree[f].text, tree[f].matched, Before, After)

(* A client names a file of the tree.                                      *)
Requested ==
  /\ request \in Requests
  /\ request.target # Tree => request.target \in Entries

(* The sections of an answer are those of its files.                       *)
Rendered(r) ==
  r.code = "ok" /\ request.mode = "content" =>
    \A k \in DOMAIN r.files : r.files[k] \in Entries /\ r.sections[k] = SectionOf(r.files[k])

RenderInv ==
  /\ Requested
  /\ phase = "answered" => Rendered(reply)

(* What assemble_output puts together is rendered, file by file.           *)
LEMMA AssembledRendered ==
  ASSUME tree \in Trees, request \in Requests, NEW found \in SUBSET Entries, NEW skips
  PROVE  Rendered(Assemble(found, skips))
  <1> DEFINE r == Assemble(found, skips)
  <1>1. request.max \in Nat
    BY GrepAssumption DEF Request
  <1>2. /\ Fits(r, MatchCounts, request.max, found, Len(tree))
        /\ r.sections = IF request.mode = "content"
                           THEN [k \in DOMAIN r.files |-> SectionOf(r.files[k])]
                           ELSE <<>>
    BY <1>1, AssembledFits DEF SectionOf
  <1> HIDE DEF r
  <1>3. FilesOf(r) = Allowed(found, request.max)
    BY <1>2, FitsAll
  <1>4. \A k \in DOMAIN r.files : r.files[k] \in Entries
    BY <1>3 DEF FilesOf, Allowed
  <1>5. Rendered(r)
    BY <1>2, <1>4 DEF Rendered
  <1> QED
    BY <1>5 DEF r

(* A failure shows nothing.                                                *)
LEMMA FailedRendered ==
  ASSUME NEW code
  PROVE  Rendered(Failed(code))
  <1>1. Failed(code).files = <<>>
    BY DEF Failed
  <1>2. DOMAIN Failed(code).files = {}
    BY <1>1
  <1> QED
    BY <1>2 DEF Rendered

(* An answer that was rendered when it was given stays so.                 *)
LEMMA RepliesRender ==
  ASSUME Requested, UNCHANGED <<tree, request>>, NEW r, Rendered(r), Reply(r)
  PROVE  RenderInv'
  <1>1. Requested'
    BY DEF Requested, Entries
  <1>2. reply' = r /\ Rendered(reply)'
    BY DEF Reply, Rendered, SectionOf, Before, After, Entries
  <1> QED
    BY <1>1, <1>2 DEF RenderInv

(* Every step keeps the sections those of the files.                       *)
LEMMA RenderKept ==
  ASSUME WalkInv, RenderInv, [Next]_vars
  PROVE  RenderInv'
  <1>0. tree \in Trees /\ Requested /\ request \in Requests /\ collected \in SUBSET Entries
    BY DEF WalkInv, Shape, RenderInv, Requested
  <1>1. CASE UNCHANGED <<tree, request, reply>> /\ (phase' = "answered" => phase = "answered")
    BY <1>1 DEF RenderInv, Requested, Rendered, SectionOf, Before, After, Entries
  <1>2. CASE Refuse
    <2>1. PICK code : Reply(Failed(code))
      BY <1>2 DEF Refuse
    <2>2. Rendered(Failed(code))
      BY FailedRendered
    <2>3. UNCHANGED <<tree, request>>
      BY <1>2 DEF Refuse
    <2> QED
      BY <1>0, <2>1, <2>2, <2>3, RepliesRender
  <1>3. CASE SearchExplicitFile
    <2>1. /\ request.target \in Entries
          /\ UNCHANGED <<tree, request>>
      BY <1>0, <1>3 DEF SearchExplicitFile, Requested
    <2>2. PICK r \in ExplicitAnswers(request.target) : Reply(r)
      BY <1>3 DEF SearchExplicitFile
    <2> DEFINE named == {g \in {request.target} : Matches(g) > 0}
    <2>3. r = Assemble(named, NoSkips) \/ \E code : r = Failed(code)
      BY <2>2 DEF ExplicitAnswers
    <2>4. named \in SUBSET Entries
      BY <2>1
    <2> HIDE DEF named
    <2>5. Rendered(Assemble(named, NoSkips))
      BY <1>0, <2>4, AssembledRendered
    <2>6. Rendered(r)
      BY <2>3, <2>5, FailedRendered
    <2> QED
      BY <1>0, <2>1, <2>2, <2>6, RepliesRender
  <1>4. CASE StartWalk
    BY <1>1, <1>4 DEF StartWalk
  <1>5. CASE Respond
    <2>1. UNCHANGED <<tree, request>>
      BY <1>5 DEF Respond
    <2>2. PICK r : Reply(r) /\ (r = Failed(slot) \/ r = Assemble(collected, skipped))
      BY <1>5 DEF Respond
    <2>3. Rendered(Assemble(collected, skipped))
      BY <1>0, AssembledRendered
    <2>4. Rendered(r)
      BY <2>2, <2>3, FailedRendered
    <2> QED
      BY <1>0, <2>1, <2>2, <2>4, RepliesRender
  <1>6. CASE \E w \in Workers : Step(w)
    BY <1>1, <1>6, WorkerFrame
  <1>7. CASE UNCHANGED vars
    BY <1>1, <1>7 DEF vars
  <1> QED
    BY <1>2, <1>3, <1>4, <1>5, <1>6, <1>7 DEF Next, Handle

(* Each section of an answer shows the matches of its file and their       *)
(* context, whatever the windows: they are merged where they touch, cut at *)
(* the ends of the file, and a marker stands exactly where lines are left  *)
(* out (grep.rs, included_spans and render_hit).                           *)
THEOREM SectionsAreTheWindows == Spec => []SectionsShowTheWindows
  <1>1. Init => RenderInv
    <2> SUFFICES ASSUME Init PROVE RenderInv
      OBVIOUS
    <2>1. /\ tree \in Trees /\ request \in Requests /\ phase = "called"
          /\ request.target # Tree => request.target <= Len(tree)
      BY DEF Init
    <2>2. request.target \in Nat
      BY <2>1, GrepAssumption DEF Request
    <2>3. Entries = 1 .. Len(tree) /\ Len(tree) \in Nat
      BY <2>1, EntriesCount
    <2> QED
      BY <2>1, <2>2, <2>3 DEF RenderInv, Requested, Tree
  <1>2. WalkInv /\ RenderInv /\ [Next]_vars => RenderInv'
    BY RenderKept
  <1>3. WalkInv /\ RenderInv => SectionsShowTheWindows
    <2> SUFFICES ASSUME WalkInv, RenderInv, phase = "answered", reply.code = "ok",
                        request.mode = "content", NEW k \in DOMAIN reply.files
                 PROVE  ShowsTheWindows(reply.sections[k], tree[reply.files[k]].text,
                                        tree[reply.files[k]].matched, Before, After)
      BY DEF SectionsShowTheWindows
    <2>1. reply.files[k] \in Entries /\ reply.sections[k] = SectionOf(reply.files[k])
      BY DEF RenderInv, Rendered
    <2>2. tree \in Trees /\ request \in Requests
      BY DEF WalkInv, Shape, RenderInv, Requested
    <2>3. Searches(tree[reply.files[k]].text, tree[reply.files[k]].matched, Before, After)
      BY <2>1, <2>2, EntriesAreSearched
    <2> QED
      BY <2>1, <2>3, SectionsShow DEF SectionOf
  <1> QED
    BY <1>1, <1>2, <1>3, WalkInvHolds, PTL DEF Spec

-----------------------------------------------------------------------------
(* Progress *)

(* The course of a worker between two entries.                             *)
Stage == [search |-> 0, stop |-> 1, idle |-> 2, ended |-> 3]

Fewer(S, T) == S \subseteq T /\ S # T

(* Some worker is further with its entry, the others are where they were.  *)
OneIsFurther ==
  \E w \in Workers :
    /\ Stage[pc'[w]] > Stage[pc[w]]
    /\ \A v \in Workers \ {w} : pc'[v] = pc[v]

(* A step of the walk: an entry is given out, for good, or one that was    *)
(* given out is done with.                                                 *)
WalkAdvances ==
  phase = "walking" /\ phase' = "walking" =>
    Fewer(pending', pending) \/ (pending' = pending /\ OneIsFurther)

(* A request is answered once, and walks once.                             *)
RequestAdvances ==
  \/ phase' = phase
  \/ phase = "called" /\ phase' \in {"walking", "answered"}
  \/ phase = "walking" /\ phase' = "answered"

(* The walk draws nearer to its end with every step, whichever worker is   *)
(* scheduled and however late it learns that the walk was quit: no entry   *)
(* is visited twice, and a worker that is done with an entry ends or is    *)
(* given another one.                                                      *)
THEOREM WalksEnd == Spec => [][RequestAdvances /\ WalkAdvances]_vars
  <1>1. ASSUME WalkInv, NEW w \in Workers, Step(w)
        PROVE  RequestAdvances /\ WalkAdvances
    <2> USE DEF WalkInv, Shape
    <2>1. RequestAdvances
      BY <1>1, WorkerFrame DEF RequestAdvances
    <2>2. CASE \E f \in Entries : Visit(w, f)
      BY <1>1, <2>1, <2>2 DEF Visit, WalkAdvances, Fewer
    <2>3. CASE Pass(w) \/ Fail(w) \/ Count(w) \/ Stop(w) \/ End(w)
      <3>1. /\ pending' = pending
            /\ \A v \in Workers \ {w} : pc'[v] = pc[v]
        BY <1>1, <2>3 DEF Pass, Fail, Count, Stop, End
      <3>2. \/ pc[w] = "search" /\ pc'[w] \in {"idle", "stop"}
            \/ pc[w] = "stop" /\ pc'[w] = "idle"
            \/ pc[w] = "idle" /\ pc'[w] = "ended"
        BY <1>1, <2>3 DEF Pass, Fail, Count, Stop, End
      <3>3. Stage[pc'[w]] > Stage[pc[w]]
        BY <3>2 DEF Stage
      <3>4. OneIsFurther
        BY <3>1, <3>3, Zenon DEF OneIsFurther
      <3> QED
        BY <2>1, <3>1, <3>4 DEF WalkAdvances
    <2> QED
      BY <1>1, <2>2, <2>3 DEF Step
  <1>2. ASSUME Handle
        PROVE  RequestAdvances /\ WalkAdvances
    BY <1>2 DEF Handle, Refuse, SearchExplicitFile, StartWalk, Respond, Reply, RequestAdvances,
                WalkAdvances
  <1>3. WalkInv /\ [Next]_vars => [RequestAdvances /\ WalkAdvances]_vars
    BY <1>1, <1>2 DEF Next
  <1> QED
    BY <1>3, WalkInvHolds, PTL DEF Spec

===============================================================================
