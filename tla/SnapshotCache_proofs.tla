-------------------------- MODULE SnapshotCache_proofs --------------------------
(***************************************************************************)
(* Proofs about SnapshotCache, for any calls, paths and publishers: who    *)
(* loads and who is left waiting (the in-flight cells), and that an entry  *)
(* confirmed by metadata alone is the file's content, so that a call never *)
(* answers with what the path ceased to hold before it began.              *)
(***************************************************************************)
EXTENDS SnapshotCache, FiniteSetTheorems, WellFoundedInduction, TLAPS

(* A call that has not taken a cell.                                       *)
Early == {"idle", "stat", "get", "peek", "open", "compare", "confirm", "refresh",
          "restat", "claim"}

Loading(r) == pc[r] \in {"load", "store", "clear"}
Waiting(r) == pc[r] = "wait"

IsCell(x) == x = [holder |-> x.holder, state |-> x.state, data |-> x.data]

Shape ==
  /\ inflight \in [Paths -> Readers \cup {None}]
  /\ DOMAIN cell = Readers /\ cell = [k \in Readers |-> cell[k]]
  /\ \A k \in Readers : IsCell(cell[k])
  /\ pc \in [Readers -> Running \cup {"idle", "done"}]
  /\ path \in [Readers -> Paths \cup {None}]
  /\ joined \in [Readers -> Readers \cup {None}]
  /\ \A r \in Readers :
       /\ pc[r] # "idle" => path[r] \in Paths
       /\ pc[r] \in Early => joined[r] = None
       /\ Waiting(r) \/ Loading(r) => joined[r] \in Readers

(* The cell a call will create is nobody's until it claims.                *)
OwnCellIsFresh ==
  \A k \in Readers : pc[k] \in Early =>
    /\ cell[k].holder = None /\ cell[k].state = "pending"
    /\ \A s \in Readers : joined[s] # k
    /\ \A p \in Paths : inflight[p] # k

(* A loader holds its cell, and has settled it before it clears the path.  *)
LoadersHold ==
  \A r \in Readers :
    /\ Loading(r) => cell[joined[r]].holder = r
    /\ pc[r] = "clear" => cell[joined[r]].state # "pending"

(* The calls of a cell in flight are calls on its path, and one of them is *)
(* about to settle or clear it.                                            *)
FlightsAreManned ==
  \A p \in Paths : inflight[p] # None =>
    /\ \A s \in Readers : joined[s] = inflight[p] => path[s] = p
    /\ \/ \E r \in Readers : Loading(r) /\ joined[r] = inflight[p]
       \/ /\ cell[inflight[p]].state = "pending"
          /\ \E r \in Readers : Waiting(r) /\ joined[r] = inflight[p]

(* Who loads, or may come to, does so in the cell that is in flight.       *)
LoadersAreInFlight ==
  \A r \in Readers :
    Loading(r) \/ (Waiting(r) /\ cell[joined[r]].state = "pending")
      => inflight[path[r]] = joined[r]

CellInv ==
  /\ Shape /\ OwnCellIsFresh /\ LoadersHold /\ FlightsAreManned
  /\ "invalidate" \notin Disturbances => LoadersAreInFlight

cellVars == <<inflight, cell, pc, path, joined>>

-----------------------------------------------------------------------------

LEMMA CellInit == Init => CellInv
  <1> SUFFICES ASSUME Init
               PROVE  CellInv
    OBVIOUS
  <1>1. Shape
    BY DEF Init, Shape, IsCell, Running, Early, Loading, Waiting
  <1>2. \A r \in Readers : pc[r] = "idle"
    BY DEF Init
  <1>3. OwnCellIsFresh
    BY CacheAssumption DEF Init, OwnCellIsFresh
  <1>4. FlightsAreManned
    BY DEF Init, FlightsAreManned
  <1>5. LoadersHold /\ LoadersAreInFlight
    BY <1>2 DEF LoadersHold, LoadersAreInFlight, Loading, Waiting
  <1> QED
    BY <1>1, <1>3, <1>4, <1>5 DEF CellInv

LEMMA CellStutter ==
  ASSUME CellInv, UNCHANGED cellVars
  PROVE  CellInv'
  <1>1. UNCHANGED <<inflight, cell, pc, path, joined>>
    BY DEF cellVars
  <1>2. Shape'
    BY <1>1 DEF CellInv, Shape, Loading, Waiting
  <1>3. OwnCellIsFresh' /\ LoadersHold'
    BY <1>1 DEF CellInv, OwnCellIsFresh, LoadersHold, Loading
  <1>4. FlightsAreManned'
    BY <1>1 DEF CellInv, FlightsAreManned, Loading, Waiting
  <1>5. "invalidate" \notin Disturbances => LoadersAreInFlight'
    BY <1>1 DEF CellInv, LoadersAreInFlight, Loading, Waiting
  <1> QED
    BY <1>2, <1>3, <1>4, <1>5 DEF CellInv

(* A call before its claim touches no cell.                                *)
LEMMA EarlyStep ==
  ASSUME CellInv, NEW r \in Readers, pc[r] \in Early,
         NEW to \in (Early \ {"idle"}) \cup {"done"}, pc' = [pc EXCEPT ![r] = to],
         UNCHANGED <<inflight, cell, joined>>,
         \/ path' = path /\ pc[r] # "idle"
         \/ \E p \in Paths : path' = [path EXCEPT ![r] = p]
  PROVE  CellInv'
  <1>1. /\ joined[r] = None
        /\ ~Loading(r) /\ ~Waiting(r) /\ ~Loading(r)' /\ ~Waiting(r)'
    BY DEF CellInv, Shape, Early, Loading, Waiting
  <1>2. \A s \in Readers \ {r} : pc'[s] = pc[s] /\ path'[s] = path[s]
    BY DEF CellInv, Shape
  <1>3. path' \in [Readers -> Paths \cup {None}] /\ path'[r] \in Paths
    BY DEF CellInv, Shape
  <1>4. Shape'
    <2>1. pc' \in [Readers -> Running \cup {"idle", "done"}]
      BY DEF CellInv, Shape, Early, Running
    <2>2. \A s \in Readers :
            /\ pc'[s] # "idle" => path'[s] \in Paths
            /\ pc'[s] \in Early => joined[s] = None
            /\ Waiting(s)' \/ Loading(s)' => joined[s] \in Readers
      BY <1>1, <1>2, <1>3 DEF CellInv, Shape, Loading, Waiting
    <2> QED
      BY <1>3, <2>1, <2>2 DEF CellInv, Shape
  <1>5. OwnCellIsFresh'
    BY <1>2 DEF CellInv, OwnCellIsFresh
  <1>6. LoadersHold'
    BY <1>1, <1>2 DEF CellInv, LoadersHold, Loading
  <1>7. FlightsAreManned'
    <2> SUFFICES ASSUME NEW p \in Paths, inflight[p] # None
                 PROVE  /\ \A s \in Readers : joined[s] = inflight[p] => path'[s] = p
                        /\ \/ \E s \in Readers : Loading(s)' /\ joined[s] = inflight[p]
                           \/ /\ cell[inflight[p]].state = "pending"
                              /\ \E s \in Readers : Waiting(s)' /\ joined[s] = inflight[p]
      BY DEF FlightsAreManned
    <2>1. \A s \in Readers : joined[s] = inflight[p] => s # r
      BY <1>1
    <2> QED
      BY <1>2, <2>1 DEF CellInv, FlightsAreManned, Loading, Waiting
  <1>8. "invalidate" \notin Disturbances => LoadersAreInFlight'
    BY <1>1, <1>2 DEF CellInv, LoadersAreInFlight, Loading, Waiting
  <1> QED
    BY <1>4, <1>5, <1>6, <1>7, <1>8 DEF CellInv

(* A call that takes the cell of its path, or makes it.                    *)
LEMMA ClaimStep ==
  ASSUME CellInv, NEW r \in Readers, Claim(r)
  PROVE  CellInv'
  <1>1. pc[r] = "claim" /\ pc[r] \in Early /\ path[r] \in Paths /\ joined[r] = None
    BY DEF Claim, CellInv, Shape, Early
  <1>2. CASE pc' = [pc EXCEPT ![r] = "done"] /\ UNCHANGED <<inflight, joined>>
    <2>1. UNCHANGED <<cell, path>>
      BY DEF Claim
    <2> QED
      BY <1>1, <1>2, <2>1, EarlyStep
  <1>3. ASSUME NEW p, p = path[r],
               NEW k, k = IF inflight[p] = None THEN r ELSE inflight[p],
               inflight' = [inflight EXCEPT ![p] = k],
               joined' = [joined EXCEPT ![r] = k],
               pc' = [pc EXCEPT ![r] = "wait"],
               UNCHANGED <<cell, path>>
        PROVE  CellInv'
    <2>1. p \in Paths /\ k \in Readers /\ inflight'[p] = k /\ joined'[r] = k
      BY <1>1, <1>3 DEF CellInv, Shape
    <2>2. \A s \in Readers \ {r} : pc'[s] = pc[s] /\ joined'[s] = joined[s]
      BY <1>3 DEF CellInv, Shape
    <2>3. pc'[r] = "wait"
      BY <1>3 DEF CellInv, Shape
    <2>4. \A q \in Paths \ {p} : inflight'[q] = inflight[q]
      BY <1>3 DEF CellInv, Shape
    <2>5. Shape'
      <3>1. /\ inflight' \in [Paths -> Readers \cup {None}]
            /\ pc' \in [Readers -> Running \cup {"idle", "done"}]
            /\ joined' \in [Readers -> Readers \cup {None}]
        BY <1>3, <2>1 DEF CellInv, Shape, Running
      <3>2. \A s \in Readers :
              /\ pc'[s] # "idle" => path[s] \in Paths
              /\ pc'[s] \in Early => joined'[s] = None
              /\ Waiting(s)' \/ Loading(s)' => joined'[s] \in Readers
        BY <1>1, <2>1, <2>2, <2>3 DEF CellInv, Shape, Early, Waiting, Loading
      <3> QED
        BY <1>3, <3>1, <3>2 DEF CellInv, Shape
    <2>6. OwnCellIsFresh'
      <3> SUFFICES ASSUME NEW c \in Readers, pc'[c] \in Early
                   PROVE  /\ cell[c].holder = None /\ cell[c].state = "pending"
                          /\ \A s \in Readers : joined'[s] # c
                          /\ \A q \in Paths : inflight'[q] # c
        BY <1>3 DEF OwnCellIsFresh
      <3>1. c # r /\ pc[c] \in Early
        BY <2>2, <2>3 DEF Early
      <3>2. k # c
        BY <1>3, <2>1, <3>1 DEF CellInv, OwnCellIsFresh
      <3> QED
        BY <2>1, <2>2, <2>4, <3>1, <3>2 DEF CellInv, OwnCellIsFresh
    <2>7. LoadersHold'
      BY <1>3, <2>2, <2>3 DEF CellInv, LoadersHold, Loading
    <2>8. FlightsAreManned'
      <3> SUFFICES ASSUME NEW q \in Paths, inflight'[q] # None
                   PROVE  /\ \A s \in Readers : joined'[s] = inflight'[q] => path[s] = q
                          /\ \/ \E s \in Readers : Loading(s)' /\ joined'[s] = inflight'[q]
                             \/ /\ cell[inflight'[q]].state = "pending"
                                /\ \E s \in Readers : Waiting(s)' /\ joined'[s] = inflight'[q]
        BY <1>3 DEF FlightsAreManned
      <3>1. CASE q = p /\ inflight[p] = None
        <4>1. k = r /\ cell[r].state = "pending" /\ \A s \in Readers : joined[s] # r
          BY <1>1, <1>3, <3>1 DEF CellInv, OwnCellIsFresh
        <4> QED
          BY <1>3, <2>1, <2>2, <2>3, <3>1, <4>1 DEF Waiting
      <3>2. CASE inflight[q] # None
        <4>1. inflight'[q] = inflight[q]
          BY <1>3, <2>1, <2>4, <3>2
        <4>2. joined'[r] = inflight[q] => q = p
          <5>1. inflight[q] # r
            BY <1>1 DEF CellInv, OwnCellIsFresh
          <5>2. CASE inflight[p] = None
            BY <1>3, <2>1, <5>1, <5>2
          <5>3. CASE inflight[p] # None
            <6>1. \A t \in Paths : inflight[t] # None =>
                    \E s \in Readers : joined[s] = inflight[t] /\ path[s] = t
              BY DEF CellInv, FlightsAreManned
            <6>2. k = inflight[p]
              BY <1>3, <5>3
            <6> QED
              BY <2>1, <3>2, <5>3, <6>1, <6>2 DEF CellInv, FlightsAreManned
          <5> QED
            BY <5>2, <5>3
        <4>3. joined[r] # inflight[q]
          BY <1>1, <3>2
        <4>4. \A s \in Readers : joined[s] = inflight[q] => s # r
          BY <4>3
        <4> QED
          BY <1>3, <2>2, <3>2, <4>1, <4>2, <4>4 DEF CellInv, FlightsAreManned, Waiting, Loading
      <3> QED
        BY <2>4, <3>1, <3>2
    <2>9. "invalidate" \notin Disturbances => LoadersAreInFlight'
      <3> SUFFICES ASSUME "invalidate" \notin Disturbances, NEW s \in Readers,
                          Loading(s)' \/ (Waiting(s)' /\ cell[joined'[s]].state = "pending")
                   PROVE  inflight'[path[s]] = joined'[s]
        BY <1>3 DEF LoadersAreInFlight
      <3>1. CASE s = r
        BY <1>3, <2>1, <3>1
      <3>2. CASE s # r
        <4>1. Loading(s) \/ (Waiting(s) /\ cell[joined[s]].state = "pending")
          BY <2>2, <3>2 DEF Loading, Waiting
        <4>2. inflight[path[s]] = joined[s] /\ joined[s] # None /\ path[s] \in Paths
          BY <4>1, CacheAssumption
             DEF CellInv, LoadersAreInFlight, Shape, Loading, Waiting
        <4> QED
          BY <1>3, <2>1, <2>2, <2>4, <3>2, <4>2
      <3> QED
        BY <3>1, <3>2
    <2> QED
      BY <2>5, <2>6, <2>7, <2>8, <2>9 DEF CellInv
  <1> QED
    BY <1>2, <1>3 DEF Claim, Answer, Drop, shardVars

(* A step of a call that holds or awaits its cell, and keeps it: what is   *)
(* common to taking, loading, storing and clearing.                        *)
LEMMA JoinedShape ==
  ASSUME CellInv, NEW r \in Readers, Loading(r) \/ Waiting(r),
         pc' = [pc EXCEPT ![r] = pc'[r]], pc'[r] \in {"load", "store", "clear", "done"},
         path' = path, joined' = joined,
         cell' = [cell EXCEPT ![joined[r]] = cell'[joined[r]]], IsCell(cell'[joined[r]]),
         inflight' = inflight \/ inflight' = [inflight EXCEPT ![path[r]] = None]
  PROVE  /\ \A s \in Readers \ {r} : pc'[s] = pc[s]
         /\ \A j \in Readers \ {joined[r]} : cell'[j] = cell[j]
         /\ \A q \in Paths : inflight'[q] \in {inflight[q], None}
         /\ Shape' /\ OwnCellIsFresh'
  <1> DEFINE k == joined[r]
  <1>1. k \in Readers /\ path[r] \in Paths
    BY DEF CellInv, Shape, Loading, Waiting
  <1>2. \A s \in Readers \ {r} : pc'[s] = pc[s]
    BY DEF CellInv, Shape
  <1>3. \A j \in Readers \ {k} : cell'[j] = cell[j]
    BY <1>1 DEF CellInv, Shape
  <1>4. /\ inflight' \in [Paths -> Readers \cup {None}]
        /\ \A q \in Paths : inflight'[q] \in {inflight[q], None}
    BY <1>1 DEF CellInv, Shape
  <1>5. Shape'
    <2>1. pc' \in [Readers -> Running \cup {"idle", "done"}]
      BY DEF CellInv, Shape, Running
    <2>2. DOMAIN cell' = Readers /\ cell' = [j \in Readers |-> cell'[j]]
      <3>1. DOMAIN cell = Readers
        BY DEF CellInv, Shape
      <3>2. cell' = [j \in Readers |-> IF j = k THEN cell'[k] ELSE cell[j]]
        BY <3>1
      <3> QED
        BY <1>1, <3>2
    <2>3. \A j \in Readers : IsCell(cell'[j])
      BY <1>3 DEF CellInv, Shape
    <2>4. \A s \in Readers :
            /\ pc'[s] # "idle" => path[s] \in Paths
            /\ pc'[s] \in Early => joined[s] = None
            /\ Waiting(s)' \/ Loading(s)' => joined[s] \in Readers
      BY <1>1, <1>2 DEF CellInv, Shape, Early, Loading, Waiting
    <2> QED
      BY <1>4, <2>1, <2>2, <2>3, <2>4 DEF CellInv, Shape
  <1>6. OwnCellIsFresh'
    <2> SUFFICES ASSUME NEW j \in Readers, pc'[j] \in Early
                 PROVE  /\ cell'[j].holder = None /\ cell'[j].state = "pending"
                        /\ \A s \in Readers : joined[s] # j
                        /\ \A q \in Paths : inflight'[q] # j
      BY DEF OwnCellIsFresh
    <2>1. j # r /\ pc[j] \in Early
      BY <1>2 DEF Early
    <2>2. j # k
      BY <2>1 DEF CellInv, OwnCellIsFresh
    <2>3. None # j
      BY CacheAssumption
    <2> QED
      BY <1>3, <1>4, <2>1, <2>2, <2>3 DEF CellInv, OwnCellIsFresh
  <1> QED
    BY <1>1, <1>2, <1>3, <1>4, <1>5, <1>6

LEMMA CellExcept ==
  ASSUME NEW x, IsCell(x), NEW v
  PROVE  /\ [x EXCEPT !.holder = v] = [holder |-> v, state |-> x.state, data |-> x.data]
         /\ [x EXCEPT !.state = v] = [holder |-> x.holder, state |-> v, data |-> x.data]
  BY DEF IsCell

(* The first call to take a pending cell becomes its loader.               *)
LEMMA TakeCellStep ==
  ASSUME CellInv, NEW r \in Readers, TakeCell(r)
  PROVE  CellInv'
  <1> DEFINE k == joined[r]
  <1>1. Waiting(r) /\ cell[k].holder = None /\ UNCHANGED <<path, joined, inflight>>
    BY DEF TakeCell, Waiting, shardVars
  <1>2. k \in Readers /\ IsCell(cell[k])
    BY <1>1 DEF CellInv, Shape
  <1>3. \A s \in Readers : Loading(s) => joined[s] # k
    BY <1>1, CacheAssumption DEF CellInv, LoadersHold
  <1>4. CASE /\ cell[k].state = "pending"
             /\ cell' = [cell EXCEPT ![k].holder = r]
             /\ pc' = [pc EXCEPT ![r] = "load"]
    <2> DEFINE c == [holder |-> r, state |-> "pending", data |-> cell[k].data]
    <2>1. [cell[k] EXCEPT !.holder = r] = c
      <3>1. cell[k].state = "pending"
        BY <1>4
      <3> QED
        BY <1>2, <3>1, CellExcept
    <2>2. IsCell(c) /\ c.holder = r /\ c.state = "pending"
      BY DEF IsCell
    <2> HIDE DEF c
    <2>3. cell' = [cell EXCEPT ![k] = c]
      BY <1>4, <2>1
    <2>4. cell'[k] = c /\ pc'[r] = "load"
      BY <1>2, <1>4, <2>3 DEF CellInv, Shape
    <2>5. /\ \A s \in Readers \ {r} : pc'[s] = pc[s]
          /\ \A j \in Readers \ {k} : cell'[j] = cell[j]
          /\ Shape' /\ OwnCellIsFresh'
      BY <1>1, <1>4, <2>2, <2>3, <2>4, JoinedShape
    <2>6. LoadersHold'
      <3> SUFFICES ASSUME NEW s \in Readers, Loading(s)'
                   PROVE  /\ cell'[joined[s]].holder = s
                          /\ pc'[s] = "clear" => cell'[joined[s]].state # "pending"
        BY <1>1 DEF LoadersHold, Loading
      <3>1. CASE s = r
        BY <2>2, <2>4, <3>1
      <3>2. CASE s # r
        BY <1>3, <2>5, <3>2, ZenonT(40) DEF CellInv, LoadersHold, Loading, Shape
      <3> QED
        BY <3>1, <3>2
    <2>7. FlightsAreManned'
      <3> SUFFICES ASSUME NEW q \in Paths, inflight[q] # None
                   PROVE  /\ \A s \in Readers : joined[s] = inflight[q] => path[s] = q
                          /\ \/ \E s \in Readers : Loading(s)' /\ joined[s] = inflight[q]
                             \/ /\ cell'[inflight[q]].state = "pending"
                                /\ \E s \in Readers : Waiting(s)' /\ joined[s] = inflight[q]
        BY <1>1 DEF FlightsAreManned
      <3>1. CASE inflight[q] = k
        BY <2>4, <3>1 DEF CellInv, FlightsAreManned, Loading
      <3>2. CASE inflight[q] # k
        <4>1. inflight[q] \in Readers
          BY DEF CellInv, Shape
        <4> QED
          BY <2>5, <3>2, <4>1 DEF CellInv, FlightsAreManned, Loading, Waiting
      <3> QED
        BY <3>1, <3>2
    <2>8. "invalidate" \notin Disturbances => LoadersAreInFlight'
      <3> SUFFICES ASSUME "invalidate" \notin Disturbances, NEW s \in Readers,
                          Loading(s)' \/ (Waiting(s)' /\ cell'[joined[s]].state = "pending")
                   PROVE  inflight[path[s]] = joined[s]
        BY <1>1 DEF LoadersAreInFlight
      <3>1. CASE joined[s] = k
        <4>1. pc[s] \in {"load", "store", "clear", "wait"}
          BY <1>1, <2>4, <2>5 DEF Loading, Waiting
        <4> QED
          BY <1>4, <3>1, <4>1 DEF CellInv, LoadersAreInFlight, Loading, Waiting
      <3>2. CASE joined[s] # k
        <4>1. s # r /\ joined[s] \in Readers
          BY <2>5, <3>2 DEF Shape, CellInv, Loading, Waiting
        <4> QED
          BY <2>5, <3>2, <4>1 DEF CellInv, LoadersAreInFlight, Loading, Waiting
      <3> QED
        BY <3>1, <3>2
    <2> QED
      BY <2>5, <2>6, <2>7, <2>8 DEF CellInv
  <1>5. CASE /\ cell[k].state # "pending"
             /\ pc' = [pc EXCEPT ![r] = "done"]
             /\ UNCHANGED cell
    <2>1. /\ cell' = [cell EXCEPT ![k] = cell'[k]] /\ cell'[k] = cell[k]
          /\ pc'[r] = "done"
      BY <1>2, <1>5 DEF CellInv, Shape
    <2>2. /\ \A s \in Readers \ {r} : pc'[s] = pc[s]
          /\ Shape' /\ OwnCellIsFresh'
      BY <1>1, <1>2, <1>5, <2>1, JoinedShape
    <2>3. LoadersHold'
      BY <1>1, <1>5, <2>1, <2>2 DEF CellInv, LoadersHold, Loading
    <2>4. FlightsAreManned'
      <3> SUFFICES ASSUME NEW q \in Paths, inflight[q] # None
                   PROVE  /\ \A s \in Readers : joined[s] = inflight[q] => path[s] = q
                          /\ \/ \E s \in Readers : Loading(s)' /\ joined[s] = inflight[q]
                             \/ /\ cell[inflight[q]].state = "pending"
                                /\ \E s \in Readers : Waiting(s)' /\ joined[s] = inflight[q]
        BY <1>1, <1>5 DEF FlightsAreManned
      <3>1. ~Loading(r)
        BY <1>1 DEF Loading, Waiting
      <3> QED
        BY <1>5, <2>1, <2>2, <3>1 DEF CellInv, FlightsAreManned, Loading, Waiting
    <2>5. "invalidate" \notin Disturbances => LoadersAreInFlight'
      BY <1>1, <1>5, <2>1, <2>2 DEF CellInv, LoadersAreInFlight, Loading, Waiting
    <2> QED
      BY <2>2, <2>3, <2>4, <2>5 DEF CellInv
  <1> QED
    BY <1>4, <1>5 DEF TakeCell, Answer

(* Snapshot::load touches no cell.                                         *)
LEMMA LoadStep ==
  ASSUME CellInv, NEW r \in Readers, Load(r)
  PROVE  CellInv'
  <1>1. /\ pc[r] = "load" /\ pc' = [pc EXCEPT ![r] = "store"]
        /\ UNCHANGED <<inflight, cell, path, joined>>
    BY DEF Load, Goto, shardVars
  <1>2. Loading(r) /\ joined[r] \in Readers /\ pc'[r] = "store"
    BY <1>1 DEF CellInv, Shape, Loading
  <1>3. cell' = [cell EXCEPT ![joined[r]] = cell'[joined[r]]] /\ IsCell(cell'[joined[r]])
    BY <1>1, <1>2 DEF CellInv, Shape
  <1>4. \A s \in Readers \ {r} : pc'[s] = pc[s]
    BY <1>1 DEF CellInv, Shape
  <1>5. Shape' /\ OwnCellIsFresh'
    BY <1>1, <1>2, <1>3, JoinedShape
  <1>6. \A s \in Readers : (Loading(s)' <=> Loading(s)) /\ (Waiting(s)' <=> Waiting(s))
    BY <1>1, <1>2, <1>4 DEF Loading, Waiting
  <1>7. LoadersHold'
    BY <1>1, <1>2, <1>4, <1>6 DEF CellInv, LoadersHold
  <1>8. FlightsAreManned'
    BY <1>1, <1>6 DEF CellInv, FlightsAreManned
  <1>9. "invalidate" \notin Disturbances => LoadersAreInFlight'
    BY <1>1, <1>6 DEF CellInv, LoadersAreInFlight
  <1> QED
    BY <1>5, <1>7, <1>8, <1>9 DEF CellInv

(* The loader settles its cell, whatever it loaded.                        *)
LEMMA StoreStep ==
  ASSUME CellInv, NEW r \in Readers, Store(r)
  PROVE  CellInv'
  <1> DEFINE k == joined[r]
  <1>1. /\ pc[r] = "store" /\ pc' = [pc EXCEPT ![r] = "clear"]
        /\ inflight' = inflight /\ path' = path /\ joined' = joined
    BY DEF Store, Goto
  <1>2. Loading(r) /\ k \in Readers /\ pc'[r] = "clear" /\ IsCell(cell[k])
    BY <1>1 DEF CellInv, Shape, Loading
  <1> DEFINE d == result[r].data
  <1>3. PICK c \in {"ready", "failed"} :
          \/ cell' = [cell EXCEPT ![k].state = c, ![k].data = d]
          \/ cell' = [cell EXCEPT ![k].state = c]
    BY DEF Store
  <1>4. /\ cell' = [cell EXCEPT ![k] = cell'[k]] /\ IsCell(cell'[k])
        /\ cell'[k].holder = cell[k].holder /\ cell'[k].state = c
    <2>1. DOMAIN cell = Readers /\ k \in Readers /\ IsCell(cell[k])
      BY <1>2 DEF CellInv, Shape
    <2> HIDE DEF k, d
    <2> DEFINE one == [holder |-> cell[k].holder, state |-> c, data |-> cell[k].data]
               two == [holder |-> cell[k].holder, state |-> c, data |-> d]
    <2>2. [cell[k] EXCEPT !.state = c] = one
      BY <2>1, CellExcept
    <2>3. [one EXCEPT !.data = d] = two
      OBVIOUS
    <2>4. /\ IsCell(one) /\ one.holder = cell[k].holder /\ one.state = c
          /\ IsCell(two) /\ two.holder = cell[k].holder /\ two.state = c
      BY DEF IsCell
    <2> HIDE DEF one, two
    <2>5. [cell EXCEPT ![k].state = c] = [cell EXCEPT ![k] = one]
      BY <2>2
    <2>6. [cell EXCEPT ![k].state = c, ![k].data = d] = [cell EXCEPT ![k] = two]
      <3>1. [cell EXCEPT ![k] = one][k] = one
        BY <2>1
      <3>2. [[cell EXCEPT ![k] = one] EXCEPT ![k].data = d]
              = [[cell EXCEPT ![k] = one] EXCEPT ![k] = two]
        BY <2>3, <3>1
      <3>3. [cell EXCEPT ![k].state = c, ![k].data = d]
              = [[cell EXCEPT ![k] = one] EXCEPT ![k].data = d]
        BY <2>5
      <3> QED
        BY <2>1, <3>2, <3>3
    <2>7. cell' = [cell EXCEPT ![k] = one] \/ cell' = [cell EXCEPT ![k] = two]
      BY <1>3, <2>5, <2>6
    <2>8. cell'[k] = one \/ cell'[k] = two
      BY <2>1, <2>7
    <2> QED
      BY <2>4, <2>7, <2>8
  <1>5. /\ \A s \in Readers \ {r} : pc'[s] = pc[s]
        /\ \A j \in Readers \ {k} : cell'[j] = cell[j]
        /\ Shape' /\ OwnCellIsFresh'
    BY <1>1, <1>2, <1>4, JoinedShape
  <1>6. \A s \in Readers : (Loading(s)' <=> Loading(s)) /\ (Waiting(s)' <=> Waiting(s))
    BY <1>1, <1>2, <1>5 DEF Loading, Waiting
  <1>7. \A j \in Readers : cell'[j].holder = cell[j].holder
    BY <1>4, <1>5
  <1>8. \A j \in Readers : cell[j].state # "pending" => cell'[j].state # "pending"
    BY <1>4, <1>5
  <1>9. LoadersHold'
    <2>1. \A s \in Readers : Loading(s) => joined[s] \in Readers
      BY DEF CellInv, Shape
    <2>2. \A s \in Readers : pc'[s] = "clear" =>
            Loading(s) /\ cell'[joined[s]].state # "pending"
      BY <1>2, <1>4, <1>5, <1>8, <2>1 DEF CellInv, LoadersHold, Loading
    <2> QED
      BY <1>1, <1>6, <1>7, <2>1, <2>2 DEF CellInv, LoadersHold
  <1>10. FlightsAreManned'
    <2> SUFFICES ASSUME NEW q \in Paths, inflight[q] # None
                 PROVE  /\ \A s \in Readers : joined[s] = inflight[q] => path[s] = q
                        /\ \/ \E s \in Readers : Loading(s)' /\ joined[s] = inflight[q]
                           \/ /\ cell'[inflight[q]].state = "pending"
                              /\ \E s \in Readers : Waiting(s)' /\ joined[s] = inflight[q]
      BY <1>1 DEF FlightsAreManned
    <2>1. inflight[q] \in Readers
      BY DEF CellInv, Shape
    <2>2. CASE inflight[q] = k
      BY <1>2, <1>6, <2>2 DEF CellInv, FlightsAreManned
    <2>3. CASE inflight[q] # k
      BY <1>5, <1>6, <2>1, <2>3 DEF CellInv, FlightsAreManned
    <2> QED
      BY <2>2, <2>3
  <1>11. "invalidate" \notin Disturbances => LoadersAreInFlight'
    <2>1. \A s \in Readers : Waiting(s) => joined[s] \in Readers
      BY DEF CellInv, Shape
    <2> QED
      BY <1>1, <1>6, <1>8, <2>1 DEF CellInv, LoadersAreInFlight
  <1> QED
    BY <1>5, <1>9, <1>10, <1>11 DEF CellInv

(* The loader removes the cell of its path and unlocks its own.            *)
LEMMA ClearStep ==
  ASSUME CellInv, NEW r \in Readers, Clear(r)
  PROVE  CellInv'
  <1> DEFINE k == joined[r]
             p == path[r]
  <1>1. /\ pc[r] = "clear" /\ pc' = [pc EXCEPT ![r] = "done"]
        /\ inflight' = [inflight EXCEPT ![p] = None]
        /\ path' = path /\ joined' = joined
    BY DEF Clear, Answer
  <1>2. Loading(r) /\ k \in Readers /\ pc'[r] = "done" /\ p \in Paths
    BY <1>1 DEF CellInv, Shape, Loading
  <1>3. /\ cell' = [cell EXCEPT ![k] = cell'[k]] /\ IsCell(cell'[k])
        /\ cell'[k].state = cell[k].state
    <2> DEFINE c == [holder |-> None, state |-> cell[k].state, data |-> cell[k].data]
    <2>1. IsCell(cell[k])
      BY <1>2 DEF CellInv, Shape
    <2>2. [cell[k] EXCEPT !.holder = None] = c
      BY <2>1, CellExcept
    <2>3. IsCell(c) /\ c.state = cell[k].state
      BY DEF IsCell
    <2> HIDE DEF c
    <2>4. cell' = [cell EXCEPT ![k] = c]
      BY <2>2 DEF Clear
    <2>5. cell'[k] = c
      BY <1>2, <2>4 DEF CellInv, Shape
    <2> QED
      BY <2>3, <2>4, <2>5
  <1>4. /\ \A s \in Readers \ {r} : pc'[s] = pc[s]
        /\ \A j \in Readers \ {k} : cell'[j] = cell[j]
        /\ Shape' /\ OwnCellIsFresh'
    BY <1>1, <1>2, <1>3, JoinedShape
  <1>5. \A q \in Paths : inflight'[q] = IF q = p THEN None ELSE inflight[q]
    BY <1>1, <1>2 DEF CellInv, Shape
  <1>6. \A s \in Readers \ {r} : Loading(s) => joined[s] # k /\ joined[s] \in Readers
    BY <1>2 DEF CellInv, LoadersHold, Shape
  <1>7. LoadersHold'
    <2> SUFFICES ASSUME NEW s \in Readers, Loading(s)'
                 PROVE  /\ cell'[joined[s]].holder = s
                        /\ pc'[s] = "clear" => cell'[joined[s]].state # "pending"
      BY <1>1 DEF LoadersHold, Loading
    <2>1. s # r
      BY <1>2 DEF Loading
    <2> QED
      BY <1>4, <1>6, <2>1 DEF CellInv, LoadersHold, Loading
  <1>8. FlightsAreManned'
    <2> SUFFICES ASSUME NEW q \in Paths, inflight'[q] # None
                 PROVE  /\ \A s \in Readers : joined[s] = inflight'[q] => path[s] = q
                        /\ \/ \E s \in Readers : Loading(s)' /\ joined[s] = inflight'[q]
                           \/ /\ cell'[inflight'[q]].state = "pending"
                              /\ \E s \in Readers : Waiting(s)' /\ joined[s] = inflight'[q]
      BY <1>1 DEF FlightsAreManned
    <2>1. q # p /\ inflight'[q] = inflight[q] /\ inflight[q] \in Readers
      BY <1>5 DEF CellInv, Shape
    <2>2. \A s \in Readers : joined[s] = inflight[q] => path[s] = q /\ s # r
      BY <2>1 DEF CellInv, FlightsAreManned
    <2>3. inflight[q] # k
      BY <2>2
    <2> QED
      BY <1>4, <2>1, <2>2, <2>3 DEF CellInv, FlightsAreManned, Loading, Waiting
  <1>9. "invalidate" \notin Disturbances => LoadersAreInFlight'
    <2> SUFFICES ASSUME "invalidate" \notin Disturbances, NEW s \in Readers,
                        Loading(s)' \/ (Waiting(s)' /\ cell'[joined[s]].state = "pending")
                 PROVE  inflight'[path[s]] = joined[s]
      BY <1>1 DEF LoadersAreInFlight
    <2>1. s # r /\ joined[s] \in Readers /\ path[s] \in Paths
      BY <1>2, <1>4 DEF Shape, CellInv, Loading, Waiting
    <2>2. inflight[path[s]] = joined[s]
      BY <1>3, <1>4, <2>1 DEF CellInv, LoadersAreInFlight, Loading, Waiting
    <2>3. joined[s] # k
      <3>1. CASE Waiting(s)'
        <4>1. cell[k].state # "pending"
          BY <1>1 DEF CellInv, LoadersHold
        <4>2. CASE Loading(s)
          BY <1>6, <2>1, <4>2
        <4>3. CASE ~Loading(s)
          BY <1>3, <1>4, <2>1, <3>1, <4>1 DEF Loading, Waiting
        <4> QED
          BY <4>2, <4>3
      <3>2. CASE Loading(s)'
        BY <1>4, <1>6, <2>1, <3>2 DEF Loading
      <3> QED
        BY <3>1, <3>2
    <2>4. inflight[p] = k
      BY <1>2 DEF CellInv, LoadersAreInFlight
    <2> QED
      BY <1>5, <2>1, <2>2, <2>3, <2>4
  <1> QED
    BY <1>4, <1>7, <1>8, <1>9 DEF CellInv

(* invalidate takes the cell off the path, and nothing from its calls.     *)
LEMMA InvalidateStep ==
  ASSUME CellInv, NEW p \in Paths, Invalidate(p)
  PROVE  CellInv'
  <1>1. /\ "invalidate" \in Disturbances
        /\ inflight' = [inflight EXCEPT ![p] = None]
        /\ UNCHANGED <<cell, pc, path, joined>>
    BY DEF Invalidate, Budget, readerVars
  <1>2. \A q \in Paths : inflight'[q] \in {inflight[q], None}
    BY <1>1 DEF CellInv, Shape
  <1>3. Shape'
    BY <1>1 DEF CellInv, Shape, Loading, Waiting
  <1>4. OwnCellIsFresh'
    BY <1>1, <1>2, CacheAssumption DEF CellInv, OwnCellIsFresh
  <1>5. LoadersHold'
    BY <1>1 DEF CellInv, LoadersHold, Loading
  <1>6. FlightsAreManned'
    BY <1>1, <1>2 DEF CellInv, FlightsAreManned, Loading, Waiting
  <1> QED
    BY <1>1, <1>3, <1>4, <1>5, <1>6 DEF CellInv

(* The steps before the claim, one by one.                                 *)
LEMMA EarlySteps ==
  ASSUME CellInv, NEW r \in Readers,
         \/ \E p \in Paths : Call(r, p)
         \/ Get(r) \/ Peek(r) \/ OpenResident(r) \/ CompareBytes(r)
         \/ ConfirmResident(r) \/ GiveUp(r) \/ Refresh(r) \/ Restat(r)
  PROVE  CellInv'
  <1>1. CASE \E p \in Paths : Call(r, p)
    <2>1. PICK p \in Paths : Call(r, p)
      BY <1>1
    <2>2. PICK to \in {"peek", "get"} : pc[r] = "idle" /\ pc' = [pc EXCEPT ![r] = to]
      BY <2>1 DEF Call, Goto
    <2>3. /\ path' = [path EXCEPT ![r] = p]
          /\ UNCHANGED <<inflight, cell, joined>>
      BY <2>1 DEF Call, shardVars
    <2>4. pc[r] \in Early /\ to \in (Early \ {"idle"}) \cup {"done"}
      BY <2>2 DEF Early
    <2> QED
      BY <2>2, <2>3, <2>4, EarlyStep
  <1>2. CASE \/ Get(r) \/ Peek(r) \/ OpenResident(r) \/ CompareBytes(r)
             \/ ConfirmResident(r) \/ GiveUp(r) \/ Refresh(r) \/ Restat(r)
    <2>1. UNCHANGED <<inflight, cell, joined, path>>
      BY <1>2 DEF Get, Peek, OpenResident, CompareBytes, ConfirmResident, GiveUp, Refresh,
                  Restat, shardVars
    <2>2. PICK to \in (Early \ {"idle"}) \cup {"done"} : pc' = [pc EXCEPT ![r] = to]
      <3>1. CASE Get(r)
        BY <3>1 DEF Get, Goto, Answer, Early
      <3>2. CASE Peek(r)
        BY <3>2 DEF Peek, Goto, Early
      <3>3. CASE Refresh(r)
        BY <3>3 DEF Refresh, Answer, Early
      <3>4. CASE OpenResident(r) \/ CompareBytes(r) \/ ConfirmResident(r) \/ GiveUp(r)
                   \/ Restat(r)
        BY <3>4 DEF OpenResident, CompareBytes, ConfirmResident, GiveUp, Restat, Goto, Early
      <3> QED
        BY <1>2, <3>1, <3>2, <3>3, <3>4
    <2>3. pc[r] \in Early /\ pc[r] # "idle"
      BY <1>2 DEF Get, Peek, OpenResident, CompareBytes, ConfirmResident, GiveUp, Refresh,
                  Restat, Goto, Early
    <2> QED
      BY <2>1, <2>2, <2>3, EarlyStep
  <1> QED
    BY <1>1, <1>2

LEMMA CellStep == CellInv /\ [Next]_vars => CellInv'
  <1> SUFFICES ASSUME CellInv, [Next]_vars
               PROVE  CellInv'
    OBVIOUS
  <1>1. ASSUME NEW r \in Readers, Progress(r)
        PROVE  CellInv'
    <2>1. CASE Claim(r)
      BY <2>1, ClaimStep
    <2>2. CASE TakeCell(r)
      BY <2>2, TakeCellStep
    <2>3. CASE Load(r)
      BY <2>3, LoadStep
    <2>4. CASE Store(r)
      BY <2>4, StoreStep
    <2>5. CASE Clear(r)
      BY <2>5, ClearStep
    <2> QED
      BY <1>1, <2>1, <2>2, <2>3, <2>4, <2>5, EarlySteps DEF Progress
  <1>2. ASSUME NEW r \in Readers, NEW p \in Paths, Call(r, p)
        PROVE  CellInv'
    BY <1>2, EarlySteps
  <1>3. ASSUME NEW w \in Publishers, Land(w) \/ PublishInsert(w)
        PROVE  CellInv'
    <2>1. UNCHANGED cellVars
      BY <1>3 DEF Land, PublishInsert, shardVars, readerVars, cellVars
    <2> QED
      BY <2>1, CellStutter
  <1>4. ASSUME NEW p \in Paths, NEW c \in Contents,
               WriteInPlace(p, c) \/ \E i \in Inodes : Replace(p, i, c)
        PROVE  CellInv'
    <2>1. UNCHANGED cellVars
      BY <1>4 DEF WriteInPlace, Replace, shardVars, readerVars, cellVars
    <2> QED
      BY <2>1, CellStutter
  <1>5. ASSUME NEW p \in Paths, Remove(p)
        PROVE  CellInv'
    <2>1. UNCHANGED cellVars
      BY <1>5 DEF Remove, shardVars, readerVars, cellVars
    <2> QED
      BY <2>1, CellStutter
  <1>6. ASSUME NEW p \in Paths, Invalidate(p)
        PROVE  CellInv'
    BY <1>6, InvalidateStep
  <1>7. CASE Tick \/ UNCHANGED vars
    <2>1. UNCHANGED cellVars
      BY <1>7 DEF Tick, vars, shardVars, readerVars, cellVars
    <2> QED
      BY <2>1, CellStutter
  <1> QED
    BY <1>1, <1>2, <1>3, <1>4, <1>5, <1>6, <1>7 DEF Next

LEMMA CellInvHolds == Spec => []CellInv
  BY CellInit, CellStep, PTL DEF Spec

-----------------------------------------------------------------------------

(* An in-flight cell never outlives the calls that can settle and clear it *)
(* (cache.rs get_or_load removes it after a failed load too), for any      *)
(* number of calls, paths and invalidations.                               *)
THEOREM CellsDoNotOutliveCalls == Spec => []CellsAreTransient
  <1>1. CellInv => CellsAreTransient
    <2> SUFFICES ASSUME CellInv, NEW p \in Paths, inflight[p] # None
                 PROVE  \/ \E r \in Readers : path[r] = p /\ pc[r] \in {"load", "store", "clear"}
                        \/ /\ cell[inflight[p]].state = "pending"
                           /\ \E r \in Readers : joined[r] = inflight[p] /\ pc[r] = "wait"
      BY DEF CellsAreTransient
    <2> QED
      BY DEF CellInv, FlightsAreManned, Loading, Waiting
  <1> QED
    BY <1>1, CellInvHolds, PTL

(* Single flight: while nobody calls `invalidate`, which production code   *)
(* does not, two calls never load one path at the same time.               *)
THEOREM OneLoader ==
  ASSUME "invalidate" \notin Disturbances
  PROVE  Spec => []OneLoaderPerPath
  <1>1. CellInv => OneLoaderPerPath
    <2> SUFFICES ASSUME CellInv, NEW r \in Readers, NEW s \in Readers,
                        Loading(r), Loading(s), path[r] = path[s]
                 PROVE  r = s
      BY DEF OneLoaderPerPath, Loading
    <2>1. joined[r] = joined[s]
      BY DEF CellInv, LoadersAreInFlight
    <2> QED
      BY <2>1 DEF CellInv, LoadersHold
  <1> QED
    BY <1>1, CellInvHolds, PTL

Result == [code : {"ok"}, data : Contents, stamp : Stamp] \cup [code : {"not_found", "io"}]
Reply == [code : {"ok", "not_found", "io"}, data : Contents \cup {None}]
Landing == [path : Paths, at : Time, entry : Entry \cup {None}]
Cell == [holder : Readers \cup {None}, state : {"pending", "ready", "failed"},
         data : Contents \cup {None}]

(* Types of everything but the counter of bytes, and what each step finds. *)
Kept ==
  /\ now \in Time
  /\ dir \in [Paths -> Inodes \cup {None}]
  /\ file \in [Inodes -> FileState]
  /\ map \in [Paths -> Entry \cup {None}]
  /\ cell \in [Readers -> Cell]
  /\ stamp \in [Readers -> Stamp \cup {None}]
  /\ resident \in [Readers -> Entry \cup {None}]
  /\ fd \in [Readers -> Inodes \cup {None}]
  /\ result \in [Readers -> Result \cup {None}]
  /\ since \in [Readers -> Time]
  /\ reply \in [Readers -> Reply \cup {None}]
  /\ how \in [Readers -> {"none", "hit", "verified", "loaded", "joined"}]
  /\ seen \in [Readers -> SUBSET (Contents \cup {None})]
  /\ past \in [Readers -> SUBSET Readers]
  /\ landed \in [Publishers -> Landing \cup {None}]
  /\ disturbed \in 0 .. MaxDisturb

Verifying == {"open", "compare", "confirm", "refresh"}

Held ==
  \A r \in Readers :
    /\ pc[r] \in Verifying => resident[r] \in Entry
    /\ pc[r] \in {"compare", "confirm", "refresh"} => fd[r] \in Inodes
    /\ pc[r] = "refresh" => stamp[r] \in Stamp
    /\ pc[r] \in {"store", "clear"} => result[r] \in Result

(* A call's own variables. *)
Same(s) ==
  /\ pc'[s] = pc[s] /\ path'[s] = path[s] /\ joined'[s] = joined[s]
  /\ stamp'[s] = stamp[s] /\ resident'[s] = resident[s] /\ fd'[s] = fd[s]
  /\ result'[s] = result[s] /\ since'[s] = since[s]
  /\ reply'[s] = reply[s] /\ how'[s] = how[s] /\ seen'[s] = seen[s] /\ past'[s] = past[s]

-----------------------------------------------------------------------------

LEMMA CacheNumbers ==
  /\ 0 \in Time /\ \A t \in Time : t \in Nat
  /\ Capacity \in Nat /\ MaxStall \in Nat /\ MaxLag \in Nat /\ MaxDisturb \in Nat
  /\ RacyWindow \in Nat /\ MaxTime \in Nat
BY CacheAssumption, StampAssumption DEF Time

LEMMA StampTyped ==
  ASSUME NEW i \in Inodes, NEW st \in FileState, NEW t \in Time
  PROVE  /\ StampOf(i, st, t) \in Stamp
         /\ StampOf(i, st, t).ino = i
         /\ StampOf(i, st, t).ctime = st.ctime
         /\ ~StampOf(i, st, t).racy => st.ctime + RacyWindow < t
         /\ st.ctime \in Time /\ st.data \in Contents
BY StampAssumption DEF StampOf, Stamp, FileState, Time, WithinRacyWindow

(* The entry at p is the only one an insertion may add.                    *)
LEMMA InsertEffect ==
  ASSUME map \in [Paths -> Entry \cup {None}], NEW p \in Paths, NEW e \in Entry, Insert(p, e)
  PROVE  /\ map' \in [Paths -> Entry \cup {None}]
         /\ \A q \in Paths : map'[q] \in {map[q], None} \/ (q = p /\ map'[q] = e)
  <1>1. CASE UNCHANGED map
    BY <1>1
  <1>2. ASSUME NEW E,
               map' = [q \in Paths |-> CASE q = p -> e
                                         [] q # p /\ q \in E -> None
                                         [] OTHER -> map[q]]
        PROVE  /\ map' \in [Paths -> Entry \cup {None}]
               /\ \A q \in Paths : map'[q] \in {map[q], None} \/ (q = p /\ map'[q] = e)
    <2>1. \A q \in Paths : map'[q] \in {map[q], None} \/ (q = p /\ map'[q] = e)
      BY <1>2
    <2>2. map' = [q \in Paths |-> map'[q]]
      BY <1>2
    <2> QED
      BY <2>1, <2>2
  <1> QED
    BY <1>1, <1>2 DEF Insert, InsertCounting

(* A step of one call leaves the others alone.                             *)
LEMMA OthersKeep ==
  ASSUME Kept, CellInv, NEW r \in Readers, Progress(r), NEW s \in Readers \ {r}
  PROVE  Same(s)
  <1> USE DEF Kept, CellInv, Shape, Same, Goto, localVars
  <1>1. ASSUME NEW code, NEW data, NEW by, Answer(r, code, data, by)
        PROVE  /\ pc'[s] = pc[s] /\ reply'[s] = reply[s] /\ how'[s] = how[s]
               /\ stamp'[s] = stamp[s] /\ resident'[s] = resident[s] /\ fd'[s] = fd[s]
               /\ result'[s] = result[s] /\ since'[s] = since[s]
    BY <1>1 DEF Answer
  <1>2. CASE Get(r) \/ Refresh(r)
    BY <1>1, <1>2 DEF Get, Refresh
  <1>3. CASE Peek(r) \/ OpenResident(r) \/ CompareBytes(r)
    BY <1>3 DEF Peek, OpenResident, CompareBytes
  <1>4. CASE ConfirmResident(r) \/ GiveUp(r) \/ Restat(r)
    BY <1>4 DEF ConfirmResident, GiveUp, Restat
  <1>5. CASE Claim(r) \/ TakeCell(r)
    BY <1>1, <1>5 DEF Claim, TakeCell
  <1>6. CASE Load(r) \/ Store(r)
    BY <1>6 DEF Load, Store
  <1>7. CASE Clear(r)
    BY <1>1, <1>7 DEF Clear
  <1> QED
    BY <1>2, <1>3, <1>4, <1>5, <1>6, <1>7 DEF Progress

(* The bytes and stamp of what is linked at p.                             *)
LEMMA PathTyped ==
  ASSUME Kept, NEW p \in Paths, dir[p] # None
  PROVE  /\ dir[p] \in Inodes /\ file[dir[p]] \in FileState
         /\ ValueAt(p) = file[dir[p]].data /\ ValueAt(p) \in Contents
         /\ StampAt(p) \in Stamp /\ StampAt(p).ino = dir[p]
         /\ StampAt(p).ctime = file[dir[p]].ctime
         /\ ~StampAt(p).racy => file[dir[p]].ctime + RacyWindow < now
  <1>1. dir[p] \in Inodes /\ file[dir[p]] \in FileState /\ now \in Time
    BY DEF Kept
  <1> QED
    BY <1>1, StampTyped DEF ValueAt, StampAt

(* The answer of a call.                                                   *)
LEMMA AnswerKeeps ==
  ASSUME Kept, NEW r \in Readers, NEW code \in {"ok", "not_found", "io"},
         NEW data \in Contents \cup {None}, NEW by \in {"hit", "verified", "loaded", "joined"},
         Answer(r, code, data, by)
  PROVE  /\ stamp' \in [Readers -> Stamp \cup {None}]
         /\ resident' \in [Readers -> Entry \cup {None}]
         /\ fd' \in [Readers -> Inodes \cup {None}]
         /\ result' \in [Readers -> Result \cup {None}]
         /\ since' \in [Readers -> Time]
         /\ reply' \in [Readers -> Reply \cup {None}]
         /\ how' \in [Readers -> {"none", "hit", "verified", "loaded", "joined"}]
         /\ reply'[r].code = code /\ reply'[r].data = data /\ how'[r] = by
  <1> DEFINE a == [code |-> code, data |-> data]
  <1>1. a \in Reply /\ a.code = code /\ a.data = data
    BY DEF Reply
  <1>2. reply' = [reply EXCEPT ![r] = a]
    BY DEF Answer
  <1> HIDE DEF a
  <1> QED
    BY <1>1, <1>2 DEF Answer, Kept

(* Settling a cell writes its state and its bytes.                         *)
LEMMA CellTwice ==
  ASSUME NEW k \in DOMAIN cell, NEW u, NEW v
  PROVE  [cell EXCEPT ![k].state = u, ![k].data = v]
           = [[cell EXCEPT ![k] = [cell[k] EXCEPT !.state = u]]
                EXCEPT ![k] = [[cell[k] EXCEPT !.state = u] EXCEPT !.data = v]]
  <1> DEFINE b == [cell[k] EXCEPT !.state = u]
             m == [cell EXCEPT ![k] = b]
  <1>1. m[k] = b
    OBVIOUS
  <1>2. [m EXCEPT ![k].data = v] = [m EXCEPT ![k] = [b EXCEPT !.data = v]]
    BY <1>1
  <1> QED
    BY <1>2

LEMMA KeptReader ==
  ASSUME Kept, Held, CellInv, NEW r \in Readers, Progress(r)
  PROVE  Kept'
  <1>0. /\ pc[r] # "idle" => path[r] \in Paths
        /\ pc[r] \in {"wait", "load", "store", "clear"} => joined[r] \in Readers
    BY DEF CellInv, Shape, Waiting, Loading
  <1> USE CacheNumbers DEF Kept, fsVars, shardVars, localVars, Goto
  <1>1. CASE Get(r)
    <2>1. CASE Answer(r, "ok", map[path[r]].data, "hit") /\ Proven(map[path[r]], stamp[r])
               /\ pc[r] = "get"
      <3>1. map[path[r]].data \in Contents
        BY <1>0, <2>1 DEF Proven, Entry
      <3> QED
        BY <1>1, <2>1, <3>1, AnswerKeeps DEF Get
    <2>2. CASE UNCHANGED <<localVars, reply, how>>
      BY <1>1, <2>2 DEF Get
    <2> QED
      BY <1>1, <2>1, <2>2 DEF Get
  <1>2. CASE Peek(r)
    BY <1>0, <1>2 DEF Peek
  <1>3. CASE OpenResident(r) \/ CompareBytes(r) \/ GiveUp(r)
    BY <1>0, <1>3 DEF OpenResident, CompareBytes, GiveUp
  <1>4. CASE ConfirmResident(r)
    <2>1. fd[r] \in Inodes /\ pc[r] = "confirm"
      BY <1>4 DEF ConfirmResident, Held
    <2>2. StampOf(fd[r], file[fd[r]], now) \in Stamp
      BY <2>1, StampTyped
    <2> QED
      BY <1>4, <2>2 DEF ConfirmResident
  <1>5. CASE Refresh(r)
    <2>1. /\ pc[r] = "refresh" /\ path[r] \in Paths /\ resident[r] \in Entry /\ stamp[r] \in Stamp
          /\ resident[r].data \in Contents
      BY <1>0, <1>5 DEF Refresh, Held, Verifying, Entry
    <2>2. map' \in [Paths -> Entry \cup {None}]
      <3>1. CASE map' = map
        BY <3>1
      <3>2. CASE map[path[r]] # None /\ map' = [map EXCEPT ![path[r]].stamp = stamp[r]]
        <4> DEFINE e == [map[path[r]] EXCEPT !.stamp = stamp[r]]
        <4>1. e \in Entry
          BY <2>1, <3>2 DEF Entry
        <4>2. map' = [map EXCEPT ![path[r]] = e]
          BY <3>2
        <4> HIDE DEF e
        <4> QED
          BY <4>1, <4>2
      <3> QED
        BY <1>5, <3>1, <3>2 DEF Refresh
    <2> QED
      BY <1>5, <2>1, <2>2, AnswerKeeps DEF Refresh
  <1>6. CASE Restat(r)
    BY <1>0, <1>6, PathTyped DEF Restat, Stat
  <1>7. CASE Claim(r)
    <2>1. CASE Answer(r, "ok", map[path[r]].data, "hit") /\ Proven(map[path[r]], stamp[r])
               /\ pc[r] = "claim" /\ UNCHANGED <<shardVars, joined>>
      <3>1. map[path[r]].data \in Contents
        BY <1>0, <2>1 DEF Proven, Entry
      <3> QED
        BY <1>7, <2>1, <3>1, AnswerKeeps DEF Claim
    <2>2. CASE Drop(path[r]) /\ UNCHANGED <<localVars, reply, how>>
      BY <1>7, <2>2 DEF Claim, Drop
    <2> QED
      BY <1>7, <2>1, <2>2 DEF Claim
  <1>8. CASE TakeCell(r)
    <2> DEFINE k == joined[r]
    <2>1. k \in Readers /\ cell[k] \in Cell /\ cell[k].data \in Contents \cup {None}
      BY <1>0, <1>8 DEF TakeCell, Cell
    <2>2. CASE cell' = [cell EXCEPT ![k].holder = r] /\ UNCHANGED <<localVars, reply, how>>
      <3> DEFINE c == [cell[k] EXCEPT !.holder = r]
      <3>1. c \in Cell
        BY <2>1 DEF Cell
      <3>2. cell' = [cell EXCEPT ![k] = c]
        BY <2>2
      <3> HIDE DEF c
      <3> QED
        BY <1>8, <2>1, <2>2, <3>1, <3>2 DEF TakeCell
    <2>3. CASE UNCHANGED cell /\ (\/ Answer(r, "ok", cell[k].data, "joined")
                                  \/ Answer(r, "io", None, "joined"))
      BY <1>8, <2>1, <2>3, AnswerKeeps DEF TakeCell
    <2> QED
      BY <1>8, <2>2, <2>3 DEF TakeCell
  <1>9. CASE Load(r)
    <2>1. PICK x \in Result : result' = [result EXCEPT ![r] = x]
      <3>1. CASE dir[path[r]] # None /\ result' = [result EXCEPT ![r] =
                   [code |-> "ok", data |-> ValueAt(path[r]), stamp |-> StampAt(path[r])]]
        <4>1. path[r] \in Paths
          BY <1>0, <1>9 DEF Load
        <4>2. [code |-> "ok", data |-> ValueAt(path[r]), stamp |-> StampAt(path[r])] \in Result
          BY <3>1, <4>1, PathTyped DEF Result
        <4> QED
          BY <3>1, <4>2
      <3>2. ASSUME NEW code \in {"not_found", "io"},
                   result' = [result EXCEPT ![r] = [code |-> code]]
            PROVE  \E x \in Result : result' = [result EXCEPT ![r] = x]
        <4>1. [code |-> code] \in Result
          BY DEF Result
        <4> QED
          BY <3>2, <4>1
      <3> QED
        BY <1>9, <3>1, <3>2 DEF Load
    <2> QED
      BY <1>9, <2>1 DEF Load
  <1>10. CASE Store(r)
    <2> DEFINE k == joined[r]
               x == result[r]
    <2>1. k \in Readers /\ path[r] \in Paths /\ cell[k] \in Cell /\ x \in Result
      BY <1>0, <1>10 DEF Store, Held
    <2>2. CASE /\ x.code = "ok"
               /\ Insert(path[r], [data |-> x.data, stamp |-> x.stamp])
               /\ cell' = [cell EXCEPT ![k].state = "ready", ![k].data = x.data]
      <3>1. x.data \in Contents /\ x.stamp \in Stamp
        BY <2>1, <2>2 DEF Result
      <3>2. [data |-> x.data, stamp |-> x.stamp] \in Entry
        BY <3>1 DEF Entry
      <3>3. map' \in [Paths -> Entry \cup {None}]
        BY <2>1, <2>2, <3>2, InsertEffect
      <3> DEFINE b == [cell[k] EXCEPT !.state = "ready"]
                 c == [b EXCEPT !.data = x.data]
      <3>4. b \in Cell /\ c \in Cell
        BY <2>1, <3>1 DEF Cell
      <3>5. cell' = [[cell EXCEPT ![k] = b] EXCEPT ![k] = c]
        BY <2>1, <2>2, CellTwice
      <3> HIDE DEF b, c
      <3> QED
        BY <1>10, <2>1, <3>3, <3>4, <3>5 DEF Store
    <2>3. CASE /\ cell' = [cell EXCEPT ![k].state = "failed"]
               /\ UNCHANGED <<map, used>>
      <3> DEFINE c == [cell[k] EXCEPT !.state = "failed"]
      <3>1. c \in Cell
        BY <2>1 DEF Cell
      <3>2. cell' = [cell EXCEPT ![k] = c]
        BY <2>3
      <3> HIDE DEF c
      <3> QED
        BY <1>10, <2>1, <2>3, <3>1, <3>2 DEF Store
    <2> QED
      BY <1>10, <2>2, <2>3 DEF Store
  <1>11. CASE Clear(r)
    <2> DEFINE k == joined[r]
               x == result[r]
    <2>1. k \in Readers /\ cell[k] \in Cell /\ x \in Result
      BY <1>0, <1>11 DEF Clear, Held
    <2>2. /\ x.code \in {"ok", "not_found", "io"}
          /\ (IF x.code = "ok" THEN x.data ELSE None) \in Contents \cup {None}
      BY <2>1 DEF Result
    <2> DEFINE c == [cell[k] EXCEPT !.holder = None]
    <2>3. c \in Cell
      BY <2>1 DEF Cell
    <2>4. cell' = [cell EXCEPT ![k] = c]
      BY <1>11 DEF Clear
    <2> HIDE DEF c
    <2> QED
      BY <1>11, <2>1, <2>2, <2>3, <2>4, AnswerKeeps DEF Clear
  <1> QED
    BY <1>1, <1>2, <1>3, <1>4, <1>5, <1>6, <1>7, <1>8, <1>9, <1>10, <1>11 DEF Progress

(* What a change of the file at p, by anybody, does and leaves alone.      *)
Changes(p) ==
  /\ UNCHANGED <<now, map, used, inflight, cell, pc, path, stamp, resident, fd, joined, result,
                 since, reply, how, past>>
  /\ dir' \in [Paths -> Inodes \cup {None}]
  /\ file' \in [Inodes -> FileState]
  /\ seen' \in [Readers -> SUBSET (Contents \cup {None})]
  /\ \A q \in Paths \ {p} : dir'[q] = dir[q]
  /\ \/ dir'[p] = dir[p]
     \/ dir'[p] = None
     \/ Free(dir'[p]) /\ file'[dir'[p]].ctime = now
  /\ \A i \in Inodes : file'[i] = file[i] \/ file'[i].ctime = now
  /\ \A i \in Inodes : file'[i].data = file[i].data \/ dir'[p] = i
  /\ \A r \in Readers :
       /\ seen[r] \subseteq seen'[r]
       /\ pc[r] \notin Running => seen'[r] = seen[r]
       /\ pc[r] \in Running /\ path[r] = p => ValueAt(p)' \in seen'[r]

LEMMA WitnessEffect ==
  ASSUME Kept, NEW p \in Paths, NEW v \in Contents \cup {None}, Witness(p, v)
  PROVE  /\ seen' \in [Readers -> SUBSET (Contents \cup {None})]
         /\ \A r \in Readers :
              /\ seen[r] \subseteq seen'[r]
              /\ pc[r] \notin Running => seen'[r] = seen[r]
              /\ pc[r] \in Running /\ path[r] = p => v \in seen'[r]
  <1>1. seen' = [r \in Readers |->
                   IF pc[r] \in Running /\ path[r] = p THEN seen[r] \cup {v} ELSE seen[r]]
    BY DEF Witness
  <1>2. \A r \in Readers :
          seen'[r] = IF pc[r] \in Running /\ path[r] = p THEN seen[r] \cup {v} ELSE seen[r]
    BY <1>1
  <1>3. seen' = [r \in Readers |-> seen'[r]]
    BY <1>1
  <1>4. \A r \in Readers : seen[r] \in SUBSET (Contents \cup {None})
    BY DEF Kept
  <1>5. \A r \in Readers : seen'[r] \in SUBSET (Contents \cup {None})
    BY <1>2, <1>4
  <1> QED
    BY <1>2, <1>3, <1>5

LEMMA RenameEffect ==
  ASSUME Kept, NEW p \in Paths, NEW i \in Inodes, NEW c \in Contents, RenameOver(p, i, c),
         UNCHANGED <<shardVars, readerVars, now>>
  PROVE  Changes(p)
  <1> DEFINE st == [data |-> c, mtime |-> now, ctime |-> now]
             Old(k) == [file[k] EXCEPT !.ctime = now]
  <1>1. now \in Time /\ \A k \in Inodes : file[k] \in FileState
    BY DEF Kept
  <1>2. st \in FileState /\ st.ctime = now /\ st.data = c
    BY <1>1 DEF FileState
  <1>3. \A k \in Inodes : Old(k) \in FileState /\ Old(k).ctime = now /\ Old(k).data = file[k].data
    BY <1>1 DEF FileState
  <1>4. /\ file'[i] = st
        /\ \A k \in Inodes \ {i} : file'[k] = Old(k) \/ file'[k] = file[k]
        /\ file' = [k \in Inodes |-> file'[k]]
    BY DEF RenameOver
  <1> HIDE DEF st, Old
  <1>5. /\ file' \in [Inodes -> FileState]
        /\ \A k \in Inodes : file'[k] = file[k] \/ file'[k].ctime = now
        /\ \A k \in Inodes \ {i} : file'[k].data = file[k].data
    <2>1. \A k \in Inodes : file'[k] \in FileState
      BY <1>1, <1>2, <1>3, <1>4
    <2> QED
      BY <1>2, <1>3, <1>4, <2>1
  <1>6. /\ dir' = [dir EXCEPT ![p] = i] /\ Free(i) /\ Witness(p, c)
    BY DEF RenameOver
  <1>7. /\ dir' \in [Paths -> Inodes \cup {None}] /\ dir'[p] = i
        /\ \A q \in Paths \ {p} : dir'[q] = dir[q]
    BY <1>6 DEF Kept
  <1>8. ValueAt(p)' = c
    BY <1>2, <1>4, <1>7, StampAssumption DEF ValueAt
  <1>9. /\ seen' \in [Readers -> SUBSET (Contents \cup {None})]
        /\ \A r \in Readers :
              /\ seen[r] \subseteq seen'[r]
              /\ pc[r] \notin Running => seen'[r] = seen[r]
              /\ pc[r] \in Running /\ path[r] = p => c \in seen'[r]
    BY <1>6, WitnessEffect
  <1> QED
    BY <1>2, <1>4, <1>5, <1>6, <1>7, <1>8, <1>9 DEF Changes, shardVars, readerVars, localVars

LEMMA ChangeEffect ==
  ASSUME Kept, NEW p \in Paths, NEW c \in Contents,
         \/ \E i \in Inodes : RenameOver(p, i, c) /\ UNCHANGED <<shardVars, readerVars, now>>
         \/ WriteInPlace(p, c)
         \/ Remove(p)
  PROVE  Changes(p)
  <1>1. CASE \E i \in Inodes : RenameOver(p, i, c) /\ UNCHANGED <<shardVars, readerVars, now>>
    BY <1>1, RenameEffect
  <1>2. now \in Time /\ \A k \in Inodes : file[k] \in FileState
    BY DEF Kept
  <1>3. CASE WriteInPlace(p, c)
    <2> DEFINE st == [data |-> c, mtime |-> now, ctime |-> now]
    <2>1. st \in FileState /\ st.ctime = now /\ st.data = c
      BY <1>2 DEF FileState
    <2>2. /\ dir[p] \in Inodes /\ dir' = dir /\ Witness(p, c)
          /\ file' = [file EXCEPT ![dir[p]] = st]
          /\ UNCHANGED <<shardVars, readerVars, now>>
      BY <1>3 DEF WriteInPlace, Kept
    <2> HIDE DEF st
    <2>3. file' \in [Inodes -> FileState] /\ file'[dir[p]] = st
      BY <2>1, <2>2 DEF Kept
    <2>4. ValueAt(p)' = c
      BY <2>1, <2>2, <2>3, StampAssumption DEF ValueAt
    <2>5. /\ seen' \in [Readers -> SUBSET (Contents \cup {None})]
          /\ \A r \in Readers :
                /\ seen[r] \subseteq seen'[r]
                /\ pc[r] \notin Running => seen'[r] = seen[r]
                /\ pc[r] \in Running /\ path[r] = p => c \in seen'[r]
      BY <2>2, WitnessEffect
    <2> QED
      BY <2>1, <2>2, <2>3, <2>4, <2>5 DEF Changes, shardVars, readerVars, localVars, Kept
  <1>4. CASE Remove(p)
    <2> DEFINE st == [file[dir[p]] EXCEPT !.ctime = now]
    <2>1. /\ dir[p] \in Inodes /\ dir' = [dir EXCEPT ![p] = None] /\ Witness(p, Absent)
          /\ file' = [file EXCEPT ![dir[p]].ctime = now]
          /\ UNCHANGED <<shardVars, readerVars, now>>
      BY <1>4 DEF Remove, Kept
    <2>2. st \in FileState /\ st.ctime = now /\ st.data = file[dir[p]].data
      BY <1>2, <2>1 DEF FileState
    <2>3. file' = [file EXCEPT ![dir[p]] = st]
      BY <2>1
    <2> HIDE DEF st
    <2>4. /\ file' \in [Inodes -> FileState] /\ file'[dir[p]] = st
          /\ dir' \in [Paths -> Inodes \cup {None}] /\ dir'[p] = None
      BY <2>1, <2>2, <2>3 DEF Kept
    <2>5. ValueAt(p)' = Absent
      BY <2>4 DEF ValueAt
    <2>6. /\ seen' \in [Readers -> SUBSET (Contents \cup {None})]
          /\ \A r \in Readers :
                /\ seen[r] \subseteq seen'[r]
                /\ pc[r] \notin Running => seen'[r] = seen[r]
                /\ pc[r] \in Running /\ path[r] = p => Absent \in seen'[r]
      BY <2>1, WitnessEffect DEF Absent
    <2> QED
      BY <2>1, <2>2, <2>3, <2>4, <2>5, <2>6 DEF Changes, shardVars, readerVars, localVars, Kept
  <1> QED
    BY <1>1, <1>3, <1>4

(* What has landed, and is to be inserted.                                 *)
LEMMA LandEffect ==
  ASSUME Kept, NEW u \in Publishers, Land(u)
  PROVE  /\ \E p \in Paths : Changes(p)
         /\ disturbed' = disturbed
         /\ landed' \in [Publishers -> Landing \cup {None}]
         /\ \A x \in Publishers \ {u} : landed'[x] = landed[x]
         /\ landed'[u].at = now
         /\ landed'[u].entry.stamp.racy /\ landed'[u].entry.stamp.ctime = now
  <1>1. PICK p \in Paths, c \in Contents, i \in Inodes :
          /\ RenameOver(p, i, c)
          /\ landed' = [landed EXCEPT ![u] =
               [path |-> p, at |-> now,
                entry |-> [data |-> c,
                           stamp |-> StampOf(i, [data |-> c, mtime |-> now, ctime |-> now], now)]]]
          /\ UNCHANGED <<shardVars, readerVars, now, disturbed>>
    BY DEF Land
  <1>2. Changes(p)
    BY <1>1, RenameEffect
  <1> DEFINE st == [data |-> c, mtime |-> now, ctime |-> now]
             s == StampOf(i, st, now)
             e == [data |-> c, stamp |-> s]
             l == [path |-> p, at |-> now, entry |-> e]
  <1>3. st \in FileState /\ st.ctime = now /\ now \in Time
    BY DEF FileState, Kept
  <1>4. s \in Stamp /\ s.ctime = now /\ s.racy
    <2>1. s \in Stamp /\ s.ctime = now
      BY <1>3, StampTyped
    <2>2. s.racy
      BY <1>3, CacheNumbers DEF StampOf, WithinRacyWindow
    <2> QED
      BY <2>1, <2>2
  <1> HIDE DEF s
  <1>5. e \in Entry /\ e.stamp = s
    BY <1>4 DEF Entry
  <1> HIDE DEF e
  <1>6. l \in Landing /\ l.at = now /\ l.entry = e
    BY <1>3, <1>5 DEF Landing
  <1>7. landed' = [landed EXCEPT ![u] = l]
    BY <1>1 DEF e, s
  <1> HIDE DEF l
  <1> QED
    BY <1>1, <1>2, <1>4, <1>5, <1>6, <1>7 DEF Kept

LEMMA PublishEffect ==
  ASSUME Kept, NEW u \in Publishers, PublishInsert(u)
  PROVE  /\ landed[u] \in Landing /\ landed[u].path \in Paths /\ landed[u].entry \in Entry
         /\ map' \in [Paths -> Entry \cup {None}]
         /\ \A q \in Paths : \/ map'[q] \in {map[q], None}
                             \/ q = landed[u].path /\ map'[q] = landed[u].entry
         /\ landed' \in [Publishers -> Landing \cup {None}]
         /\ \A x \in Publishers : landed'[x] = landed[x] \/ ~Owed(x)'
         /\ UNCHANGED <<fsVars, inflight, readerVars, seen>>
  <1>1. landed[u] \in Landing /\ landed[u].path \in Paths /\ landed[u].entry \in Entry
    BY DEF PublishInsert, Owed, Kept, Landing
  <1>2. /\ Insert(landed[u].path, landed[u].entry)
        /\ landed' = [landed EXCEPT ![u].entry = None]
        /\ UNCHANGED <<fsVars, inflight, readerVars, seen>>
    BY DEF PublishInsert
  <1> DEFINE l == [landed[u] EXCEPT !.entry = None]
  <1>3. l \in Landing /\ l.entry = None
    BY <1>1 DEF Landing
  <1>4. landed' = [landed EXCEPT ![u] = l]
    BY <1>2
  <1> HIDE DEF l
  <1>5. /\ landed' \in [Publishers -> Landing \cup {None}]
        /\ \A x \in Publishers : landed'[x] = landed[x] \/ ~Owed(x)'
    BY <1>3, <1>4 DEF Kept, Owed
  <1> QED
    BY <1>1, <1>2, <1>5, InsertEffect DEF Kept

LEMMA KeptStep == Kept /\ Held /\ CellInv /\ [Next]_vars => Kept'
  <1> SUFFICES ASSUME Kept, Held, CellInv, [Next]_vars
               PROVE  Kept'
    OBVIOUS
  <1>1. ASSUME NEW r \in Readers, Progress(r)
        PROVE  Kept'
    BY <1>1, KeptReader
  <1>2. ASSUME NEW r \in Readers, NEW p \in Paths, Call(r, p)
        PROVE  Kept'
    <2>1. Stat(p) \in Stamp \cup {None} /\ ValueAt(p) \in Contents \cup {None}
      BY PathTyped DEF Stat, ValueAt, Absent
    <2> QED
      BY <1>2, <2>1 DEF Call, Kept, fsVars, shardVars
  <1>3. ASSUME NEW p \in Paths, Changes(p),
               landed' \in [Publishers -> Landing \cup {None}],
               disturbed' \in 0 .. MaxDisturb
        PROVE  Kept'
    BY <1>3 DEF Changes, Kept
  <1>4. ASSUME NEW u \in Publishers, Land(u)
        PROVE  Kept'
    BY <1>3, <1>4, LandEffect DEF Kept
  <1>5. ASSUME NEW u \in Publishers, PublishInsert(u)
        PROVE  Kept'
    BY <1>5, PublishEffect DEF Kept, fsVars, readerVars, localVars
  <1>6. ASSUME NEW kind, Budget(kind)
        PROVE  disturbed' \in 0 .. MaxDisturb
    BY <1>6, CacheNumbers DEF Budget, Kept
  <1>7. ASSUME NEW p \in Paths, NEW c \in Contents,
               WriteInPlace(p, c) \/ \E i \in Inodes : Replace(p, i, c)
        PROVE  Kept'
    <2>1. Changes(p)
      BY <1>7, ChangeEffect DEF Replace
    <2> QED
      BY <1>3, <1>6, <1>7, <2>1 DEF Kept, WriteInPlace, Replace
  <1>8. ASSUME NEW p \in Paths, Remove(p)
        PROVE  Kept'
    <2>1. dir[p] \in Inodes
      BY <1>8 DEF Remove, Kept
    <2>2. \E c \in Contents : TRUE
      BY <2>1 DEF Kept, FileState
    <2>3. Changes(p)
      BY <1>8, <2>2, ChangeEffect
    <2> QED
      BY <1>3, <1>6, <1>8, <2>3 DEF Kept, Remove
  <1>9. ASSUME NEW p \in Paths, Invalidate(p)
        PROVE  Kept'
    BY <1>6, <1>9 DEF Invalidate, Drop, Kept, readerVars, localVars
  <1>10. CASE Tick
    <2>1. now' \in Time
      BY <1>10, CacheNumbers DEF Tick, Kept, Time
    <2> QED
      BY <1>10, <2>1 DEF Tick, Kept, readerVars, localVars, shardVars
  <1>11. CASE UNCHANGED vars
    BY <1>11 DEF vars, Kept
  <1> QED
    BY <1>1, <1>2, <1>4, <1>5, <1>7, <1>8, <1>9, <1>10, <1>11 DEF Next

(* Where a step leaves the call that takes it.                             *)
LEMMA HeldStep == Kept /\ Held /\ CellInv /\ [Next]_vars => Held'
  <1> SUFFICES ASSUME Kept, Held, CellInv, [Next]_vars
               PROVE  Held'
    OBVIOUS
  <1>1. ASSUME UNCHANGED <<pc, resident, fd, stamp, result>>
        PROVE  Held'
    BY <1>1 DEF Held
  <1> DEFINE Held1(s) == /\ pc'[s] \in Verifying => resident'[s] \in Entry
                         /\ pc'[s] \in {"compare", "confirm", "refresh"} => fd'[s] \in Inodes
                         /\ pc'[s] = "refresh" => stamp'[s] \in Stamp
                         /\ pc'[s] \in {"store", "clear"} => result'[s] \in Result
  <1>2. ASSUME NEW r \in Readers, Progress(r)
        PROVE  Held'
    <2>1. ASSUME NEW s \in Readers \ {r}
          PROVE  Held1(s)
      BY <1>2, OthersKeep DEF Held, Same
    <2>2. Held1(r)
      <3> USE DEF Goto
      <3>0. pc[r] \in Running /\ path[r] \in Paths
        BY <1>2 DEF Progress, Get, Peek, OpenResident, CompareBytes, ConfirmResident, GiveUp,
                    Refresh, Restat, Claim, TakeCell, Load, Store, Clear, Running,
                    CellInv, Shape
      <3>1. ASSUME pc'[r] \notin {"open", "compare", "confirm", "refresh", "store", "clear"}
            PROVE  Held1(r)
        BY <3>1 DEF Verifying
      <3> USE DEF Kept
      <3>2. ASSUME NEW code, NEW data, NEW by, Answer(r, code, data, by)
            PROVE  pc'[r] = "done"
        BY <3>2 DEF Answer, CellInv, Shape
      <3>3. CASE Get(r) \/ GiveUp(r) \/ Refresh(r) \/ Restat(r) \/ Claim(r) \/ TakeCell(r) \/ Clear(r)
        <4>1. pc'[r] \in {"done", "peek", "restat", "claim", "wait", "load"}
          BY <3>2, <3>3 DEF Get, GiveUp, Refresh, Restat, Claim, TakeCell, Clear,
                            CellInv, Shape
        <4> QED
          BY <3>1, <4>1
      <3>4. CASE Peek(r)
        BY <3>0, <3>4 DEF Peek, Verifying, CellInv, Shape
      <3>5. CASE OpenResident(r) \/ CompareBytes(r)
        BY <3>0, <3>5 DEF OpenResident, CompareBytes, Verifying, Held, CellInv, Shape
      <3>6. CASE ConfirmResident(r)
        <4>1. StampOf(fd[r], file[fd[r]], now) \in Stamp
          BY <3>6, StampTyped DEF ConfirmResident, Held
        <4> QED
          BY <3>6, <4>1 DEF ConfirmResident, Verifying, Held, CellInv, Shape
      <3>7. CASE Load(r)
        <4> DEFINE x == [code |-> "ok", data |-> ValueAt(path[r]), stamp |-> StampAt(path[r])]
        <4>1. dir[path[r]] # None => x \in Result
          BY <3>0, PathTyped DEF Result
        <4>2. [code |-> "not_found"] \in Result /\ [code |-> "io"] \in Result
          BY DEF Result
        <4> QED
          BY <3>7, <4>1, <4>2 DEF Load, Verifying, CellInv, Shape
      <3>8. CASE Store(r)
        BY <3>8 DEF Store, Verifying, Held, CellInv, Shape, localVars
      <3> QED
        BY <1>2, <3>3, <3>4, <3>5, <3>6, <3>7, <3>8 DEF Progress
    <2> QED
      BY <2>1, <2>2 DEF Held
  <1>3. ASSUME NEW r \in Readers, NEW p \in Paths, Call(r, p)
        PROVE  Held'
    <2>1. pc' = [pc EXCEPT ![r] = pc'[r]] /\ pc'[r] \in {"peek", "get"}
      BY <1>3 DEF Call, Goto, CellInv, Shape
    <2>2. UNCHANGED <<resident, fd, result>> /\ \A s \in Readers \ {r} : stamp'[s] = stamp[s]
      BY <1>3 DEF Call, Kept
    <2> QED
      BY <2>1, <2>2 DEF Held, Verifying, CellInv, Shape
  <1>4. ASSUME NEW u \in Publishers, Land(u) \/ PublishInsert(u)
        PROVE  Held'
    BY <1>1, <1>4 DEF Land, PublishInsert, readerVars, localVars
  <1>5. ASSUME NEW p \in Paths, NEW c \in Contents,
               WriteInPlace(p, c) \/ \E i \in Inodes : Replace(p, i, c)
        PROVE  Held'
    BY <1>1, <1>5 DEF WriteInPlace, Replace, readerVars, localVars
  <1>6. ASSUME NEW p \in Paths, Remove(p) \/ Invalidate(p)
        PROVE  Held'
    BY <1>1, <1>6 DEF Remove, Invalidate, readerVars, localVars
  <1>7. CASE Tick \/ UNCHANGED vars
    BY <1>1, <1>7 DEF Tick, vars, readerVars, localVars
  <1> QED
    BY <1>2, <1>3, <1>4, <1>5, <1>6, <1>7 DEF Next

Base == Kept /\ Held /\ CellInv

(* What was persisted is racy until it is inserted.                        *)
Landings ==
  \A u \in Publishers : Owed(u) =>
    landed[u].entry.stamp.racy /\ landed[u].entry.stamp.ctime = landed[u].at

(* What the clock bounds.                                                  *)
OnTime ==
  /\ \A i \in Inodes : file[i].ctime <= now
  /\ \A r \in Readers :
       /\ pc[r] \in Verifying => since[r] <= now /\ now <= since[r] + MaxStall
       /\ pc[r] = "store" => since[r] <= now /\ now <= since[r] + MaxLag
  /\ \A u \in Publishers : Owed(u) => landed[u].at <= now /\ now <= landed[u].at + MaxLag

LinkedOnce == \A p, q \in Paths : dir[p] = dir[q] /\ dir[p] # None => p = q

-----------------------------------------------------------------------------

(* The places a call may be in.                                            *)
LEMMA ProgressPlaces ==
  ASSUME Base, NEW r \in Readers, Progress(r)
  PROVE  pc[r] \in Running /\ path[r] \in Paths /\ pc' = [pc EXCEPT ![r] = pc'[r]]
  <1> USE DEF Base, CellInv, Shape, Goto, Answer, Running
  <1>1. CASE Get(r) \/ Peek(r) \/ OpenResident(r) \/ CompareBytes(r) \/ ConfirmResident(r)
    BY <1>1 DEF Get, Peek, OpenResident, CompareBytes, ConfirmResident
  <1>2. CASE GiveUp(r) \/ Refresh(r) \/ Restat(r) \/ Claim(r) \/ TakeCell(r)
    BY <1>2 DEF GiveUp, Refresh, Restat, Claim, TakeCell
  <1>3. CASE Load(r) \/ Store(r) \/ Clear(r)
    BY <1>3 DEF Load, Store, Clear
  <1> QED
    BY <1>1, <1>2, <1>3 DEF Progress

LEMMA ProgressKeeps ==
  ASSUME NEW r \in Readers, Progress(r)
  PROVE  UNCHANGED <<fsVars, path, seen, past, landed>>
  <1> USE DEF shardVars
  <1>1. CASE Get(r) \/ Peek(r) \/ OpenResident(r) \/ CompareBytes(r) \/ ConfirmResident(r)
    BY <1>1 DEF Get, Peek, OpenResident, CompareBytes, ConfirmResident
  <1>2. CASE GiveUp(r) \/ Refresh(r) \/ Restat(r) \/ Claim(r) \/ TakeCell(r)
    BY <1>2 DEF GiveUp, Refresh, Restat, Claim, TakeCell
  <1>3. CASE Load(r) \/ Store(r) \/ Clear(r)
    BY <1>3 DEF Load, Store, Clear
  <1> QED
    BY <1>1, <1>2, <1>3 DEF Progress

(* A change of some file, with what may have landed by it.                 *)
SomeChange ==
  /\ \E p \in Paths : Changes(p)
  /\ \A u \in Publishers :
       \/ landed'[u] = landed[u]
       \/ /\ landed'[u].at = now
          /\ landed'[u].entry.stamp.racy /\ landed'[u].entry.stamp.ctime = now

LEMMA StepKinds ==
  ASSUME Base, [Next]_vars
  PROVE  \/ \E r \in Readers : Progress(r)
         \/ \E r \in Readers, p \in Paths : Call(r, p)
         \/ SomeChange
         \/ \E u \in Publishers : PublishInsert(u)
         \/ \E p \in Paths : Invalidate(p)
         \/ Tick
         \/ UNCHANGED vars
  <1>1. ASSUME NEW u \in Publishers, Land(u)
        PROVE  SomeChange
    BY <1>1, LandEffect DEF Base, SomeChange
  <1>2. ASSUME NEW p \in Paths, NEW c \in Contents,
               WriteInPlace(p, c) \/ \E i \in Inodes : Replace(p, i, c)
        PROVE  SomeChange
    <2>1. Changes(p) /\ UNCHANGED landed
      BY <1>2, ChangeEffect DEF WriteInPlace, Replace, Base
    <2> QED
      BY <2>1 DEF SomeChange
  <1>3. ASSUME NEW p \in Paths, Remove(p)
        PROVE  SomeChange
    <2>1. \E c \in Contents : TRUE
      BY <1>3 DEF Remove, Base, Kept, FileState
    <2>2. Changes(p) /\ UNCHANGED landed
      BY <1>3, <2>1, ChangeEffect DEF Remove, Base
    <2> QED
      BY <2>2 DEF SomeChange
  <1> QED
    BY <1>1, <1>2, <1>3 DEF Next

LEMMA OnTimeStep == Base /\ OnTime /\ [Next]_vars => OnTime'
  <1> SUFFICES ASSUME Base, OnTime, [Next]_vars
               PROVE  OnTime'
    OBVIOUS
  <1>0. /\ now \in Nat /\ \A i \in Inodes : file[i].ctime \in Nat
        /\ \A r \in Readers : since[r] \in Nat
    BY CacheNumbers DEF Base, Kept, FileState
  <1> USE CacheNumbers
  <1>1. ASSUME NEW r \in Readers, Progress(r)
        PROVE  OnTime'
    <2>1. UNCHANGED <<now, dir, file, landed>>
      BY <1>1, ProgressKeeps DEF fsVars
    <2>2. ASSUME NEW s \in Readers \ {r}
          PROVE  /\ pc'[s] \in Verifying => since'[s] <= now /\ now <= since'[s] + MaxStall
                 /\ pc'[s] = "store" => since'[s] <= now /\ now <= since'[s] + MaxLag
      BY <1>1, OthersKeep DEF Same, OnTime, Base
    <2>3. /\ pc'[r] \in Verifying => since'[r] <= now /\ now <= since'[r] + MaxStall
          /\ pc'[r] = "store" => since'[r] <= now /\ now <= since'[r] + MaxLag
      <3> USE DEF Base, CellInv, Shape, Goto, Kept
      <3>1. ASSUME NEW code, NEW data, NEW by, Answer(r, code, data, by)
            PROVE  pc'[r] = "done"
        BY <3>1 DEF Answer
      <3>2. CASE Get(r) \/ GiveUp(r) \/ Refresh(r) \/ Restat(r) \/ Claim(r) \/ TakeCell(r) \/ Clear(r)
        <4>1. pc'[r] \in {"done", "peek", "restat", "claim", "wait", "load"}
          BY <3>1, <3>2 DEF Get, GiveUp, Refresh, Restat, Claim, TakeCell, Clear
        <4> QED
          BY <4>1 DEF Verifying
      <3>3. CASE Peek(r) \/ Load(r)
        BY <1>0, <3>3 DEF Peek, Load, Verifying
      <3>4. CASE OpenResident(r) \/ CompareBytes(r) \/ ConfirmResident(r)
        BY <3>4 DEF OpenResident, CompareBytes, ConfirmResident, Verifying, OnTime
      <3>5. CASE Store(r)
        BY <3>5 DEF Store, Verifying
      <3> QED
        BY <1>1, <3>2, <3>3, <3>4, <3>5 DEF Progress
    <2> QED
      BY <2>1, <2>2, <2>3 DEF OnTime, Owed
  <1>2. ASSUME NEW r \in Readers, NEW p \in Paths, Call(r, p)
        PROVE  OnTime'
    <2>1. /\ pc' = [pc EXCEPT ![r] = pc'[r]] /\ pc'[r] \in {"peek", "get"}
          /\ UNCHANGED <<now, file, since, landed>>
      BY <1>2 DEF Call, Goto, Base, CellInv, Shape, fsVars
    <2> QED
      BY <2>1 DEF OnTime, Owed, Verifying, Base, CellInv, Shape
  <1>3. CASE SomeChange
    BY <1>0, <1>3 DEF SomeChange, Changes, OnTime, Owed
  <1>4. ASSUME NEW u \in Publishers, PublishInsert(u)
        PROVE  OnTime'
    BY <1>4, PublishEffect DEF Base, OnTime, Owed, fsVars, readerVars, localVars
  <1>5. ASSUME NEW p \in Paths, Invalidate(p)
        PROVE  OnTime'
    BY <1>5 DEF Invalidate, readerVars, localVars, OnTime, Owed
  <1>6. CASE Tick
    <2>1. /\ now' = now + 1 /\ UNCHANGED <<file, pc, since, landed>>
          /\ \A r \in Readers :
               /\ pc[r] \in Verifying => now < since[r] + MaxStall
               /\ pc[r] = "store" => now < since[r] + MaxLag
          /\ \A u \in Publishers : Owed(u) => now < landed[u].at + MaxLag
      BY <1>6 DEF Tick, readerVars, localVars, Verifying
    <2>2. \A u \in Publishers : Owed(u) => landed[u].at \in Nat
      BY DEF Owed, Base, Kept, Landing
    <2> QED
      BY <1>0, <2>1, <2>2 DEF OnTime, Owed
  <1>7. CASE UNCHANGED vars
    BY <1>7 DEF vars, OnTime, Owed
  <1> QED
    BY <1>1, <1>2, <1>3, <1>4, <1>5, <1>6, <1>7, StepKinds

LEMMA LinkedStep == Base /\ Landings /\ LinkedOnce /\ [Next]_vars => Landings' /\ LinkedOnce'
  <1> SUFFICES ASSUME Base, Landings, LinkedOnce, [Next]_vars
               PROVE  Landings' /\ LinkedOnce'
    OBVIOUS
  <1>1. ASSUME UNCHANGED <<dir, landed>>
        PROVE  Landings' /\ LinkedOnce'
    BY <1>1 DEF Landings, LinkedOnce, Owed
  <1>2. CASE SomeChange
    BY <1>2 DEF SomeChange, Changes, Free, LinkedOnce, Landings, Owed
  <1>3. ASSUME NEW r \in Readers, Progress(r) \/ \E p \in Paths : Call(r, p)
        PROVE  Landings' /\ LinkedOnce'
    BY <1>1, <1>3, ProgressKeeps DEF Call, fsVars
  <1>4. ASSUME NEW u \in Publishers, PublishInsert(u)
        PROVE  Landings' /\ LinkedOnce'
    BY <1>4, PublishEffect DEF Base, Landings, LinkedOnce, Owed, fsVars
  <1>5. ASSUME NEW p \in Paths, Invalidate(p)
        PROVE  Landings' /\ LinkedOnce'
    BY <1>1, <1>5 DEF Invalidate
  <1>6. CASE Tick \/ UNCHANGED vars
    BY <1>1, <1>6 DEF Tick, vars
  <1> QED
    BY <1>2, <1>3, <1>4, <1>5, <1>6, StepKinds

(* What a call may answer, it has seen: in particular the bytes of the     *)
(* file it has open, which no other path may be linked to meanwhile.       *)
Sees1(r) ==
  /\ pc[r] \in Running => ValueAt(path[r]) \in seen[r]
  /\ pc[r] \in {"compare", "confirm"} => \A q \in Paths : dir[q] = fd[r] => q = path[r]
  /\ pc[r] = "compare" => file[fd[r]].data \in seen[r]
  /\ pc[r] \in {"confirm", "refresh"} => resident[r].data \in seen[r]
  /\ pc[r] \in {"store", "clear"} /\ result[r].code = "ok" => result[r].data \in seen[r]

Sees == \A r \in Readers : Sees1(r)

LEMMA SeesStep == Base /\ LinkedOnce /\ Sees /\ [Next]_vars => Sees'
  <1> SUFFICES ASSUME Base, LinkedOnce, Sees, [Next]_vars
               PROVE  Sees'
    OBVIOUS
  <1>1. ASSUME NEW r \in Readers, Progress(r)
        PROVE  Sees'
    <2>1. /\ UNCHANGED <<dir, file, path, seen>>
          /\ pc[r] \in Running /\ path[r] \in Paths /\ pc' = [pc EXCEPT ![r] = pc'[r]]
      BY <1>1, ProgressKeeps, ProgressPlaces DEF fsVars
    <2>2. ASSUME NEW s \in Readers \ {r}
          PROVE  Sees1(s)'
      BY <1>1, <2>1, OthersKeep DEF Same, Sees, Sees1, Base, ValueAt
    <2>3. Sees1(r)'
      <3>0. ValueAt(path[r])' \in seen'[r]
        BY <2>1 DEF Sees, Sees1, ValueAt
      <3> USE DEF Base, CellInv, Shape, Goto, Kept
      <3>1. ASSUME NEW code, NEW data, NEW by, Answer(r, code, data, by)
            PROVE  pc'[r] = "done"
        BY <3>1 DEF Answer
      <3>2. CASE Get(r) \/ Peek(r) \/ GiveUp(r) \/ Refresh(r) \/ Restat(r) \/ Claim(r)
                   \/ TakeCell(r) \/ Clear(r)
        <4>1. pc'[r] \in {"done", "peek", "open", "restat", "claim", "wait", "load"}
          BY <3>1, <3>2 DEF Get, Peek, GiveUp, Refresh, Restat, Claim, TakeCell, Clear
        <4> QED
          BY <3>0, <4>1 DEF Sees1
      <3>3. CASE OpenResident(r)
        <4>1. /\ pc'[r] = "compare" /\ dir[path[r]] \in Inodes
              /\ fd'[r] = dir[path[r]]
          BY <2>1, <3>3 DEF OpenResident
        <4>2. file[fd'[r]].data \in seen[r]
          BY <2>1, <4>1, StampAssumption DEF Sees, Sees1, ValueAt
        <4> QED
          BY <2>1, <3>0, <4>1, <4>2, StampAssumption DEF Sees1, LinkedOnce
      <3>4. CASE CompareBytes(r)
        BY <2>1, <3>0, <3>4 DEF CompareBytes, Sees, Sees1
      <3>5. CASE ConfirmResident(r)
        BY <2>1, <3>0, <3>5 DEF ConfirmResident, Sees, Sees1
      <3>6. CASE Load(r)
        <4>1. pc'[r] = "store" /\ (result'[r].code = "ok" => result'[r].data = ValueAt(path[r]))
          BY <3>6 DEF Load
        <4> QED
          BY <2>1, <3>0, <4>1 DEF Sees, Sees1
      <3>7. CASE Store(r)
        BY <2>1, <3>0, <3>7 DEF Store, localVars, Sees, Sees1
      <3> QED
        BY <1>1, <3>2, <3>3, <3>4, <3>5, <3>6, <3>7 DEF Progress
    <2> QED
      BY <2>2, <2>3 DEF Sees
  <1>2. ASSUME NEW r \in Readers, NEW p \in Paths, Call(r, p)
        PROVE  Sees'
    <2>1. /\ pc' = [pc EXCEPT ![r] = pc'[r]] /\ pc'[r] \in {"peek", "get"}
          /\ path' = [path EXCEPT ![r] = p] /\ seen' = [seen EXCEPT ![r] = {ValueAt(p)}]
          /\ UNCHANGED <<dir, file, fd, resident, result>>
      BY <1>2 DEF Call, Goto, Base, CellInv, Shape, fsVars
    <2>2. ASSUME NEW s \in Readers \ {r}
          PROVE  Sees1(s)'
      BY <2>1 DEF Sees, Sees1, ValueAt, Base, CellInv, Shape, Kept
    <2>3. Sees1(r)'
      BY <2>1 DEF Sees1, ValueAt, Base, CellInv, Shape, Kept
    <2> QED
      BY <2>2, <2>3 DEF Sees
  <1>3. ASSUME NEW p \in Paths, Changes(p)
        PROVE  Sees'
    <2> SUFFICES ASSUME NEW r \in Readers
                 PROVE  Sees1(r)'
      BY DEF Sees
    <2>1. Sees1(r) /\ pc'[r] = pc[r] /\ path'[r] = path[r] /\ fd'[r] = fd[r]
          /\ resident'[r] = resident[r] /\ result'[r] = result[r] /\ seen[r] \subseteq seen'[r]
      BY <1>3 DEF Changes, Sees
    <2>2. pc[r] \in Running => path[r] \in Paths
      BY DEF Base, CellInv, Shape, Running
    <2>3. pc[r] \in Running => ValueAt(path[r])' \in seen'[r]
      <3>1. CASE path[r] = p
        BY <1>3, <3>1 DEF Changes
      <3>2. CASE path[r] # p
        <4> SUFFICES ASSUME pc[r] \in Running
                     PROVE  ValueAt(path[r])' \in seen'[r]
          OBVIOUS
        <4>1. dir'[path[r]] = dir[path[r]]
          BY <1>3, <2>2, <3>2 DEF Changes
        <4>2. CASE dir[path[r]] = None
          BY <2>1, <4>1, <4>2 DEF ValueAt, Sees1
        <4>3. CASE dir[path[r]] # None
          <5>1. dir[path[r]] \in Inodes
            BY <2>2, <4>3 DEF Base, Kept
          <5>2. dir'[p] # dir[path[r]]
            BY <1>3, <2>2, <3>2, <4>3 DEF Changes, LinkedOnce, Free
          <5>3. file'[dir[path[r]]].data = file[dir[path[r]]].data
            BY <1>3, <5>1, <5>2 DEF Changes
          <5> QED
            BY <2>1, <4>1, <4>3, <5>3 DEF ValueAt, Sees1
        <4> QED
          BY <4>2, <4>3
      <3> QED
        BY <3>1, <3>2
    <2>4. pc[r] \in {"compare", "confirm"} =>
            /\ fd[r] \in Inodes
            /\ \A q \in Paths : dir'[q] = fd[r] => q = path[r]
      BY <1>3, <2>1, StampAssumption DEF Changes, Sees1, Free, Base, Held
    <2>5. pc[r] = "compare" => file'[fd[r]].data \in seen'[r]
      <3> SUFFICES ASSUME pc[r] = "compare", file'[fd[r]].data # file[fd[r]].data
                   PROVE  file'[fd[r]].data \in seen'[r]
        BY <2>1 DEF Sees1
      <3>1. dir'[p] = fd[r] /\ fd[r] \in Inodes
        BY <1>3, <2>4 DEF Changes
      <3>2. path[r] = p
        BY <2>4, <3>1
      <3> QED
        BY <2>3, <3>1, <3>2, StampAssumption, <2>1 DEF Running, ValueAt
    <2> QED
      BY <2>1, <2>3, <2>4, <2>5 DEF Sees1
  <1>4. ASSUME UNCHANGED <<dir, file, pc, path, fd, resident, result, seen>>
        PROVE  Sees'
    BY <1>4 DEF Sees, Sees1, ValueAt
  <1>5. ASSUME NEW u \in Publishers, PublishInsert(u)
        PROVE  Sees'
    BY <1>4, <1>5 DEF PublishInsert, fsVars, readerVars, localVars
  <1>6. ASSUME NEW p \in Paths, Invalidate(p)
        PROVE  Sees'
    BY <1>4, <1>6 DEF Invalidate, readerVars, localVars
  <1>7. CASE Tick \/ UNCHANGED vars
    BY <1>4, <1>7 DEF Tick, vars, readerVars, localVars
  <1> QED
    BY <1>1, <1>2, <1>3, <1>5, <1>6, <1>7, StepKinds DEF SomeChange

(* t[p][i][c] is what path p held when tick c ended, if that was inode i,  *)
(* last changed in tick c; it is None before that, and elsewhere.          *)
Truths == [Paths -> [Inodes -> [Time -> Contents \cup {None}]]]

Holds(t, p, s, d) == t[p][s.ino][s.ctime] = d

OnDisk(t) ==
  /\ \A p \in Paths, i \in Inodes, c \in Time : c >= now => t[p][i][c] = None
  /\ \A p \in Paths : dir[p] # None /\ file[dir[p]].ctime < now =>
       t[p][dir[p]][file[dir[p]].ctime] = file[dir[p]].data

(* An entry under a stamp that is not racy is the truth of that stamp.     *)
InCache(t) ==
  \A p \in Paths : map[p] # None /\ ~map[p].stamp.racy =>
    Holds(t, p, map[p].stamp, map[p].data)

(* So is what was loaded from a file older than the load.                  *)
Loads(t) ==
  \A r \in Readers : pc[r] = "store" /\ result[r].code = "ok" =>
    /\ ~result[r].stamp.racy => result[r].stamp.ctime < since[r]
    /\ result[r].stamp.ctime < since[r] =>
         Holds(t, path[r], result[r].stamp, result[r].data)

(* While a call verifies the racy entry e it found, an entry that has      *)
(* taken its place under e's metadata has e's bytes or the truth.          *)
Residents(t) ==
  \A r \in Readers : pc[r] \in Verifying =>
    LET e == resident[r]
        m == map[path[r]]
    IN  m # None /\ SameStamp(m.stamp, e.stamp) /\ e.stamp.ctime + MaxLag < since[r] =>
          m.data = e.data \/ Holds(t, path[r], m.stamp, m.data)

(* What it reads of a file older than the verification is the truth ...    *)
Readings(t) ==
  \A r \in Readers : pc[r] \in {"compare", "confirm"} =>
    LET s == resident[r].stamp IN
    /\ fd[r] = s.ino
    /\ s.ctime < since[r] /\ file[fd[r]].ctime = s.ctime =>
         /\ Holds(t, path[r], s, file[fd[r]].data)
         /\ pc[r] = "confirm" => Holds(t, path[r], s, resident[r].data)

(* ... and what it confirms under a stamp that is not racy.                *)
Confirmations(t) ==
  \A r \in Readers : pc[r] = "refresh" =>
    LET s == resident[r].stamp IN
    /\ SameStamp(stamp[r], s)
    /\ ~stamp[r].racy => s.ctime + MaxLag < since[r] /\ Holds(t, path[r], s, resident[r].data)

(* The truth of the metadata a call looks for, it has seen.                *)
Looks(t) ==
  \A r \in Readers : pc[r] \in {"get", "claim"} /\ stamp[r] # None =>
    t[path[r]][stamp[r].ino][stamp[r].ctime] \in seen[r] \cup {None}

Truthful(t) ==
  OnDisk(t) /\ InCache(t) /\ Loads(t) /\ Residents(t) /\ Readings(t) /\ Confirmations(t) /\ Looks(t)

(* What a verification and an insertion wait for together stays within the *)
(* racy window.                                                            *)
Prompt == MaxStall + MaxLag <= RacyWindow

Timed == Base /\ OnTime /\ Landings /\ LinkedOnce /\ Sees

-----------------------------------------------------------------------------

LEMMA EntryTyped ==
  ASSUME NEW e \in Entry
  PROVE  e.data \in Contents /\ e.stamp \in Stamp /\ e.stamp.ino \in Inodes
         /\ e.stamp.ctime \in Time /\ e.stamp.ctime \in Nat /\ e.stamp.racy \in BOOLEAN
BY CacheNumbers DEF Entry, Stamp

LEMMA ResultTyped ==
  ASSUME NEW x \in Result, x.code = "ok"
  PROVE  x.data \in Contents /\ x.stamp \in Stamp /\ x.stamp.ino \in Inodes
         /\ x.stamp.ctime \in Time /\ x.stamp.ctime \in Nat /\ x.stamp.racy \in BOOLEAN
         /\ [data |-> x.data, stamp |-> x.stamp] \in Entry
  <1>1. x \in [code : {"ok"}, data : Contents, stamp : Stamp]
    BY DEF Result
  <1> QED
    BY <1>1, CacheNumbers DEF Entry, Stamp

(* The clock and what it dates are numbers.                                *)
LEMMA Dates ==
  ASSUME Kept
  PROVE  /\ now \in Time /\ now \in Nat
         /\ \A r \in Readers : since[r] \in Nat
         /\ \A i \in Inodes : file[i].ctime \in Time /\ file[i].ctime \in Nat
         /\ \A i \in Inodes : file[i].data \in Contents
         /\ \A p \in Paths : map[p] # None => map[p] \in Entry
BY CacheNumbers DEF Kept, FileState

(* What p is linked to, as the truth has it.                               *)
LEMMA DiskTruth ==
  ASSUME Kept, NEW t \in Truths, OnDisk(t), NEW p \in Paths, dir[p] # None
  PROVE  /\ StampAt(p).ctime < now => Holds(t, p, StampAt(p), ValueAt(p))
         /\ StampAt(p).ctime >= now => t[p][StampAt(p).ino][StampAt(p).ctime] = None
  <1>1. /\ dir[p] \in Inodes /\ ValueAt(p) = file[dir[p]].data
        /\ StampAt(p).ino = dir[p] /\ StampAt(p).ctime = file[dir[p]].ctime
    BY PathTyped
  <1>2. file[dir[p]].ctime \in Time
    BY <1>1, Dates
  <1> QED
    BY <1>1, <1>2 DEF OnDisk, Holds

-----------------------------------------------------------------------------
(* Steps that take no time *)

(* Changes of a file.                                                      *)
LEMMA TruthChanges ==
  ASSUME Timed, NEW t \in Truths, Truthful(t), NEW p \in Paths, Changes(p)
  PROVE  Truthful(t)'
  <1>0. /\ now' = now
        /\ \A r \in Readers : /\ pc'[r] = pc[r] /\ path'[r] = path[r] /\ stamp'[r] = stamp[r]
                              /\ resident'[r] = resident[r] /\ fd'[r] = fd[r]
                              /\ result'[r] = result[r] /\ since'[r] = since[r]
                              /\ seen[r] \subseteq seen'[r]
        /\ map' = map
        /\ \A i \in Inodes : file'[i] = file[i] \/ file'[i].ctime = now
    BY DEF Changes
  <1>1. OnDisk(t)'
    <2> SUFFICES ASSUME NEW q \in Paths, dir'[q] # None, file'[dir'[q]].ctime < now
                 PROVE  t[q][dir'[q]][file'[dir'[q]].ctime] = file'[dir'[q]].data
      BY <1>0 DEF Truthful, OnDisk
    <2>1. dir'[q] \in Inodes /\ now \in Nat
      BY Dates DEF Changes, Timed, Base
    <2>2. file'[dir'[q]] = file[dir'[q]]
      BY <1>0, <2>1
    <2>3. dir'[q] = dir[q]
      BY <2>1 DEF Changes
    <2> QED
      BY <2>2, <2>3 DEF Truthful, OnDisk
  <1>2. InCache(t)' /\ Loads(t)' /\ Residents(t)' /\ Confirmations(t)' /\ Looks(t)'
    BY <1>0 DEF Truthful, InCache, Loads, Residents, Confirmations, Looks
  <1>3. Readings(t)'
    <2> SUFFICES ASSUME NEW r \in Readers, pc[r] \in {"compare", "confirm"}
                 PROVE  /\ fd[r] = resident[r].stamp.ino
                        /\ resident[r].stamp.ctime < since[r]
                           /\ file'[fd[r]].ctime = resident[r].stamp.ctime =>
                             /\ Holds(t, path[r], resident[r].stamp, file'[fd[r]].data)
                             /\ pc[r] = "confirm" =>
                                  Holds(t, path[r], resident[r].stamp, resident[r].data)
      BY <1>0 DEF Readings
    <2>1. fd[r] \in Inodes /\ resident[r] \in Entry
      BY DEF Timed, Base, Held, Verifying
    <2>2. since[r] <= now /\ since[r] \in Nat /\ now \in Nat
      BY Dates DEF Timed, OnTime, Verifying, Base
    <2>3. resident[r].stamp.ctime \in Nat
      BY <2>1, EntryTyped
    <2>4. resident[r].stamp.ctime < since[r] /\ file'[fd[r]].ctime = resident[r].stamp.ctime
            => file'[fd[r]] = file[fd[r]]
      BY <1>0, <2>1, <2>2, <2>3
    <2> QED
      BY <2>4 DEF Truthful, Readings
  <1> QED
    BY <1>1, <1>2, <1>3 DEF Truthful

(* A step that may drop entries of the cache, and changes nothing else.    *)
LEMMA TruthDrops ==
  ASSUME NEW t \in Truths, Truthful(t),
         UNCHANGED <<now, dir, file, pc, path, stamp, resident, fd, result, since, seen>>,
         \A p \in Paths : map'[p] \in {map[p], None},
         \A r \in Readers : pc[r] \in Verifying => path[r] \in Paths
  PROVE  Truthful(t)'
  <1>1. OnDisk(t)' /\ Loads(t)' /\ Readings(t)' /\ Confirmations(t)' /\ Looks(t)'
    BY DEF Truthful, OnDisk, Loads, Readings, Confirmations, Looks
  <1>2. InCache(t)'
    BY DEF Truthful, InCache
  <1>3. Residents(t)'
    BY DEF Truthful, Residents
  <1> QED
    BY <1>1, <1>2, <1>3 DEF Truthful

LEMMA TruthPublishes ==
  ASSUME Timed, NEW t \in Truths, Truthful(t), NEW u \in Publishers, PublishInsert(u)
  PROVE  Truthful(t)'
  <1> DEFINE e == landed[u].entry
  <1>1. /\ e \in Entry
        /\ \A q \in Paths : \/ map'[q] \in {map[q], None}
                            \/ q = landed[u].path /\ map'[q] = e
        /\ UNCHANGED <<now, dir, file, pc, path, stamp, resident, fd, result, since, seen>>
    BY PublishEffect DEF Timed, Base, fsVars, readerVars, localVars
  <1>2. e.stamp.racy /\ e.stamp.ctime \in Nat /\ now <= e.stamp.ctime + MaxLag
    BY <1>1, EntryTyped DEF Timed, Landings, OnTime, PublishInsert
  <1> HIDE DEF e
  <1>3. OnDisk(t)' /\ Loads(t)' /\ Readings(t)' /\ Confirmations(t)' /\ Looks(t)'
    BY <1>1 DEF Truthful, OnDisk, Loads, Readings, Confirmations, Looks
  <1>4. InCache(t)'
    BY <1>1, <1>2 DEF Truthful, InCache
  <1>5. Residents(t)'
    <2> SUFFICES ASSUME NEW r \in Readers, pc[r] \in Verifying, map'[path[r]] # None,
                        SameStamp(map'[path[r]].stamp, resident[r].stamp),
                        resident[r].stamp.ctime + MaxLag < since[r]
                 PROVE  \/ map'[path[r]].data = resident[r].data
                        \/ Holds(t, path[r], map'[path[r]].stamp, map'[path[r]].data)
      BY <1>1 DEF Residents
    <2>1. path[r] \in Paths /\ since[r] <= now /\ since[r] \in Nat /\ now \in Nat
      BY Dates DEF Timed, Base, CellInv, Shape, OnTime, Verifying
    <2>2. map'[path[r]] # e
      BY <1>2, <2>1, CacheNumbers DEF SameStamp
    <2>3. map'[path[r]] = map[path[r]]
      BY <1>1, <2>1, <2>2
    <2> QED
      BY <2>3 DEF Truthful, Residents
  <1> QED
    BY <1>3, <1>4, <1>5 DEF Truthful

(* A new call looks at the path.                                           *)
LEMMA TruthCalls ==
  ASSUME Timed, NEW t \in Truths, Truthful(t), NEW r \in Readers, NEW p \in Paths, Call(r, p)
  PROVE  Truthful(t)'
  <1>1. /\ pc' = [pc EXCEPT ![r] = pc'[r]] /\ pc'[r] \in {"peek", "get"}
        /\ UNCHANGED <<now, dir, file, map, resident, fd, result, since>>
        /\ pc'[r] = "get" => dir[p] # None
        /\ path'[r] = p /\ stamp'[r] = Stat(p) /\ seen'[r] = {ValueAt(p)}
        /\ \A s \in Readers \ {r} :
             /\ pc'[s] = pc[s] /\ path'[s] = path[s] /\ stamp'[s] = stamp[s] /\ seen'[s] = seen[s]
    BY DEF Call, Goto, Timed, Base, CellInv, Shape, Kept, fsVars, shardVars
  <1>2. OnDisk(t)' /\ InCache(t)'
    BY <1>1 DEF Truthful, OnDisk, InCache
  <1>3. Loads(t)' /\ Residents(t)' /\ Readings(t)' /\ Confirmations(t)'
    BY <1>1 DEF Truthful, Loads, Residents, Readings, Confirmations, Verifying
  <1>4. Looks(t)'
    <2>1. pc'[r] = "get" => t[p][Stat(p).ino][Stat(p).ctime] \in {ValueAt(p), None}
      <3> SUFFICES ASSUME dir[p] # None
                   PROVE  t[p][StampAt(p).ino][StampAt(p).ctime] \in {ValueAt(p), None}
        BY <1>1 DEF Stat
      <3>1. StampAt(p).ctime \in Nat /\ now \in Nat
        BY PathTyped, Dates DEF Timed, Base
      <3> QED
        BY <3>1, DiskTruth DEF Holds, Truthful, Timed, Base
    <2> QED
      BY <1>1, <2>1 DEF Truthful, Looks
  <1> QED
    BY <1>2, <1>3, <1>4 DEF Truthful

(* What the end of a tick settles.                                         *)
Settle(t) ==
  [p \in Paths |-> [i \in Inodes |-> [c \in Time |->
     IF c = now /\ dir[p] = i /\ file[i].ctime = now THEN file[i].data ELSE t[p][i][c]]]]

LEMMA SettleEffect ==
  ASSUME Kept, NEW t \in Truths
  PROVE  /\ Settle(t) \in Truths
         /\ \A p \in Paths, i \in Inodes, c \in Time :
              Settle(t)[p][i][c] =
                IF c = now /\ dir[p] = i /\ file[i].ctime = now THEN file[i].data ELSE t[p][i][c]
  <1>1. \A i \in Inodes : file[i].data \in Contents
    BY Dates
  <1>2. \A p \in Paths, i \in Inodes, c \in Time :
          (IF c = now /\ dir[p] = i /\ file[i].ctime = now THEN file[i].data ELSE t[p][i][c])
            \in Contents \cup {None}
    BY <1>1 DEF Truths
  <1> QED
    BY <1>2 DEF Settle, Truths

LEMMA TruthTicks ==
  ASSUME Timed, NEW t \in Truths, Truthful(t), Tick
  PROVE  \E u \in Truths : Truthful(u)'
  <1>0. PICK u \in Truths :
          \A p \in Paths, i \in Inodes, c \in Time :
            u[p][i][c] =
              IF c = now /\ dir[p] = i /\ file[i].ctime = now THEN file[i].data ELSE t[p][i][c]
    BY SettleEffect DEF Timed, Base
  <1>1. /\ now' = now + 1 /\ now \in Nat /\ now \in Time
        /\ UNCHANGED <<dir, file, map, pc, path, stamp, resident, fd, result, since, seen>>
    BY Dates DEF Tick, shardVars, readerVars, localVars, Timed, Base
  <1>2. \A p \in Paths, i \in Inodes, c \in Time : t[p][i][c] # None => u[p][i][c] = t[p][i][c]
    <2>1. \A p \in Paths, i \in Inodes : t[p][i][now] = None
      BY <1>1 DEF Truthful, OnDisk
    <2> QED
      BY <1>0, <2>1
  <1>3. \A p \in Paths, s \in Stamp, d \in Contents : Holds(t, p, s, d) => Holds(u, p, s, d)
    BY <1>2, StampAssumption DEF Holds, Stamp
  <1>4. OnDisk(u)'
    <2>1. \A p \in Paths, i \in Inodes, c \in Time : c >= now + 1 => u[p][i][c] = None
      BY <1>0, <1>1, CacheNumbers DEF Truthful, OnDisk
    <2>2. ASSUME NEW p \in Paths, dir[p] # None, file[dir[p]].ctime < now + 1
          PROVE  u[p][dir[p]][file[dir[p]].ctime] = file[dir[p]].data
      <3>1. /\ dir[p] \in Inodes /\ file[dir[p]].ctime \in Time /\ file[dir[p]].ctime \in Nat
            /\ file[dir[p]].data \in Contents
        BY <2>2, PathTyped, Dates DEF Timed, Base
      <3>2. CASE file[dir[p]].ctime = now
        BY <1>0, <3>1, <3>2
      <3>3. CASE file[dir[p]].ctime < now
        <4>1. t[p][dir[p]][file[dir[p]].ctime] = file[dir[p]].data
          BY <2>2, <3>3 DEF Truthful, OnDisk
        <4> QED
          BY <1>2, <3>1, <4>1, StampAssumption
      <3> QED
        BY <1>1, <2>2, <3>1, <3>2, <3>3
    <2> QED
      BY <1>1, <2>1, <2>2 DEF OnDisk
  <1>5. InCache(u)'
    BY <1>1, <1>3, Dates, EntryTyped DEF Truthful, InCache, Timed, Base
  <1> DEFINE Typed(r) == /\ pc[r] \in Running => path[r] \in Paths
                         /\ pc[r] \in Verifying => resident[r] \in Entry
                         /\ pc[r] = "store" => result[r] \in Result
  <1>6. \A r \in Readers : Typed(r)
    BY DEF Timed, Base, Held, CellInv, Shape, Running, Verifying
  <1> HIDE DEF Typed
  <1>7. Loads(u)'
    <2> SUFFICES ASSUME NEW r \in Readers, pc[r] = "store", result[r].code = "ok",
                        result[r].stamp.ctime < since[r]
                 PROVE  Holds(u, path[r], result[r].stamp, result[r].data)
      BY <1>1 DEF Truthful, Loads
    <2> QED
      BY <1>3, <1>6, ResultTyped DEF Typed, Running, Truthful, Loads
  <1>8. Residents(u)'
    <2> SUFFICES ASSUME NEW r \in Readers, pc[r] \in Verifying, map[path[r]] # None,
                        SameStamp(map[path[r]].stamp, resident[r].stamp),
                        resident[r].stamp.ctime + MaxLag < since[r]
                 PROVE  \/ map[path[r]].data = resident[r].data
                        \/ Holds(u, path[r], map[path[r]].stamp, map[path[r]].data)
      BY <1>1 DEF Residents
    <2>1. path[r] \in Paths /\ map[path[r]] \in Entry
      BY <1>6, Dates DEF Typed, Running, Verifying, Timed, Base
    <2> QED
      BY <1>3, <2>1, EntryTyped DEF Truthful, Residents
  <1>9. Readings(u)'
    <2> SUFFICES ASSUME NEW r \in Readers, pc[r] \in {"compare", "confirm"}
                 PROVE  /\ fd[r] = resident[r].stamp.ino
                        /\ resident[r].stamp.ctime < since[r]
                           /\ file[fd[r]].ctime = resident[r].stamp.ctime =>
                             /\ Holds(u, path[r], resident[r].stamp, file[fd[r]].data)
                             /\ pc[r] = "confirm" =>
                                  Holds(u, path[r], resident[r].stamp, resident[r].data)
      BY <1>1 DEF Readings
    <2>1. /\ path[r] \in Paths /\ resident[r] \in Entry
          /\ fd[r] \in Inodes /\ file[fd[r]].data \in Contents
      BY <1>6, Dates DEF Typed, Running, Verifying, Timed, Base, Held
    <2> QED
      BY <1>3, <2>1, EntryTyped DEF Truthful, Readings
  <1>10. Confirmations(u)'
    <2> SUFFICES ASSUME NEW r \in Readers, pc[r] = "refresh"
                 PROVE  /\ SameStamp(stamp[r], resident[r].stamp)
                        /\ ~stamp[r].racy =>
                             /\ resident[r].stamp.ctime + MaxLag < since[r]
                             /\ Holds(u, path[r], resident[r].stamp, resident[r].data)
      BY <1>1 DEF Confirmations
    <2>1. path[r] \in Paths /\ resident[r] \in Entry
      BY <1>6 DEF Typed, Running, Verifying
    <2> QED
      BY <1>3, <2>1, EntryTyped DEF Truthful, Confirmations
  <1>11. Looks(u)'
    <2> SUFFICES ASSUME NEW r \in Readers, pc[r] \in {"get", "claim"}, stamp[r] # None
                 PROVE  u[path[r]][stamp[r].ino][stamp[r].ctime] \in seen[r] \cup {None}
      BY <1>1 DEF Looks
    <2>1. path[r] \in Paths /\ stamp[r].ino \in Inodes /\ stamp[r].ctime \in Time
      BY <1>6 DEF Typed, Running, Timed, Base, Kept, Stamp
    <2>2. dir[path[r]] = stamp[r].ino => file[stamp[r].ino].data \in seen[r]
      BY <2>1, StampAssumption DEF Timed, Sees, Sees1, Running, ValueAt
    <2> QED
      BY <1>0, <2>1, <2>2 DEF Truthful, Looks
  <1> QED
    BY <1>4, <1>5, <1>7, <1>8, <1>9, <1>10, <1>11 DEF Truthful

(* What a step of one call does to the cache: nothing, a drop, what it     *)
(* loaded, or the newer stamp it confirmed.                                *)
Stores(r) ==
  /\ pc[r] = "store" /\ result[r].code = "ok"
  /\ \A q \in Paths :
       \/ map'[q] \in {map[q], None}
       \/ q = path[r] /\ map'[q] = [data |-> result[r].data, stamp |-> result[r].stamp]

Refreshes(r) ==
  /\ pc[r] = "refresh" /\ map[path[r]] # None
  /\ SameStamp(map[path[r]].stamp, resident[r].stamp)
  /\ \A q \in Paths \ {path[r]} : map'[q] = map[q]
  /\ map'[path[r]].data = map[path[r]].data /\ map'[path[r]].stamp = stamp[r]

LEMMA MapEffect ==
  ASSUME Timed, NEW r \in Readers, Progress(r)
  PROVE  \/ \A q \in Paths : map'[q] \in {map[q], None}
         \/ Stores(r)
         \/ Refreshes(r)
  <1>0. path[r] \in Paths
    BY ProgressPlaces DEF Timed
  <1> USE DEF Timed, Base, Kept, shardVars
  <1>1. CASE UNCHANGED map
    BY <1>1
  <1>2. CASE Get(r) \/ Peek(r) \/ OpenResident(r) \/ CompareBytes(r) \/ ConfirmResident(r)
    BY <1>1, <1>2 DEF Get, Peek, OpenResident, CompareBytes, ConfirmResident
  <1>3. CASE GiveUp(r) \/ Restat(r) \/ TakeCell(r) \/ Load(r) \/ Clear(r)
    BY <1>1, <1>3 DEF GiveUp, Restat, TakeCell, Load, Clear
  <1>4. CASE Claim(r)
    BY <1>0, <1>1, <1>4 DEF Claim, Drop
  <1>5. CASE Store(r)
    <2>1. CASE result[r].code = "ok" /\ Insert(path[r], [data |-> result[r].data, stamp |-> result[r].stamp])
      <3>1. pc[r] = "store" /\ result[r] \in Result
        BY <1>5 DEF Store, Goto, Held
      <3>2. [data |-> result[r].data, stamp |-> result[r].stamp] \in Entry
        BY <2>1, <3>1, ResultTyped
      <3> QED
        BY <1>0, <2>1, <3>1, <3>2, InsertEffect DEF Stores
    <2> QED
      BY <1>1, <1>5, <2>1 DEF Store
  <1>6. CASE Refresh(r)
    <2>1. CASE /\ map[path[r]] # None /\ SameStamp(map[path[r]].stamp, resident[r].stamp)
               /\ map' = [map EXCEPT ![path[r]].stamp = stamp[r]]
      <3> DEFINE e == [map[path[r]] EXCEPT !.stamp = stamp[r]]
      <3>1. map[path[r]] \in Entry
        BY <1>0, <2>1
      <3>2. e.data = map[path[r]].data /\ e.stamp = stamp[r]
        BY <3>1 DEF Entry
      <3>3. map' = [map EXCEPT ![path[r]] = e]
        BY <2>1
      <3> HIDE DEF e
      <3> QED
        BY <1>0, <1>6, <2>1, <3>2, <3>3 DEF Refreshes, Refresh
    <2> QED
      BY <1>1, <1>6, <2>1 DEF Refresh
  <1> QED
    BY <1>2, <1>3, <1>4, <1>5, <1>6 DEF Progress

LEMMA CacheProgress ==
  ASSUME Prompt, Timed, NEW t \in Truths, Truthful(t), NEW r \in Readers, Progress(r)
  PROVE  InCache(t)'
  <1>0. path[r] \in Paths
    BY ProgressPlaces DEF Timed
  <1>1. CASE \A q \in Paths : map'[q] \in {map[q], None}
    BY <1>1 DEF Truthful, InCache
  <1>2. CASE Stores(r)
    <2> DEFINE e == [data |-> result[r].data, stamp |-> result[r].stamp]
    <2>1. ~e.stamp.racy => Holds(t, path[r], e.stamp, e.data)
      BY <1>2 DEF Stores, Truthful, Loads
    <2>2. \A q \in Paths : map'[q] \in {map[q], None} \/ (q = path[r] /\ map'[q] = e)
      BY <1>2 DEF Stores
    <2> HIDE DEF e
    <2> QED
      BY <2>1, <2>2 DEF Truthful, InCache
  <1>3. CASE Refreshes(r)
    <2>1. /\ SameStamp(stamp[r], resident[r].stamp)
          /\ SameStamp(map[path[r]].stamp, resident[r].stamp)
      BY <1>3 DEF Refreshes, Truthful, Confirmations
    <2>2. ~stamp[r].racy => Holds(t, path[r], stamp[r], map[path[r]].data)
      <3> SUFFICES ASSUME ~stamp[r].racy
                   PROVE  Holds(t, path[r], stamp[r], map[path[r]].data)
        OBVIOUS
      <3>1. /\ resident[r].stamp.ctime + MaxLag < since[r]
            /\ Holds(t, path[r], resident[r].stamp, resident[r].data)
        BY <1>3 DEF Refreshes, Truthful, Confirmations
      <3>2. \/ map[path[r]].data = resident[r].data
            \/ Holds(t, path[r], map[path[r]].stamp, map[path[r]].data)
        BY <1>3, <2>1, <3>1 DEF Refreshes, Truthful, Residents, Verifying
      <3> QED
        BY <2>1, <3>1, <3>2 DEF Holds, SameStamp
    <2> QED
      BY <1>0, <1>3, <2>2 DEF Refreshes, Truthful, InCache
  <1> QED
    BY <1>1, <1>2, <1>3, MapEffect

LEMMA ResidentsProgress ==
  ASSUME Timed, NEW t \in Truths, Truthful(t), NEW r \in Readers, Progress(r)
  PROVE  Residents(t)'
  <1> SUFFICES ASSUME NEW s \in Readers, pc'[s] \in Verifying, map'[path[s]] # None,
                      SameStamp(map'[path[s]].stamp, resident'[s].stamp),
                      resident'[s].stamp.ctime + MaxLag < since'[s]
               PROVE  \/ map'[path[s]].data = resident'[s].data
                      \/ Holds(t, path[s], map'[path[s]].stamp, map'[path[s]].data)
    BY ProgressKeeps DEF Residents
  <1>1. CASE Peek(r) /\ s = r
    <2>1. resident'[r] = map[path[r]] /\ map' = map
      BY <1>1 DEF Peek, Verifying, shardVars, Goto, Timed, Base, CellInv, Shape, Kept
    <2> QED
      BY <1>1, <2>1
  <1>2. CASE ~(Peek(r) /\ s = r)
    <2>1. /\ pc[s] \in Verifying /\ resident'[s] = resident[s] /\ since'[s] = since[s]
      <3>1. CASE s # r
        BY <3>1, OthersKeep DEF Same, Timed, Base
      <3>2. CASE s = r
        <4> USE DEF Goto, Timed, Base, CellInv, Shape, Kept, Verifying
        <4>1. CASE OpenResident(r) \/ CompareBytes(r) \/ ConfirmResident(r)
          BY <3>2, <4>1 DEF OpenResident, CompareBytes, ConfirmResident
        <4>2. CASE Get(r) \/ GiveUp(r) \/ Refresh(r) \/ Restat(r) \/ Claim(r) \/ TakeCell(r)
          BY <3>2, <4>2 DEF Get, GiveUp, Refresh, Restat, Claim, TakeCell, Answer
        <4>3. CASE Load(r) \/ Store(r) \/ Clear(r)
          BY <3>2, <4>3 DEF Load, Store, Clear, Answer
        <4> QED
          BY <1>2, <3>2, <4>1, <4>2, <4>3 DEF Progress
      <3> QED
        BY <3>1, <3>2
    <2>2. path[s] \in Paths /\ resident[s] \in Entry /\ resident[s].stamp.ctime \in Nat
          /\ since[s] \in Nat /\ since[s] <= now /\ now \in Nat
      BY <2>1, EntryTyped, Dates DEF Timed, Base, CellInv, Shape, Held, OnTime, Verifying
    <2>3. ASSUME map[path[s]] # None, SameStamp(map[path[s]].stamp, resident[s].stamp)
          PROVE  \/ map[path[s]].data = resident[s].data
                 \/ Holds(t, path[s], map[path[s]].stamp, map[path[s]].data)
      BY <2>1, <2>3 DEF Truthful, Residents
    <2>4. CASE \A q \in Paths : map'[q] \in {map[q], None}
      BY <2>1, <2>2, <2>3, <2>4
    <2>5. CASE Stores(r)
      <3> DEFINE e == [data |-> result[r].data, stamp |-> result[r].stamp]
      <3>1. CASE map'[path[s]] = map[path[s]]
        BY <2>1, <2>3, <3>1
      <3>2. CASE path[s] = path[r] /\ map'[path[s]] = e
        <4>1. e.stamp.ctime = resident[s].stamp.ctime
          BY <2>1, <3>2 DEF SameStamp
        <4>2. now <= since[r] + MaxLag /\ since[r] \in Nat
          BY <2>5, Dates DEF Stores, Timed, OnTime, Base
        <4>3. e.stamp.ctime < since[r]
          BY <2>1, <2>2, <4>1, <4>2, CacheNumbers
        <4>4. Holds(t, path[r], e.stamp, e.data)
          BY <2>5, <4>3 DEF Stores, Truthful, Loads
        <4> QED
          BY <3>2, <4>4
      <3> QED
        BY <2>2, <2>5, <3>1, <3>2 DEF Stores
    <2>6. CASE Refreshes(r)
      <3>1. CASE map'[path[s]] = map[path[s]]
        BY <2>1, <2>3, <3>1
      <3>2. CASE path[s] = path[r]
        <4>1. /\ map'[path[s]].data = map[path[s]].data
              /\ map[path[s]] # None
              /\ SameStamp(map[path[s]].stamp, map'[path[s]].stamp)
          BY <2>6, <3>2 DEF Refreshes, SameStamp, Truthful, Confirmations
        <4> QED
          BY <2>1, <2>3, <4>1 DEF SameStamp, Holds
      <3> QED
        BY <2>2, <2>6, <3>1, <3>2 DEF Refreshes
    <2> QED
      BY <2>4, <2>5, <2>6, MapEffect
  <1> QED
    BY <1>1, <1>2

LEMMA LoadsProgress ==
  ASSUME Timed, NEW t \in Truths, Truthful(t), NEW r \in Readers, Progress(r)
  PROVE  Loads(t)'
  <1> SUFFICES ASSUME NEW s \in Readers, pc'[s] = "store", result'[s].code = "ok"
               PROVE  /\ ~result'[s].stamp.racy => result'[s].stamp.ctime < since'[s]
                      /\ result'[s].stamp.ctime < since'[s] =>
                           Holds(t, path[s], result'[s].stamp, result'[s].data)
    BY ProgressKeeps DEF Loads
  <1>1. CASE s # r
    BY <1>1, OthersKeep DEF Same, Timed, Base, Truthful, Loads
  <1>2. CASE s = r
    <2> USE DEF Goto, Timed, Base, CellInv, Shape, Kept
    <2>1. Load(r)
      <3>1. CASE Get(r) \/ GiveUp(r) \/ Refresh(r) \/ Restat(r) \/ Claim(r) \/ TakeCell(r)
        BY <1>2, <3>1 DEF Get, GiveUp, Refresh, Restat, Claim, TakeCell, Answer
      <3>2. CASE Peek(r) \/ OpenResident(r) \/ CompareBytes(r) \/ ConfirmResident(r)
        BY <1>2, <3>2 DEF Peek, OpenResident, CompareBytes, ConfirmResident
      <3>3. CASE Store(r) \/ Clear(r)
        BY <1>2, <3>3 DEF Store, Clear, Answer
      <3> QED
        BY <3>1, <3>2, <3>3 DEF Progress
    <2>2. /\ since'[r] = now /\ dir[path[r]] # None
          /\ result'[r].data = ValueAt(path[r]) /\ result'[r].stamp = StampAt(path[r])
      BY <1>2, <2>1 DEF Load
    <2>3. path[r] \in Paths
      BY ProgressPlaces
    <2>4. StampAt(path[r]).ctime = file[dir[path[r]]].ctime /\ dir[path[r]] \in Inodes
          /\ (~StampAt(path[r]).racy => file[dir[path[r]]].ctime + RacyWindow < now)
      BY <2>2, <2>3, PathTyped
    <2>5. ~StampAt(path[r]).racy => StampAt(path[r]).ctime < now
      BY <2>4, Dates, CacheNumbers
    <2> QED
      BY <1>2, <2>2, <2>3, <2>5, DiskTruth DEF Truthful
  <1> QED
    BY <1>1, <1>2

LEMMA ReadingsProgress ==
  ASSUME Timed, NEW t \in Truths, Truthful(t), NEW r \in Readers, Progress(r)
  PROVE  Readings(t)'
  <1>0. UNCHANGED <<file, path>> /\ path[r] \in Paths
    BY ProgressKeeps, ProgressPlaces DEF fsVars, Timed
  <1> DEFINE Read(s) ==
        /\ fd'[s] = resident'[s].stamp.ino
        /\ resident'[s].stamp.ctime < since'[s] /\ file[fd'[s]].ctime = resident'[s].stamp.ctime =>
             /\ Holds(t, path[s], resident'[s].stamp, file[fd'[s]].data)
             /\ pc'[s] = "confirm" => Holds(t, path[s], resident'[s].stamp, resident'[s].data)
  <1> SUFFICES ASSUME NEW s \in Readers, pc'[s] \in {"compare", "confirm"}
               PROVE  Read(s)
    BY <1>0 DEF Readings
  <1>1. CASE s # r
    BY <1>1, OthersKeep DEF Same, Timed, Base, Truthful, Readings
  <1>2. CASE s = r
    <2> USE DEF Goto, Timed, Base, CellInv, Shape, Kept
    <2>1. OpenResident(r) \/ CompareBytes(r)
      <3>1. CASE Get(r) \/ GiveUp(r) \/ Refresh(r) \/ Restat(r) \/ Claim(r) \/ TakeCell(r)
        BY <1>2, <3>1 DEF Get, GiveUp, Refresh, Restat, Claim, TakeCell, Answer
      <3>2. CASE Peek(r) \/ ConfirmResident(r)
        BY <1>2, <3>2 DEF Peek, ConfirmResident
      <3>3. CASE Load(r) \/ Store(r) \/ Clear(r)
        BY <1>2, <3>3 DEF Load, Store, Clear, Answer
      <3> QED
        BY <3>1, <3>2, <3>3 DEF Progress
    <2>2. since'[r] = since[r] /\ resident'[r] = resident[r] /\ pc[r] \in Verifying
      BY <2>1 DEF OpenResident, CompareBytes, Verifying
    <2>3. CASE OpenResident(r)
      <3>1. /\ dir[path[r]] # None /\ SameStamp(StampAt(path[r]), resident[r].stamp)
            /\ fd'[r] = dir[path[r]] /\ pc'[r] = "compare"
        BY <2>3 DEF OpenResident
      <3>2. /\ StampAt(path[r]).ino = dir[path[r]] /\ dir[path[r]] \in Inodes
            /\ StampAt(path[r]).ctime = file[dir[path[r]]].ctime
            /\ ValueAt(path[r]) = file[dir[path[r]]].data
        BY <1>0, <3>1, PathTyped
      <3>3. since[r] <= now /\ since[r] \in Nat /\ now \in Nat /\ file[dir[path[r]]].ctime \in Nat
        BY <2>2, <3>2, Dates DEF OnTime
      <3>4. resident[r].stamp.ctime < since[r] =>
              Holds(t, path[r], resident[r].stamp, file[dir[path[r]]].data)
        BY <1>0, <3>1, <3>2, <3>3, DiskTruth DEF Truthful, SameStamp, Holds
      <3> QED
        BY <1>2, <2>2, <3>1, <3>2, <3>4 DEF SameStamp
    <2>4. CASE CompareBytes(r)
      BY <1>2, <2>2, <2>4 DEF CompareBytes, Truthful, Readings
    <2> QED
      BY <2>1, <2>3, <2>4
  <1> QED
    BY <1>1, <1>2

LEMMA ConfirmationsProgress ==
  ASSUME Prompt, Timed, NEW t \in Truths, Truthful(t), NEW r \in Readers, Progress(r)
  PROVE  Confirmations(t)'
  <1> SUFFICES ASSUME NEW s \in Readers, pc'[s] = "refresh"
               PROVE  /\ SameStamp(stamp'[s], resident'[s].stamp)
                      /\ ~stamp'[s].racy =>
                           /\ resident'[s].stamp.ctime + MaxLag < since'[s]
                           /\ Holds(t, path[s], resident'[s].stamp, resident'[s].data)
    BY ProgressKeeps DEF Confirmations
  <1>1. CASE s # r
    BY <1>1, OthersKeep DEF Same, Timed, Base, Truthful, Confirmations
  <1>2. CASE s = r
    <2> USE DEF Goto, Timed, Base, CellInv, Shape, Kept
    <2>1. ConfirmResident(r)
      <3>1. CASE Get(r) \/ GiveUp(r) \/ Refresh(r) \/ Restat(r) \/ Claim(r) \/ TakeCell(r)
        BY <1>2, <3>1 DEF Get, GiveUp, Refresh, Restat, Claim, TakeCell, Answer
      <3>2. CASE Peek(r) \/ OpenResident(r) \/ CompareBytes(r)
        BY <1>2, <3>2 DEF Peek, OpenResident, CompareBytes
      <3>3. CASE Load(r) \/ Store(r) \/ Clear(r)
        BY <1>2, <3>3 DEF Load, Store, Clear, Answer
      <3> QED
        BY <3>1, <3>2, <3>3 DEF Progress
    <2> DEFINE after == StampOf(fd[r], file[fd[r]], now)
    <2>2. /\ pc[r] = "confirm" /\ SameStamp(after, resident[r].stamp) /\ stamp'[r] = after
          /\ resident'[r] = resident[r] /\ since'[r] = since[r]
      BY <2>1 DEF ConfirmResident
    <2>3. /\ fd[r] \in Inodes /\ resident[r] \in Entry /\ resident[r].stamp.ctime \in Nat
          /\ now <= since[r] + MaxStall /\ since[r] \in Nat /\ now \in Nat
      BY <2>2, Dates, EntryTyped DEF Held, OnTime, Verifying
    <2>4. after.ctime = file[fd[r]].ctime /\ (~after.racy => file[fd[r]].ctime + RacyWindow < now)
      BY <2>3, StampTyped
    <2>5. ~after.racy => resident[r].stamp.ctime + MaxLag < since[r]
      BY <2>2, <2>3, <2>4, CacheNumbers DEF SameStamp, Prompt
    <2>6. ~after.racy => resident[r].stamp.ctime < since[r]
      BY <2>3, <2>5, CacheNumbers
    <2>7. ~after.racy => Holds(t, path[r], resident[r].stamp, resident[r].data)
      BY <2>2, <2>4, <2>6 DEF SameStamp, Truthful, Readings
    <2> QED
      BY <1>2, <2>2, <2>5, <2>7
  <1> QED
    BY <1>1, <1>2

LEMMA LooksProgress ==
  ASSUME Timed, NEW t \in Truths, Truthful(t), NEW r \in Readers, Progress(r)
  PROVE  Looks(t)'
  <1>0. UNCHANGED <<path, seen>> /\ path[r] \in Paths /\ pc[r] \in Running
    BY ProgressKeeps, ProgressPlaces DEF Timed
  <1> SUFFICES ASSUME NEW s \in Readers, pc'[s] \in {"get", "claim"}, stamp'[s] # None
               PROVE  t[path[s]][stamp'[s].ino][stamp'[s].ctime] \in seen[s] \cup {None}
    BY <1>0 DEF Looks
  <1>1. CASE s # r
    BY <1>1, OthersKeep DEF Same, Timed, Base, Truthful, Looks
  <1>2. CASE s = r
    <2> USE DEF Goto, Timed, Base, CellInv, Shape, Kept
    <2>1. Restat(r)
      <3>1. CASE Get(r) \/ GiveUp(r) \/ Refresh(r) \/ Claim(r) \/ TakeCell(r)
        BY <1>2, <3>1 DEF Get, GiveUp, Refresh, Claim, TakeCell, Answer
      <3>2. CASE Peek(r) \/ OpenResident(r) \/ CompareBytes(r) \/ ConfirmResident(r)
        BY <1>2, <3>2 DEF Peek, OpenResident, CompareBytes, ConfirmResident
      <3>3. CASE Load(r) \/ Store(r) \/ Clear(r)
        BY <1>2, <3>3 DEF Load, Store, Clear, Answer
      <3> QED
        BY <3>1, <3>2, <3>3 DEF Progress
    <2>2. dir[path[r]] # None /\ stamp'[r] = StampAt(path[r])
      BY <1>2, <2>1 DEF Restat, Stat
    <2>3. StampAt(path[r]).ctime \in Nat /\ now \in Nat
      BY <1>0, <2>2, PathTyped, Dates
    <2> QED
      BY <1>0, <1>2, <2>2, <2>3, DiskTruth DEF Holds, Truthful, Sees, Sees1
  <1> QED
    BY <1>1, <1>2

LEMMA TruthProgress ==
  ASSUME Prompt, Timed, NEW t \in Truths, Truthful(t), NEW r \in Readers, Progress(r)
  PROVE  Truthful(t)'
  <1>1. OnDisk(t)'
    BY ProgressKeeps DEF fsVars, Truthful, OnDisk
  <1> QED
    BY <1>1, CacheProgress, LoadsProgress, ResidentsProgress, ReadingsProgress,
       ConfirmationsProgress, LooksProgress DEF Truthful

LEMMA TruthStep ==
  ASSUME Prompt, Timed, NEW t \in Truths, Truthful(t), [Next]_vars
  PROVE  \E u \in Truths : Truthful(u)'
  <1>1. ASSUME NEW r \in Readers, Progress(r)
        PROVE  Truthful(t)'
    BY <1>1, TruthProgress
  <1>2. ASSUME NEW r \in Readers, NEW p \in Paths, Call(r, p)
        PROVE  Truthful(t)'
    BY <1>2, TruthCalls
  <1>3. ASSUME NEW p \in Paths, Changes(p)
        PROVE  Truthful(t)'
    BY <1>3, TruthChanges
  <1>4. ASSUME NEW u \in Publishers, PublishInsert(u)
        PROVE  Truthful(t)'
    BY <1>4, TruthPublishes
  <1>5. \A r \in Readers : pc[r] \in Verifying => path[r] \in Paths
    BY DEF Timed, Base, CellInv, Shape, Verifying
  <1>6. ASSUME NEW p \in Paths, Invalidate(p)
        PROVE  Truthful(t)'
    BY <1>5, <1>6, TruthDrops
       DEF Invalidate, Drop, readerVars, localVars, Timed, Base, Kept
  <1>7. CASE UNCHANGED vars
    BY <1>5, <1>7, TruthDrops DEF vars
  <1> QED
    BY <1>1, <1>2, <1>3, <1>4, <1>6, <1>7, TruthTicks, StepKinds DEF SomeChange, Timed

LEMMA TimedInit == Init => Timed
  <1> SUFFICES ASSUME Init
               PROVE  Timed
    OBVIOUS
  <1>1. /\ now = 0 /\ \A r \in Readers : pc[r] = "idle" /\ result[r] = None
        /\ \A u \in Publishers : landed[u] = None
    BY DEF Init
  <1>2. PICK first \in [Paths -> Inodes], absent \in SUBSET Paths :
          /\ IsInjective(first)
          /\ dir = [p \in Paths |-> IF p \in absent THEN None ELSE first[p]]
    BY DEF Init
  <1>3. PICK c \in Contents : file = [i \in Inodes |-> [data |-> c, mtime |-> 0, ctime |-> 0]]
    BY DEF Init
  <1>4. file \in [Inodes -> FileState] /\ \A i \in Inodes : file[i].ctime = 0
    BY <1>3, CacheNumbers DEF FileState
  <1>5. /\ map \in [Paths -> Entry \cup {None}]
        /\ stamp \in [Readers -> Stamp \cup {None}]
        /\ resident \in [Readers -> Entry \cup {None}]
        /\ fd \in [Readers -> Inodes \cup {None}]
        /\ result \in [Readers -> Result \cup {None}]
        /\ since \in [Readers -> Time]
        /\ landed \in [Publishers -> Landing \cup {None}]
    BY CacheNumbers DEF Init
  <1>6. /\ reply \in [Readers -> Reply \cup {None}]
        /\ how \in [Readers -> {"none", "hit", "verified", "loaded", "joined"}]
        /\ seen \in [Readers -> SUBSET (Contents \cup {None})]
        /\ past \in [Readers -> SUBSET Readers]
        /\ disturbed \in 0 .. MaxDisturb
    BY CacheNumbers DEF Init
  <1>7. cell \in [Readers -> Cell]
    BY DEF Init, Cell
  <1>8. Kept
    <2>1. dir \in [Paths -> Inodes \cup {None}] /\ now \in Time
      BY <1>1, <1>2, CacheNumbers
    <2> QED
      BY <1>4, <1>5, <1>6, <1>7, <2>1 DEF Kept
  <1>9. Held /\ Sees /\ Landings /\ OnTime
    BY <1>1, <1>4, CacheNumbers
       DEF Held, Sees, Sees1, Landings, OnTime, Owed, Verifying, Running
  <1>10. LinkedOnce
    BY <1>2 DEF LinkedOnce, IsInjective
  <1> QED
    BY <1>8, <1>9, <1>10, CellInit DEF Timed, Base

LEMMA TimedStep == Timed /\ [Next]_vars => Timed'
BY KeptStep, HeldStep, CellStep, OnTimeStep, LinkedStep, SeesStep DEF Timed, Base

(* Nothing is settled yet.                                                 *)
LEMMA TruthInit == Init => \E t \in Truths : Truthful(t)
  <1> SUFFICES ASSUME Init
               PROVE  \E t \in Truths : Truthful(t)
    OBVIOUS
  <1> DEFINE t == [p \in Paths |-> [i \in Inodes |-> [c \in Time |-> None]]]
  <1>1. t \in Truths /\ \A p \in Paths, i \in Inodes, c \in Time : t[p][i][c] = None
    BY DEF Truths
  <1> HIDE DEF t
  <1>2. now = 0 /\ \A i \in Inodes : file[i].ctime = 0
    BY DEF Init
  <1>3. \A p \in Paths : dir[p] # None => dir[p] \in Inodes
    BY TimedInit DEF Timed, Base, Kept
  <1>4. OnDisk(t)
    BY <1>1, <1>2, <1>3 DEF OnDisk
  <1>5. \A r \in Readers : pc[r] = "idle"
    BY DEF Init
  <1>6. Loads(t) /\ Residents(t) /\ Readings(t) /\ Confirmations(t) /\ Looks(t)
    BY <1>5 DEF Loads, Residents, Readings, Confirmations, Looks, Verifying
  <1>7. InCache(t)
    BY DEF Init, InCache
  <1> QED
    BY <1>1, <1>4, <1>6, <1>7 DEF Truthful

(* The cache tells the truth, for some reading of what the truth is.       *)
Knowing == Timed /\ \E t \in Truths : Truthful(t)

LEMMA KnowingHolds ==
  ASSUME Prompt
  PROVE  Spec => []Knowing
  <1>1. Init => Knowing
    BY TimedInit, TruthInit DEF Knowing
  <1>2. Knowing /\ [Next]_vars => Knowing'
    <2> SUFFICES ASSUME Knowing, [Next]_vars
                 PROVE  Knowing'
      OBVIOUS
    <2>1. PICK t \in Truths : Truthful(t)
      BY DEF Knowing
    <2>2. PICK u \in Truths : Truthful(u)'
      BY <2>1, TruthStep DEF Knowing
    <2>3. Truths' = Truths
      BY DEF Truths
    <2> QED
      BY <2>2, <2>3, TimedStep DEF Knowing
  <1> QED
    BY <1>1, <1>2, PTL DEF Spec

(* What is served from the cache is what its stamp says.                   *)
LEMMA ProvenIsTrue ==
  ASSUME Timed, NEW t \in Truths, Truthful(t), NEW p \in Paths, NEW s, Proven(map[p], s)
  PROVE  t[p][s.ino][s.ctime] = map[p].data /\ map[p].data \in Contents
  <1>1. map[p] \in Entry /\ ~map[p].stamp.racy /\ SameStamp(map[p].stamp, s)
    BY DEF Proven, Timed, Base, Kept
  <1>2. Holds(t, p, map[p].stamp, map[p].data)
    BY <1>1 DEF Proven, Truthful, InCache
  <1> QED
    BY <1>1, <1>2, EntryTyped DEF Holds, SameStamp

(* "Metadata equality alone is proof" (cache.rs `get`): while a            *)
(* verification and an insertion take no longer than the racy window, an   *)
(* entry whose stamp is not racy and is the file's holds the file's bytes, *)
(* through every refresh, late insertion and rewrite inside one tick.      *)
THEOREM MetadataIsProof ==
  ASSUME Prompt
  PROVE  Spec => []EntriesAreTruthful
  <1>1. Knowing => EntriesAreTruthful
    <2> SUFFICES ASSUME Knowing, NEW p \in Paths, dir[p] # None, Proven(map[p], StampAt(p))
                 PROVE  map[p].data = ValueAt(p)
      BY DEF EntriesAreTruthful
    <2>1. PICK t \in Truths : Truthful(t)
      BY DEF Knowing
    <2>2. t[p][StampAt(p).ino][StampAt(p).ctime] = map[p].data /\ map[p].data \in Contents
      BY <2>1, ProvenIsTrue DEF Knowing
    <2>3. StampAt(p).ctime \in Nat /\ now \in Nat
      BY PathTyped, Dates DEF Knowing, Timed, Base
    <2> QED
      BY <2>1, <2>2, <2>3, DiskTruth, StampAssumption DEF Knowing, Timed, Base, Truthful, Holds
  <1> QED
    BY <1>1, KnowingHolds, PTL

(* Only a call that has returned is in the past of another ...             *)
Past == \A r, s \in Readers : s \in past[r] => pc[s] = "done"

(* ... so never one that shares its cell.                                  *)
Contemporary ==
  \A r, s \in Readers : joined[r] # None /\ joined[s] = joined[r] => s \notin past[r]

(* Nobody has returned from a cell in flight.                              *)
FlightsAreOpen ==
  \A p \in Paths, s \in Readers :
    inflight[p] # None /\ joined[s] = inflight[p] => pc[s] # "done"

(* s loaded d, and settled its cell.                                       *)
Settled(s, d) ==
  d \in seen[s] /\ (pc[s] = "clear" \/ (pc[s] = "done" /\ how[s] = "loaded"))

ReadyCellsAreSettled ==
  \A k \in Readers : cell[k].state = "ready" =>
    \E s \in Readers : joined[s] = k /\ Settled(s, cell[k].data)

Fresh(r) ==
  \/ reply[r].data \in seen[r]
  \/ /\ how[r] = "joined"
     /\ \E s \in Readers \ past[r] :
          joined[s] = joined[r] /\ pc[s] = "done" /\ how[s] = "loaded" /\ reply[r].data \in seen[s]

ServedFresh == \A r \in Readers : pc[r] = "done" /\ reply[r].code = "ok" => Fresh(r)

Shared == Past /\ Contemporary /\ FlightsAreOpen /\ ReadyCellsAreSettled /\ ServedFresh

-----------------------------------------------------------------------------

LEMMA AnswerEffect ==
  ASSUME Base, NEW r \in Readers, NEW code, NEW data, NEW by, Answer(r, code, data, by)
  PROVE  /\ pc'[r] = "done" /\ reply'[r].code = code /\ reply'[r].data = data /\ how'[r] = by
  <1> DEFINE a == [code |-> code, data |-> data]
  <1>1. reply' = [reply EXCEPT ![r] = a] /\ a.code = code /\ a.data = data
    BY DEF Answer
  <1> HIDE DEF a
  <1> QED
    BY <1>1 DEF Answer, Base, Kept, CellInv, Shape

(* How a step of a call treats the cells.                                  *)
LEMMA CellEffect ==
  ASSUME Base, NEW r \in Readers, Progress(r)
  PROVE  \/ UNCHANGED <<cell, inflight, joined>>
         \/ Claim(r) \/ TakeCell(r) \/ Store(r) \/ Clear(r)
  <1>1. CASE Get(r) \/ Peek(r) \/ OpenResident(r) \/ CompareBytes(r) \/ ConfirmResident(r)
    BY <1>1 DEF Get, Peek, OpenResident, CompareBytes, ConfirmResident, shardVars
  <1>2. CASE GiveUp(r) \/ Refresh(r) \/ Restat(r) \/ Load(r)
    BY <1>2 DEF GiveUp, Refresh, Restat, Load, shardVars
  <1> QED
    BY <1>1, <1>2 DEF Progress

(* A call that joins, joins calls that have not returned.                  *)
LEMMA ClaimEffect ==
  ASSUME Base, NEW r \in Readers, Claim(r)
  PROVE  /\ pc[r] = "claim" /\ joined[r] = None /\ path[r] \in Paths /\ UNCHANGED cell
         /\ \/ /\ UNCHANGED <<inflight, joined>> /\ pc'[r] = "done"
               /\ Proven(map[path[r]], stamp[r])
               /\ reply'[r].data = map[path[r]].data
            \/ /\ pc'[r] = "wait" /\ \A s \in Readers \ {r} : joined'[s] = joined[s]
               /\ \A q \in Paths \ {path[r]} : inflight'[q] = inflight[q]
               /\ inflight'[path[r]] = joined'[r] /\ joined'[r] \in Readers
               /\ \/ joined'[r] = inflight[path[r]]
                  \/ \A s \in Readers : joined[s] # joined'[r]
  <1>1. pc[r] = "claim" /\ joined[r] = None /\ path[r] \in Paths /\ UNCHANGED cell
    BY DEF Claim, Base, CellInv, Shape, Early
  <1>2. \A s \in Readers : joined[s] # r
    BY <1>1 DEF Base, CellInv, OwnCellIsFresh, Early
  <1>3. CASE /\ Proven(map[path[r]], stamp[r])
             /\ Answer(r, "ok", map[path[r]].data, "hit")
             /\ UNCHANGED <<shardVars, joined>>
    BY <1>1, <1>3, AnswerEffect DEF shardVars
  <1>4. ASSUME NEW k, k = IF inflight[path[r]] = None THEN r ELSE inflight[path[r]],
               inflight' = [inflight EXCEPT ![path[r]] = k],
               joined' = [joined EXCEPT ![r] = k],
               pc' = [pc EXCEPT ![r] = "wait"]
        PROVE  /\ pc'[r] = "wait" /\ \A s \in Readers \ {r} : joined'[s] = joined[s]
               /\ \A q \in Paths \ {path[r]} : inflight'[q] = inflight[q]
               /\ inflight'[path[r]] = joined'[r] /\ joined'[r] \in Readers
               /\ \/ joined'[r] = inflight[path[r]]
                  \/ \A s \in Readers : joined[s] # joined'[r]
    BY <1>1, <1>2, <1>4 DEF Base, CellInv, Shape
  <1> QED
    BY <1>1, <1>3, <1>4 DEF Claim

(* What a call answers.                                                    *)
LEMMA DoneEffect ==
  ASSUME Base, NEW r \in Readers, Progress(r), pc'[r] = "done"
  PROVE  \/ /\ pc[r] \in {"get", "claim"} /\ Proven(map[path[r]], stamp[r]) /\ joined[r] = None
            /\ UNCHANGED <<cell, inflight, joined>> /\ reply'[r].data = map[path[r]].data
         \/ /\ pc[r] = "refresh" /\ reply'[r].data = resident[r].data /\ joined[r] = None
            /\ UNCHANGED <<cell, inflight, joined>>
         \/ /\ TakeCell(r) /\ cell[joined[r]].holder = None
            /\ UNCHANGED <<cell, inflight, joined>> /\ how'[r] = "joined"
            /\ \/ cell[joined[r]].state = "ready" /\ reply'[r].data = cell[joined[r]].data
               \/ cell[joined[r]].state = "failed" /\ reply'[r].code = "io"
         \/ /\ Clear(r) /\ how'[r] = "loaded"
            /\ reply'[r].code = "ok" => result[r].code = "ok" /\ reply'[r].data = result[r].data
  <1> USE DEF Base, CellInv, Shape, Goto, shardVars
  <1>1. CASE Get(r)
    <2>1. CASE Proven(map[path[r]], stamp[r]) /\ Answer(r, "ok", map[path[r]].data, "hit") /\ pc[r] = "get"
      BY <1>1, <2>1, AnswerEffect DEF Get, Early
    <2> QED
      BY <1>1, <2>1 DEF Get
  <1>2. CASE Refresh(r)
    BY <1>2, AnswerEffect DEF Refresh, Early
  <1>3. CASE Claim(r)
    BY <1>3, ClaimEffect
  <1>4. CASE TakeCell(r)
    <2>1. CASE cell[joined[r]].state = "ready" /\ Answer(r, "ok", cell[joined[r]].data, "joined") /\ UNCHANGED cell
      BY <1>4, <2>1, AnswerEffect DEF TakeCell
    <2>2. CASE cell[joined[r]].state = "failed" /\ Answer(r, "io", None, "joined") /\ UNCHANGED cell
      BY <1>4, <2>2, AnswerEffect DEF TakeCell
    <2> QED
      BY <1>4, <2>1, <2>2 DEF TakeCell
  <1>5. CASE Clear(r)
    BY <1>5, AnswerEffect DEF Clear
  <1>6. CASE Peek(r) \/ OpenResident(r) \/ CompareBytes(r) \/ ConfirmResident(r) \/ GiveUp(r)
    BY <1>6 DEF Peek, OpenResident, CompareBytes, ConfirmResident, GiveUp
  <1>7. CASE Restat(r) \/ Load(r) \/ Store(r)
    BY <1>7 DEF Restat, Load, Store
  <1> QED
    BY <1>1, <1>2, <1>3, <1>4, <1>5, <1>6, <1>7 DEF Progress

(* Steps that touch no cell, end no call and take nothing from its seen.   *)
LEMMA SharedIdle ==
  ASSUME Shared, Base, UNCHANGED <<cell, pc, joined, reply, how, past>>,
         \A p \in Paths : inflight'[p] \in {inflight[p], None},
         \A s \in Readers : seen[s] \subseteq seen'[s]
  PROVE  Shared'
  <1>1. Past' /\ Contemporary' /\ FlightsAreOpen'
    BY DEF Shared, Past, Contemporary, FlightsAreOpen
  <1>2. ReadyCellsAreSettled'
    BY DEF Shared, ReadyCellsAreSettled, Settled
  <1>3. ServedFresh'
    BY DEF Shared, ServedFresh, Fresh
  <1> QED
    BY <1>1, <1>2, <1>3 DEF Shared

LEMMA SharedCalls ==
  ASSUME Shared, Base, NEW r \in Readers, NEW p \in Paths, Call(r, p)
  PROVE  Shared'
  <1>1. /\ pc[r] = "idle" /\ pc' = [pc EXCEPT ![r] = pc'[r]] /\ pc'[r] \in {"peek", "get"}
        /\ UNCHANGED <<inflight, cell, joined, reply, how>>
        /\ past' = [past EXCEPT ![r] = {s \in Readers : pc[s] = "done"}]
        /\ \A s \in Readers \ {r} : seen'[s] = seen[s]
    BY DEF Call, Goto, Base, CellInv, Shape, Kept, shardVars
  <1>2. joined[r] = None /\ \A s \in Readers \ {r} : pc'[s] = pc[s] /\ past'[s] = past[s]
    BY <1>1 DEF Base, CellInv, Shape, Early, Kept
  <1>3. past'[r] = {s \in Readers : pc[s] = "done"} /\ past[r] \in SUBSET Readers
    BY <1>1 DEF Base, Kept
  <1>4. Past' /\ Contemporary' /\ FlightsAreOpen'
    BY <1>1, <1>2, <1>3 DEF Shared, Past, Contemporary, FlightsAreOpen
  <1>5. ReadyCellsAreSettled'
    BY <1>1, <1>2 DEF Shared, ReadyCellsAreSettled, Settled
  <1>6. ServedFresh'
    <2> SUFFICES ASSUME NEW s \in Readers, pc'[s] = "done", reply'[s].code = "ok"
                 PROVE  Fresh(s)'
      BY DEF ServedFresh
    <2>1. s # r /\ Fresh(s)
      BY <1>1, <1>2 DEF Shared, ServedFresh
    <2> QED
      BY <1>1, <1>2, <2>1 DEF Fresh
  <1> QED
    BY <1>4, <1>5, <1>6 DEF Shared

(* The bytes of a ready cell are those its loader stored.                  *)
LEMMA ReadyEffect ==
  ASSUME Base, NEW r \in Readers, Progress(r), NEW k \in Readers, cell'[k].state = "ready"
  PROVE  \/ cell[k].state = "ready" /\ cell'[k].data = cell[k].data
         \/ /\ pc[r] = "store" /\ pc'[r] = "clear" /\ k = joined[r]
            /\ result[r].code = "ok" /\ cell'[k].data = result[r].data
            /\ UNCHANGED joined
  <1> DEFINE j == joined[r]
  <1>1. DOMAIN cell = Readers /\ cell[k] \in Cell
    BY DEF Base, Kept
  <1>2. CASE TakeCell(r) \/ Clear(r)
    <2>1. CASE UNCHANGED cell
      BY <2>1
    <2>2. ASSUME NEW h, cell' = [cell EXCEPT ![j].holder = h]
          PROVE  cell[k].state = "ready" /\ cell'[k].data = cell[k].data
      <3>1. CASE k # j
        BY <1>1, <2>2, <3>1
      <3>2. CASE k = j
        <4>1. cell'[k] = [cell[k] EXCEPT !.holder = h]
          BY <1>1, <2>2, <3>2
        <4> QED
          BY <1>1, <4>1 DEF Cell
      <3> QED
        BY <3>1, <3>2
    <2> QED
      BY <1>2, <2>1, <2>2 DEF TakeCell, Clear
  <1>3. CASE Store(r)
    <2>1. pc[r] = "store" /\ pc'[r] = "clear" /\ UNCHANGED joined /\ j \in Readers
      BY <1>3 DEF Store, Goto, Base, CellInv, Shape, Loading
    <2>2. CASE k # j
      BY <1>1, <1>3, <2>2 DEF Store
    <2>3. CASE k = j /\ cell' = [cell EXCEPT ![j].state = "failed"]
      <3>1. cell'[k] = [cell[k] EXCEPT !.state = "failed"]
        BY <1>1, <2>3
      <3> QED
        BY <1>1, <3>1 DEF Cell
    <2>4. CASE /\ k = j /\ result[r].code = "ok"
               /\ cell' = [cell EXCEPT ![j].state = "ready", ![j].data = result[r].data]
      <3> DEFINE b == [cell[k] EXCEPT !.state = "ready"]
                 c == [b EXCEPT !.data = result[r].data]
      <3>1. cell' = [[cell EXCEPT ![k] = b] EXCEPT ![k] = c]
        BY <1>1, <2>4, CellTwice
      <3>2. b.data = cell[k].data /\ c.data = result[r].data
        BY <1>1 DEF Cell
      <3> HIDE DEF b, c
      <3>3. cell'[k] = c
        BY <1>1, <3>1
      <3> QED
        BY <2>1, <2>4, <3>2, <3>3
    <2> QED
      BY <1>3, <2>2, <2>3, <2>4 DEF Store
  <1>4. CASE Claim(r) \/ UNCHANGED <<cell, inflight, joined>>
    BY <1>4, ClaimEffect
  <1> QED
    BY <1>2, <1>3, <1>4, CellEffect

(* A call that returns from a cell leaves none in flight.                  *)
LEMMA FlightsProgress ==
  ASSUME Shared, Base, NEW r \in Readers, Progress(r)
  PROVE  FlightsAreOpen'
  <1> SUFFICES ASSUME NEW p \in Paths, NEW s \in Readers, inflight'[p] # None,
                      joined'[s] = inflight'[p], pc'[s] = "done"
               PROVE  FALSE
    BY DEF FlightsAreOpen
  <1>0. pc[r] \in Running /\ path[r] \in Paths /\ pc' = [pc EXCEPT ![r] = pc'[r]]
    BY ProgressPlaces
  <1>1. CASE s # r
    <2>1. joined[s] = joined'[s] /\ pc[s] = "done"
      BY <1>1, OthersKeep DEF Same, Base
    <2>2. CASE inflight'[p] = inflight[p]
      BY <2>1, <2>2 DEF Shared, FlightsAreOpen
    <2>3. CASE Claim(r)
      BY <1>1, <2>1, <2>2, <2>3, ClaimEffect DEF Shared, FlightsAreOpen
    <2>4. CASE TakeCell(r) \/ Store(r) \/ Clear(r)
      BY <1>0, <2>2, <2>4 DEF TakeCell, Store, Clear, shardVars, Base, CellInv, Shape
    <2> QED
      BY <2>2, <2>3, <2>4, CellEffect
  <1>2. CASE s = r
    <2>1. CASE Clear(r)
      <3>1. pc[r] = "clear" /\ joined'[r] = joined[r] /\ inflight' = [inflight EXCEPT ![path[r]] = None]
        BY <2>1 DEF Clear
      <3>2. p # path[r] /\ inflight[p] = inflight'[p]
        BY <1>0, <3>1 DEF Base, CellInv, Shape
      <3> QED
        BY <1>2, <3>1, <3>2 DEF Base, CellInv, FlightsAreManned
    <2>2. CASE TakeCell(r) /\ ~Clear(r)
      <3>1. /\ cell[joined[r]].holder = None /\ cell[joined[r]].state # "pending"
            /\ UNCHANGED <<inflight, joined>>
        BY <1>2, <2>2, DoneEffect DEF TakeCell
      <3>2. PICK u \in Readers : Loading(u) /\ joined[u] = joined[r]
        BY <1>2, <3>1 DEF Base, CellInv, FlightsAreManned
      <3> QED
        BY <3>1, <3>2, CacheAssumption DEF Base, CellInv, LoadersHold
    <2> QED
      BY <1>2, <2>1, <2>2, DoneEffect
  <1> QED
    BY <1>1, <1>2

(* A call joins only calls that run, and runs itself.                      *)
LEMMA ContemporaryProgress ==
  ASSUME Shared, Base, NEW r \in Readers, Progress(r)
  PROVE  Contemporary'
  <1>0. past' = past /\ pc[r] # "done" /\ \A s \in Readers : r \notin past[s]
    BY ProgressKeeps, ProgressPlaces DEF Running, Shared, Past
  <1>1. CASE UNCHANGED joined
    BY <1>0, <1>1 DEF Shared, Contemporary
  <1>2. CASE Claim(r)
    <2> SUFFICES ASSUME ~UNCHANGED joined, NEW x \in Readers, NEW y \in Readers,
                        joined'[x] # None, joined'[y] = joined'[x], y \in past[x]
                 PROVE  FALSE
      BY <1>0, <1>1 DEF Contemporary
    <2>1. /\ path[r] \in Paths
          /\ \A s \in Readers \ {r} : joined'[s] = joined[s]
          /\ joined'[r] \in Readers
          /\ \/ joined'[r] = inflight[path[r]]
             \/ \A s \in Readers : joined[s] # joined'[r]
      BY <1>2, ClaimEffect
    <2>2. y # r
      BY <1>0
    <2>3. CASE x # r
      BY <2>1, <2>2, <2>3 DEF Shared, Contemporary
    <2>4. CASE x = r
      <3>1. joined[y] = inflight[path[r]] /\ inflight[path[r]] # None
        BY <2>1, <2>2, <2>4, CacheAssumption
      <3>2. pc[y] # "done"
        BY <2>1, <3>1 DEF Shared, FlightsAreOpen
      <3> QED
        BY <3>2 DEF Shared, Past
    <2> QED
      BY <2>3, <2>4
  <1>3. CASE TakeCell(r) \/ Store(r) \/ Clear(r)
    BY <1>1, <1>3 DEF TakeCell, Store, Clear
  <1> QED
    BY <1>1, <1>2, <1>3, CellEffect

LEMMA ReadyProgress ==
  ASSUME Shared, Timed, NEW r \in Readers, Progress(r)
  PROVE  ReadyCellsAreSettled'
  <1>0. seen' = seen /\ pc[r] # "done" /\ \A s \in Readers \ {r} : Same(s)
    BY ProgressKeeps, ProgressPlaces, OthersKeep DEF Timed, Base, Running
  <1> SUFFICES ASSUME NEW k \in Readers, cell'[k].state = "ready"
               PROVE  \E s \in Readers : joined'[s] = k /\ Settled(s, cell[k].data)'
    BY DEF ReadyCellsAreSettled
  <1>1. CASE cell[k].state = "ready" /\ cell'[k].data = cell[k].data
    <2>1. PICK s \in Readers : joined[s] = k /\ Settled(s, cell[k].data)
      BY <1>1 DEF Shared, ReadyCellsAreSettled
    <2>2. CASE s # r
      BY <1>0, <1>1, <2>1, <2>2 DEF Same, Settled
    <2>3. CASE s = r
      <3>1. pc[r] = "clear"
        BY <1>0, <2>1, <2>3 DEF Settled
      <3>2. Clear(r)
        BY <3>1 DEF Progress, Get, Peek, OpenResident, CompareBytes, ConfirmResident, GiveUp,
                    Refresh, Restat, Claim, TakeCell, Load, Store, Goto
      <3>3. pc'[r] = "done" /\ how'[r] = "loaded" /\ joined' = joined
        BY <3>2, AnswerEffect DEF Clear, Timed
      <3> QED
        BY <1>0, <1>1, <2>1, <2>3, <3>3 DEF Settled
    <2> QED
      BY <2>2, <2>3
  <1>2. CASE /\ pc[r] = "store" /\ pc'[r] = "clear" /\ k = joined[r]
             /\ result[r].code = "ok" /\ cell'[k].data = result[r].data
             /\ UNCHANGED joined
    BY <1>0, <1>2 DEF Settled, Timed, Sees, Sees1
  <1> QED
    BY <1>1, <1>2, ReadyEffect DEF Timed

LEMMA ServedProgress ==
  ASSUME Shared, Timed, NEW t \in Truths, Truthful(t), NEW r \in Readers, Progress(r)
  PROVE  ServedFresh'
  <1>0. /\ UNCHANGED <<path, seen, past>> /\ pc[r] # "done" /\ path[r] \in Paths
        /\ \A s \in Readers \ {r} : Same(s)
    BY ProgressKeeps, ProgressPlaces, OthersKeep DEF Timed, Base, Running
  <1>1. \A s \in Readers : pc[s] = "done" => s # r /\ Same(s)
    BY <1>0
  <1> SUFFICES ASSUME NEW s \in Readers, pc'[s] = "done", reply'[s].code = "ok"
               PROVE  Fresh(s)'
    BY DEF ServedFresh
  <1>2. CASE s # r
    <2>1. pc[s] = "done" /\ Same(s) /\ Fresh(s)
      BY <1>0, <1>2 DEF Same, Shared, ServedFresh
    <2> QED
      BY <1>0, <1>1, <2>1 DEF Same, Fresh
  <1>3. CASE s = r
    <2>1. CASE /\ pc[r] \in {"get", "claim"} /\ Proven(map[path[r]], stamp[r])
               /\ reply'[r].data = map[path[r]].data
      <3>1. /\ t[path[r]][stamp[r].ino][stamp[r].ctime] = map[path[r]].data
            /\ map[path[r]].data \in Contents
        BY <1>0, <2>1, ProvenIsTrue
      <3>2. map[path[r]].data \in seen[r] \cup {None}
        BY <2>1, <3>1 DEF Proven, Truthful, Looks
      <3> QED
        BY <1>0, <1>3, <2>1, <3>1, <3>2, StampAssumption DEF Fresh
    <2>2. CASE pc[r] = "refresh" /\ reply'[r].data = resident[r].data
      BY <1>0, <1>3, <2>2 DEF Fresh, Timed, Sees, Sees1
    <2>3. CASE /\ TakeCell(r) /\ cell[joined[r]].holder = None
               /\ UNCHANGED <<cell, inflight, joined>> /\ how'[r] = "joined"
               /\ cell[joined[r]].state = "ready" /\ reply'[r].data = cell[joined[r]].data
      <3>1. joined[r] \in Readers
        BY <2>3 DEF TakeCell, Timed, Base, CellInv, Shape, Waiting
      <3>2. PICK x \in Readers : joined[x] = joined[r] /\ Settled(x, cell[joined[r]].data)
        BY <2>3, <3>1 DEF Shared, ReadyCellsAreSettled
      <3>3. pc[x] # "clear"
        BY <2>3, <3>2, CacheAssumption DEF Timed, Base, CellInv, LoadersHold, Loading
      <3>4. pc[x] = "done" /\ how[x] = "loaded" /\ cell[joined[r]].data \in seen[x]
        BY <3>2, <3>3 DEF Settled
      <3>5. x \notin past[r]
        BY <3>1, <3>2, CacheAssumption DEF Shared, Contemporary
      <3>6. Same(x)
        BY <1>1, <3>4
      <3> QED
        BY <1>0, <1>3, <2>3, <3>2, <3>4, <3>5, <3>6 DEF Same, Fresh
    <2>4. CASE /\ Clear(r) /\ result[r].code = "ok" /\ reply'[r].data = result[r].data
      BY <1>0, <1>3, <2>4 DEF Fresh, Clear, Timed, Sees, Sees1
    <2> QED
      BY <1>3, <2>1, <2>2, <2>3, <2>4, DoneEffect DEF Timed
  <1> QED
    BY <1>2, <1>3

LEMMA SharedStep ==
  ASSUME Shared, Timed, NEW t \in Truths, Truthful(t), [Next]_vars
  PROVE  Shared'
  <1>1. ASSUME NEW r \in Readers, Progress(r)
        PROVE  Shared'
    <2>1. Past'
      BY <1>1, ProgressKeeps, ProgressPlaces, OthersKeep
         DEF Shared, Past, Timed, Base, Same, Running
    <2> QED
      BY <1>1, <2>1, ContemporaryProgress, FlightsProgress, ReadyProgress, ServedProgress
         DEF Shared, Timed
  <1>2. ASSUME NEW r \in Readers, NEW p \in Paths, Call(r, p)
        PROVE  Shared'
    BY <1>2, SharedCalls DEF Timed
  <1>3. CASE SomeChange
    BY <1>3, SharedIdle DEF SomeChange, Changes, Timed
  <1>4. ASSUME NEW u \in Publishers, PublishInsert(u)
        PROVE  Shared'
    BY <1>4, SharedIdle DEF PublishInsert, readerVars, Timed
  <1>5. ASSUME NEW p \in Paths, Invalidate(p)
        PROVE  Shared'
    BY <1>5, SharedIdle DEF Invalidate, readerVars, Timed, Base, CellInv, Shape
  <1>6. CASE Tick \/ UNCHANGED vars
    BY <1>6, SharedIdle DEF Tick, vars, readerVars, shardVars, Timed
  <1> QED
    BY <1>1, <1>2, <1>3, <1>4, <1>5, <1>6, StepKinds DEF Timed

(* No call is served bytes older than itself, unless it joined the load of *)
(* a call that was still running when it began (cache.rs get_or_load), for *)
(* any calls, publishers and changes of the files.                         *)
THEOREM CallsAreServedFresh ==
  ASSUME Prompt
  PROVE  Spec => []ServesAreFresh
  <1>1. Init => Shared
    BY DEF Init, Shared, Past, Contemporary, FlightsAreOpen, ReadyCellsAreSettled, ServedFresh
  <1>2. Knowing /\ Shared /\ [Next]_vars => Shared'
    BY SharedStep DEF Knowing
  <1>3. Shared => ServesAreFresh
    BY DEF Shared, ServedFresh, Fresh, ServesAreFresh
  <1> QED
    BY <1>1, <1>2, <1>3, KnowingHolds, PTL DEF Spec

-----------------------------------------------------------------------------
(* Sums over finite sets, by well-founded induction on the subsets of a    *)
(* set, with the property of a subset given as the set that has it.        *)

LEMMA SubsetInduction ==
  ASSUME NEW S, IsFiniteSet(S), NEW G,
         \A T \in SUBSET S : (\A U \in SUBSET T : U # T => U \in G) => T \in G
  PROVE  \A T \in SUBSET S : T \in G
  <1> DEFINE Bad == {T \in SUBSET S : T \notin G}
  <1> SUFFICES ASSUME Bad # {} PROVE FALSE
    OBVIOUS
  <1>1. IsWellFoundedOn(StrictSubsetOrdering(S), FiniteSubsetsOf(S))
    BY FS_StrictSubsetOrderingWellFounded
  <1>2. Bad \subseteq FiniteSubsetsOf(S)
    BY FS_FiniteSubsetsOfFinite
  <1>3. PICK T \in Bad : \A U \in Bad : <<U, T>> \notin StrictSubsetOrdering(S)
    <2> HIDE DEF Bad
    <2> QED BY <1>1, <1>2, WFMin
  <1>4. \A U \in SUBSET T : U # T => <<U, T>> \in StrictSubsetOrdering(S)
    BY DEF StrictSubsetOrdering
  <1>5. T \in SUBSET S /\ T \notin G
    OBVIOUS
  <1>6. PICK U \in SUBSET T : U # T /\ U \notin G
    BY <1>5
  <1>7. U \in Bad
    BY <1>5, <1>6
  <1> QED
    BY <1>3, <1>4, <1>6, <1>7

(* The element the folds of the community modules take next.               *)
Pick(T) == CHOOSE x \in T : TRUE

(* f sums the weights w over every subset of S, one picked element at a    *)
(* time.                                                                   *)
Sums(f, w, S) ==
  \A T \in SUBSET S : f[T] = IF T = {} THEN 0 ELSE w[Pick(T)] + f[T \ {Pick(T)}]

(* There is one such f ...                                                 *)
LEMMA SumsAgree ==
  ASSUME NEW S, IsFiniteSet(S), NEW w, NEW f, NEW g, NEW R, NEW Q,
         Sums(f, w, R), Sums(g, w, Q), S \subseteq R, S \subseteq Q
  PROVE  f[S] = g[S]
  <1> DEFINE G == {T \in SUBSET S : f[T] = g[T]}
  <1>1. ASSUME NEW T \in SUBSET S, \A U \in SUBSET T : U # T => U \in G
        PROVE  T \in G
    <2>1. T # {} => T \ {Pick(T)} \in SUBSET T /\ T \ {Pick(T)} # T
      BY DEF Pick
    <2>2. T # {} => f[T \ {Pick(T)}] = g[T \ {Pick(T)}]
      BY <1>1, <2>1
    <2>3. f[T] = IF T = {} THEN 0 ELSE w[Pick(T)] + f[T \ {Pick(T)}]
      BY DEF Sums
    <2>4. g[T] = IF T = {} THEN 0 ELSE w[Pick(T)] + g[T \ {Pick(T)}]
      BY DEF Sums
    <2> QED
      BY <2>2, <2>3, <2>4
  <1>2. \A T \in SUBSET S : T \in G
    <2> HIDE DEF G
    <2> QED BY <1>1, SubsetInduction
  <1> QED
    BY <1>2

(* ... at least.                                                           *)
LEMMA SumsExist ==
  ASSUME NEW S, IsFiniteSet(S), NEW w \in [S -> Int]
  PROVE  \E f \in [SUBSET S -> Int] : Sums(f, w, S)
  <1> DEFINE G == {T \in SUBSET S : \E f \in [SUBSET T -> Int] : Sums(f, w, T)}
  <1>1. ASSUME NEW T \in SUBSET S, \A U \in SUBSET T : U # T => U \in G
        PROVE  T \in G
    <2> DEFINE F(U) == CHOOSE f \in [SUBSET U -> Int] : Sums(f, w, U)
               g == [U \in SUBSET T |->
                       IF U = {} THEN 0
                       ELSE w[Pick(U)] + F(U \ {Pick(U)})[U \ {Pick(U)}]]
    <2>1. ASSUME NEW U \in SUBSET T, U # T
          PROVE  F(U) \in [SUBSET U -> Int] /\ Sums(F(U), w, U)
      <3>1. U \in G
        BY <1>1, <2>1
      <3>2. \E f \in [SUBSET U -> Int] : Sums(f, w, U)
        BY <3>1
      <3> QED
        BY <3>2
    <2> HIDE DEF F
    <2>2. ASSUME NEW U \in SUBSET T, U # {}
          PROVE  /\ U \ {Pick(U)} \in SUBSET T /\ U \ {Pick(U)} # T
                 /\ U \ {Pick(U)} \subseteq U /\ U \ {Pick(U)} # U
                 /\ w[Pick(U)] \in Int
      BY <2>2 DEF Pick
    <2>3. g \in [SUBSET T -> Int]
      <3>1. ASSUME NEW U \in SUBSET T, U # {}
            PROVE  F(U \ {Pick(U)})[U \ {Pick(U)}] \in Int
        <4> DEFINE V == U \ {Pick(U)}
        <4>1. V \in SUBSET T /\ V # T
          BY <2>2, <3>1
        <4>2. F(V) \in [SUBSET V -> Int]
          BY <2>1, <4>1
        <4> QED
          BY <4>2
      <3> QED
        BY <2>2, <3>1
    <2>4. ASSUME NEW U \in SUBSET T, U # T PROVE g[U] = F(U)[U]
      <3>1. F(U) \in [SUBSET U -> Int] /\ Sums(F(U), w, U)
        BY <2>1, <2>4
      <3>2. F(U)[U] = IF U = {} THEN 0 ELSE w[Pick(U)] + F(U)[U \ {Pick(U)}]
        BY <3>1 DEF Sums
      <3>3. CASE U = {}
        BY <3>2, <3>3
      <3>4. CASE U # {}
        <4> DEFINE V == U \ {Pick(U)}
        <4>1. V \in SUBSET T /\ V # T /\ V \subseteq U /\ V \in SUBSET S
          BY <2>2, <3>4
        <4>2. Sums(F(V), w, V)
          BY <2>1, <4>1
        <4>3. IsFiniteSet(V)
          BY <4>1, FS_Subset
        <4>4. F(U)[V] = F(V)[V]
          <5> HIDE DEF V
          <5> QED BY <3>1, <4>1, <4>2, <4>3, SumsAgree
        <4> QED
          BY <3>2, <3>4, <4>4
      <3> QED
        BY <3>3, <3>4
    <2>5. ASSUME NEW U \in SUBSET T
          PROVE  g[U] = IF U = {} THEN 0 ELSE w[Pick(U)] + g[U \ {Pick(U)}]
      BY <2>2, <2>4
    <2>6. Sums(g, w, T)
      <3> HIDE DEF g
      <3> QED BY <2>5 DEF Sums
    <2> QED
      BY <2>3, <2>6
  <1>2. \A T \in SUBSET S : T \in G
    <2> HIDE DEF G
    <2> QED BY <1>1, SubsetInduction
  <1> QED
    BY <1>2

(* The sum of the weights w over S, as the model takes it.                 *)
Sum(w, S) == MapThenSumSet(LAMBDA x : w[x], S)

LEMMA SumIs ==
  ASSUME NEW S, IsFiniteSet(S), NEW w \in [S -> Int], NEW T \in SUBSET S, 
         NEW f, Sums(f, w, S)
  PROVE  Sum(w, T) = f[T]
  <1> DEFINE Body(iter) ==
        [s \in SUBSET T |-> IF s = {} THEN 0 ELSE w[Pick(s)] + iter[s \ {Pick(s)}]]
      iter == CHOOSE iter : iter = Body(iter)
  <1>1. Sum(w, T) = iter[T]
    BY DEF Sum, MapThenSumSet, MapThenFoldSet, Pick
  <1>2. \E h : h = Body(h)
    <2> DEFINE h == [s \in SUBSET T |-> f[s]]
    <2>1. ASSUME NEW s \in SUBSET T PROVE h[s] = Body(h)[s]
      <3>1. s # {} => s \ {Pick(s)} \in SUBSET T
        OBVIOUS
      <3>2. f[s] = IF s = {} THEN 0 ELSE w[Pick(s)] + f[s \ {Pick(s)}]
        BY DEF Sums
      <3> QED
        BY <3>1, <3>2
    <2>2. h = Body(h)
      BY <2>1
    <2> QED
      BY <2>2
  <1>3. iter = Body(iter)
    <2> HIDE DEF Body
    <2> QED BY <1>2
  <1>4. Sums(iter, w, T)
    <2> SUFFICES ASSUME NEW U \in SUBSET T
                 PROVE  iter[U] = IF U = {} THEN 0 ELSE w[Pick(U)] + iter[U \ {Pick(U)}]
      BY DEF Sums
    <2> HIDE DEF iter
    <2> QED BY <1>3
  <1>5. IsFiniteSet(T)
    BY FS_Subset
  <1> HIDE DEF iter
  <1> QED
    BY <1>1, <1>4, <1>5, SumsAgree

LEMMA SumType ==
  ASSUME NEW S, IsFiniteSet(S), NEW w \in [S -> Int]
  PROVE  /\ Sum(w, {}) = 0
         /\ \A T \in SUBSET S : Sum(w, T) \in Int
  <1>1. PICK f \in [SUBSET S -> Int] : Sums(f, w, S)
    BY SumsExist
  <1>2. \A T \in SUBSET S : Sum(w, T) = f[T]
    BY <1>1, SumIs
  <1>3. f[{}] = 0
    BY <1>1 DEF Sums
  <1> QED
    BY <1>2, <1>3

(* Any element may be the one that is added last.                          *)
LEMMA SumTake ==
  ASSUME NEW S, IsFiniteSet(S), NEW w \in [S -> Int],
         NEW T \in SUBSET S, NEW x \in T
  PROVE  Sum(w, T) = w[x] + Sum(w, T \ {x})
  <1>1. PICK f \in [SUBSET S -> Int] : Sums(f, w, S)
    BY SumsExist
  <1> DEFINE G == {U \in SUBSET S : \A z \in U : f[U] = w[z] + f[U \ {z}]}
  <1>2. ASSUME NEW V \in SUBSET S, \A U \in SUBSET V : U # V => U \in G
        PROVE  V \in G
    <2> SUFFICES ASSUME NEW z \in V PROVE f[V] = w[z] + f[V \ {z}]
      OBVIOUS
    <2> DEFINE y == Pick(V)
               Vy == V \ {y}
               Vz == V \ {z}
    <2>1. y \in V /\ f[V] = w[y] + f[Vy]
      BY <1>1 DEF Sums, Pick
    <2>2. CASE y = z
      BY <2>1, <2>2
    <2>3. CASE y # z
      <3> HIDE DEF y
      <3>1. Vy \in G /\ z \in Vy /\ Vz \in G /\ y \in Vz /\ Vy \ {z} = Vz \ {y}
        BY <1>2, <2>1, <2>3
      <3>2. f[Vy] = w[z] + f[Vy \ {z}] /\ f[Vz] = w[y] + f[Vz \ {y}]
        BY <3>1
      <3>3. w[y] \in Int /\ w[z] \in Int /\ f[Vy \ {z}] \in Int
        BY <2>1
      <3> QED
        BY <2>1, <3>1, <3>2, <3>3
    <2> QED
      BY <2>2, <2>3
  <1>3. \A V \in SUBSET S : V \in G
    <2> HIDE DEF G
    <2> QED BY <1>2, SubsetInduction
  <1> QED
    BY <1>1, <1>3, SumIs

LEMMA SumsOfEqualWeights ==
  ASSUME NEW S, IsFiniteSet(S), NEW w \in [S -> Int], NEW v \in [S -> Int],
         NEW T \in SUBSET S, \A x \in T : w[x] = v[x]
  PROVE  Sum(w, T) = Sum(v, T)
  <1> DEFINE G == {U \in SUBSET T : Sum(w, U) = Sum(v, U)}
  <1>1. ASSUME NEW U \in SUBSET T, \A V \in SUBSET U : V # U => V \in G
        PROVE  U \in G
    <2>1. CASE U = {}
      BY <2>1, SumType
    <2>2. CASE U # {}
      <3>1. PICK x \in U : TRUE
        BY <2>2
      <3>2. U \ {x} \in G
        BY <1>1
      <3>3. Sum(w, U) = w[x] + Sum(w, U \ {x}) /\ Sum(v, U) = v[x] + Sum(v, U \ {x})
        BY SumTake
      <3> QED
        BY <3>2, <3>3
    <2> QED
      BY <2>1, <2>2
  <1>2. IsFiniteSet(T)
    BY FS_Subset
  <1>3. \A U \in SUBSET T : U \in G
    <2> HIDE DEF G
    <2> QED BY <1>1, <1>2, SubsetInduction
  <1> QED
    BY <1>3

LEMMA SumOfNaturals ==
  ASSUME NEW S, IsFiniteSet(S), NEW w \in [S -> Nat], NEW T \in SUBSET S
  PROVE  Sum(w, T) \in Nat
  <1> DEFINE G == {U \in SUBSET S : Sum(w, U) \in Nat}
  <1>1. ASSUME NEW U \in SUBSET S, \A V \in SUBSET U : V # U => V \in G
        PROVE  U \in G
    <2>1. CASE U = {}
      BY <2>1, SumType
    <2>2. CASE U # {}
      <3>1. PICK x \in U : TRUE
        BY <2>2
      <3>2. U \ {x} \in G
        BY <1>1
      <3>3. Sum(w, U) = w[x] + Sum(w, U \ {x})
        BY SumTake
      <3> QED
        BY <3>2, <3>3
    <2> QED
      BY <2>1, <2>2
  <1>2. \A U \in SUBSET S : U \in G
    <2> HIDE DEF G
    <2> QED BY <1>1, SubsetInduction
  <1> QED
    BY <1>2

(* What is taken out of a sum, and what is left.                           *)
LEMMA SumSplit ==
  ASSUME NEW S, IsFiniteSet(S), NEW w \in [S -> Int], NEW E \in SUBSET S
  PROVE  Sum(w, S) = Sum(w, E) + Sum([x \in S |-> IF x \in E THEN 0 ELSE w[x]], S)
  <1> DEFINE rest == [x \in S |-> IF x \in E THEN 0 ELSE w[x]]
             G == {U \in SUBSET S : Sum(w, U) = Sum(w, U \cap E) + Sum(rest, U)}
  <1>0. /\ rest \in [S -> Int]
        /\ \A x \in S : rest[x] = IF x \in E THEN 0 ELSE w[x]
    OBVIOUS
  <1> HIDE DEF rest
  <1>1. ASSUME NEW U \in SUBSET S, \A V \in SUBSET U : V # U => V \in G
        PROVE  U \in G
    <2>1. CASE U = {}
      <3>1. U \cap E = {}
        BY <2>1
      <3> QED
        BY <1>0, <2>1, <3>1, SumType
    <2>2. CASE U # {}
      <3>1. PICK x \in U : TRUE
        BY <2>2
      <3> DEFINE V == U \ {x}
      <3>2. V \in G
        BY <1>1
      <3>3. Sum(w, V) = Sum(w, V \cap E) + Sum(rest, V)
        BY <3>2
      <3>4. Sum(w, U) = w[x] + Sum(w, V) /\ Sum(rest, U) = rest[x] + Sum(rest, V)
        BY <1>0, SumTake
      <3>5. /\ Sum(w, V) \in Int /\ Sum(rest, V) \in Int
            /\ Sum(w, V \cap E) \in Int /\ w[x] \in Int
        BY <1>0, SumType
      <3>6. CASE x \in E
        <4>1. x \in U \cap E /\ (U \cap E) \ {x} = V \cap E /\ U \cap E \in SUBSET S
          BY <3>6
        <4>2. Sum(w, U \cap E) = w[x] + Sum(w, V \cap E)
          BY <4>1, SumTake
        <4> QED
          BY <1>0, <3>3, <3>4, <3>5, <3>6, <4>2
      <3>7. CASE x \notin E
        <4>1. U \cap E = V \cap E /\ rest[x] = w[x]
          BY <1>0, <3>7
        <4>2. Sum(w, U) = Sum(w, V \cap E) + Sum(rest, U)
          BY <3>3, <3>4, <3>5, <4>1
        <4> QED
          BY <4>1, <4>2
      <3> QED
        BY <3>6, <3>7
    <2> QED
      BY <2>1, <2>2
  <1>2. \A U \in SUBSET S : U \in G
    <2> HIDE DEF G
    <2> QED BY <1>1, SubsetInduction
  <1>3. S \in G /\ S \cap E = E
    BY <1>2
  <1>4. Sum(w, S) = Sum(w, E) + Sum(rest, S)
    BY <1>3
  <1> QED
    BY <1>4 DEF rest

(* One weight changes.                                                     *)
LEMMA SumPut ==
  ASSUME NEW S, IsFiniteSet(S), NEW w \in [S -> Int], NEW v \in [S -> Int], NEW x \in S,
         \A y \in S \ {x} : v[y] = w[y]
  PROVE  Sum(v, S) = Sum(w, S) - w[x] + v[x]
  <1>1. Sum(v, S) = v[x] + Sum(v, S \ {x}) /\ Sum(w, S) = w[x] + Sum(w, S \ {x})
    BY SumTake
  <1>2. Sum(v, S \ {x}) = Sum(w, S \ {x})
    BY SumsOfEqualWeights
  <1>3. Sum(w, S \ {x}) \in Int /\ v[x] \in Int /\ w[x] \in Int
    BY SumType
  <1> QED
    BY <1>1, <1>2, <1>3

-----------------------------------------------------------------------------
(* The byte budget of the shard. *)

(* What each path weighs when the entries are m.                           *)
Weights(m) == [p \in Paths |-> Bytes(m[p])]

LEMMA BytesAtIs ==
  ASSUME NEW m \in [Paths -> Entry \cup {None}], NEW E \in SUBSET Paths
  PROVE  BytesAt(m, E) = Sum(Weights(m), E)
  <1> DEFINE F(iter) == [s \in SUBSET E |-> IF s = {} THEN 0
                           ELSE Bytes(m[Pick(s)]) + iter[s \ {Pick(s)}]]
             H(iter) == [s \in SUBSET E |-> IF s = {} THEN 0
                           ELSE Weights(m)[Pick(s)] + iter[s \ {Pick(s)}]]
  <1>1. BytesAt(m, E) = (CHOOSE iter : iter = F(iter))[E]
    BY DEF BytesAt, MapThenSumSet, MapThenFoldSet, Pick
  <1>2. Sum(Weights(m), E) = (CHOOSE iter : iter = H(iter))[E]
    BY DEF Sum, MapThenSumSet, MapThenFoldSet, Pick
  <1>3. ASSUME NEW iter PROVE F(iter) = H(iter)
    <2>1. \A s \in SUBSET E : s # {} => Weights(m)[Pick(s)] = Bytes(m[Pick(s)])
      BY DEF Weights, Pick
    <2> QED
      BY <2>1
  <1> HIDE DEF F, H
  <1> QED
    BY <1>1, <1>2, <1>3

LEMMA BytesOfIs ==
  ASSUME NEW m \in [Paths -> Entry \cup {None}]
  PROVE  /\ Weights(m) \in [Paths -> Nat]
         /\ BytesOf(m) = Sum(Weights(m), Paths)
  <1>1. \A p \in Paths : Bytes(m[p]) \in Nat
    BY StampAssumption DEF Bytes, Entry
  <1>2. Weights(m) \in [Paths -> Nat]
    BY <1>1 DEF Weights
  <1> QED
    BY <1>2, BytesAtIs DEF BytesOf

(* One entry changes. *)
LEMMA BytesPut ==
  ASSUME NEW m \in [Paths -> Entry \cup {None}], NEW n \in [Paths -> Entry \cup {None}],
         NEW p \in Paths, \A q \in Paths \ {p} : n[q] = m[q]
  PROVE  /\ BytesOf(n) = BytesOf(m) - Bytes(m[p]) + Bytes(n[p])
         /\ BytesOf(m) \in Nat /\ BytesOf(n) \in Nat
         /\ Bytes(m[p]) \in Nat /\ Bytes(n[p]) \in Nat
  <1>1. /\ Weights(m) \in [Paths -> Nat] /\ BytesOf(m) = Sum(Weights(m), Paths)
        /\ Weights(n) \in [Paths -> Nat] /\ BytesOf(n) = Sum(Weights(n), Paths)
    BY BytesOfIs
  <1>2. /\ \A q \in Paths : Weights(m)[q] = Bytes(m[q]) /\ Weights(n)[q] = Bytes(n[q])
        /\ \A q \in Paths \ {p} : Weights(n)[q] = Weights(m)[q]
    BY DEF Weights
  <1>3. Weights(m) \in [Paths -> Int] /\ Weights(n) \in [Paths -> Int] /\ IsFiniteSet(Paths)
    BY <1>1, CacheAssumption
  <1>4. Sum(Weights(n), Paths) = Sum(Weights(m), Paths) - Weights(m)[p] + Weights(n)[p]
    BY <1>2, <1>3, SumPut
  <1>5. Sum(Weights(n), Paths) \in Nat /\ Sum(Weights(m), Paths) \in Nat
    BY <1>1, <1>3, SumOfNaturals
  <1> QED
    BY <1>1, <1>2, <1>4, <1>5

LEMMA DropIsExact ==
  ASSUME map \in [Paths -> Entry \cup {None}], BudgetIsExact, NEW p \in Paths, Drop(p)
  PROVE  BudgetIsExact'
  <1>1. /\ map' \in [Paths -> Entry \cup {None}] /\ map'[p] = None
        /\ \A q \in Paths \ {p} : map'[q] = map[q]
    BY DEF Drop
  <1>2. /\ BytesOf(map') = BytesOf(map) - Bytes(map[p]) + Bytes(map'[p])
        /\ BytesOf(map) \in Nat /\ Bytes(map[p]) \in Nat
    BY <1>1, BytesPut
  <1>3. Bytes(map'[p]) = 0
    BY <1>1 DEF Bytes
  <1>4. used' = BytesOf(map')
    BY <1>2, <1>3 DEF Drop, BudgetIsExact
  <1>5. used' <= Capacity
    BY <1>2, <1>3, <1>4, CacheNumbers DEF BudgetIsExact
  <1> QED
    BY <1>4, <1>5 DEF BudgetIsExact

(* What is evicted is what the entries that stay no longer weigh.          *)
LEMMA BytesLeft ==
  ASSUME NEW m \in [Paths -> Entry \cup {None}], NEW E \in SUBSET Paths
  PROVE  BytesOf(m) = BytesAt(m, E)
                      + BytesOf([q \in Paths |-> IF q \in E THEN None ELSE m[q]])
  <1> DEFINE n == [q \in Paths |-> IF q \in E THEN None ELSE m[q]]
             rest == [q \in Paths |-> IF q \in E THEN 0 ELSE Weights(m)[q]]
  <1>1. n \in [Paths -> Entry \cup {None}]
    OBVIOUS
  <1>2. /\ Weights(m) \in [Paths -> Int] /\ IsFiniteSet(Paths)
        /\ BytesOf(m) = Sum(Weights(m), Paths)
        /\ BytesAt(m, E) = Sum(Weights(m), E)
    <2>1. /\ Weights(m) \in [Paths -> Nat] /\ BytesOf(m) = Sum(Weights(m), Paths)
      BY BytesOfIs
    <2> QED
      BY <2>1, BytesAtIs, CacheAssumption
  <1>3. BytesOf(n) = Sum(Weights(n), Paths)
    <2> HIDE DEF n
    <2> QED BY <1>1, BytesOfIs
  <1>4. Weights(n) = rest
    BY DEF Weights, Bytes
  <1>5. Sum(Weights(m), Paths) = Sum(Weights(m), E) + Sum(rest, Paths)
    BY <1>2, SumSplit
  <1> HIDE DEF rest, n
  <1>6. BytesOf(m) = BytesAt(m, E) + BytesOf(n)
    BY <1>2, <1>3, <1>4, <1>5
  <1> QED
    BY <1>6 DEF n

LEMMA InsertIsExact ==
  ASSUME map \in [Paths -> Entry \cup {None}], BudgetIsExact,
         NEW p \in Paths, NEW e \in Entry, Insert(p, e)
  PROVE  BudgetIsExact'
  <1>1. CASE UNCHANGED <<map, used>>
    BY <1>1 DEF BudgetIsExact
  <1>2. CASE ~UNCHANGED <<map, used>>
    <2> DEFINE others == [map EXCEPT ![p] = None]
    <2>1. PICK E \in Evictions(others, Bytes(e)) :
            /\ map' = [q \in Paths |-> CASE q = p -> e
                                         [] q # p /\ q \in E -> None
                                         [] OTHER -> map[q]]
            /\ used' = used - Bytes(map[p]) - BytesAt(map, E) + Bytes(e)
      BY <1>2 DEF Insert, InsertCounting
    <2> DEFINE left == [q \in Paths |-> IF q \in E THEN None ELSE others[q]]
    <2>2. E \in SUBSET Paths /\ p \notin E /\ BytesOf(left) + Bytes(e) <= Capacity
      <3>1. E \in SUBSET {q \in Paths : others[q] # None}
        BY <2>1 DEF Evictions
      <3>2. BytesOf(left) + Bytes(e) <= Capacity
        BY <2>1 DEF Evictions
      <3> QED
        BY <3>1, <3>2
    <2>3. /\ others \in [Paths -> Entry \cup {None}] /\ left \in [Paths -> Entry \cup {None}]
          /\ map' \in [Paths -> Entry \cup {None}]
          /\ others[p] = None /\ left[p] = None /\ map'[p] = e
          /\ \A q \in Paths \ {p} : others[q] = map[q] /\ map'[q] = left[q]
          /\ \A q \in E : others[q] = map[q]
      <3>1. \A q \in Paths : map'[q] = IF q = p THEN e ELSE IF q \in E THEN None ELSE map[q]
        BY <2>1
      <3>2. map' = [q \in Paths |-> map'[q]]
        BY <2>1
      <3>3. others \in [Paths -> Entry \cup {None}] /\ left \in [Paths -> Entry \cup {None}]
        OBVIOUS
      <3>4. map' \in [Paths -> Entry \cup {None}]
        BY <3>1, <3>2
      <3> QED
        BY <2>2, <3>1, <3>3, <3>4
    <2>4. BytesOf(others) = BytesAt(others, E) + BytesOf(left)
      BY <2>2, <2>3, BytesLeft
    <2> HIDE DEF others, left
    <2>5. BytesAt(others, E) = BytesAt(map, E) /\ BytesAt(map, E) \in Int
      <3>1. /\ Weights(others) \in [Paths -> Int] /\ Weights(map) \in [Paths -> Int]
            /\ IsFiniteSet(Paths)
        BY <2>3, BytesOfIs, CacheAssumption
      <3>2. \A q \in E : Weights(others)[q] = Weights(map)[q]
        BY <2>2, <2>3 DEF Weights
      <3>3. Sum(Weights(others), E) = Sum(Weights(map), E) /\ Sum(Weights(map), E) \in Int
        BY <2>2, <3>1, <3>2, SumsOfEqualWeights, SumType
      <3> QED
        BY <2>2, <2>3, <3>3, BytesAtIs
    <2>6. /\ BytesOf(others) = BytesOf(map) - Bytes(map[p]) + Bytes(others[p])
          /\ BytesOf(map) \in Nat /\ BytesOf(others) \in Nat /\ Bytes(map[p]) \in Nat
      BY <2>3, BytesPut
    <2>7. /\ BytesOf(map') = BytesOf(left) - Bytes(left[p]) + Bytes(map'[p])
          /\ BytesOf(left) \in Nat /\ Bytes(map'[p]) \in Nat
      BY <2>3, BytesPut
    <2>8. Bytes(others[p]) = 0 /\ Bytes(left[p]) = 0
      BY <2>3 DEF Bytes
    <2>9. BytesOf(map') = BytesOf(left) + Bytes(e)
      BY <2>3, <2>7, <2>8
    <2>10. used' = BytesOf(map')
      BY <2>1, <2>3, <2>4, <2>5, <2>6, <2>7, <2>8, <2>9 DEF BudgetIsExact
    <2> QED
      BY <2>2, <2>9, <2>10 DEF BudgetIsExact, left
  <1> QED
    BY <1>1, <1>2

(* A newer capture has the size of the older one.                          *)
LEMMA RefreshIsExact ==
  ASSUME map \in [Paths -> Entry \cup {None}], BudgetIsExact, NEW p \in Paths,
         NEW s \in Stamp, map[p] # None, map' = [map EXCEPT ![p].stamp = s], UNCHANGED used
  PROVE  BudgetIsExact'
  <1> DEFINE e == [map[p] EXCEPT !.stamp = s]
  <1>1. e \in Entry /\ e.data = map[p].data
    BY DEF Entry
  <1>2. map' = [map EXCEPT ![p] = e]
    OBVIOUS
  <1> HIDE DEF e
  <1>3. /\ map' \in [Paths -> Entry \cup {None}] /\ map'[p] = e
        /\ \A q \in Paths \ {p} : map'[q] = map[q]
    BY <1>1, <1>2
  <1>4. /\ BytesOf(map') = BytesOf(map) - Bytes(map[p]) + Bytes(map'[p])
        /\ BytesOf(map) \in Nat /\ Bytes(map[p]) \in Nat
    BY <1>3, BytesPut
  <1>5. Bytes(map'[p]) = Bytes(map[p])
    BY <1>1, <1>3, CacheAssumption DEF Bytes, Entry
  <1>6. BytesOf(map') = BytesOf(map)
    BY <1>4, <1>5
  <1> QED
    BY <1>6 DEF BudgetIsExact

LEMMA BudgetProgress ==
  ASSUME Base, BudgetIsExact, NEW r \in Readers, Progress(r)
  PROVE  BudgetIsExact'
  <1>0. path[r] \in Paths /\ map \in [Paths -> Entry \cup {None}]
    BY ProgressPlaces DEF Base, Kept
  <1> USE DEF shardVars
  <1>1. CASE UNCHANGED <<map, used>>
    BY <1>1 DEF BudgetIsExact
  <1>2. CASE Get(r) \/ Peek(r) \/ OpenResident(r) \/ CompareBytes(r) \/ ConfirmResident(r)
    BY <1>1, <1>2 DEF Get, Peek, OpenResident, CompareBytes, ConfirmResident
  <1>3. CASE GiveUp(r) \/ Restat(r) \/ TakeCell(r) \/ Load(r) \/ Clear(r)
    BY <1>1, <1>3 DEF GiveUp, Restat, TakeCell, Load, Clear
  <1>4. CASE Claim(r)
    BY <1>0, <1>1, <1>4, DropIsExact DEF Claim
  <1>5. CASE Store(r)
    <2>1. CASE /\ result[r].code = "ok"
               /\ Insert(path[r], [data |-> result[r].data, stamp |-> result[r].stamp])
      <3>1. pc[r] = "store" /\ result[r] \in Result
        BY <1>5 DEF Store, Goto, Base, Held
      <3>2. [data |-> result[r].data, stamp |-> result[r].stamp] \in Entry
        BY <2>1, <3>1, ResultTyped
      <3> QED
        BY <1>0, <2>1, <3>2, InsertIsExact
    <2> QED
      BY <1>1, <1>5, <2>1 DEF Store
  <1>6. CASE Refresh(r)
    <2>1. UNCHANGED used /\ stamp[r] \in Stamp
      BY <1>6 DEF Refresh, Base, Held
    <2>2. CASE /\ map[path[r]] # None
               /\ map' = [map EXCEPT ![path[r]].stamp = stamp[r]]
      BY <1>0, <2>1, <2>2, RefreshIsExact
    <2> QED
      BY <1>1, <1>6, <2>1, <2>2 DEF Refresh
  <1> QED
    BY <1>2, <1>3, <1>4, <1>5, <1>6 DEF Progress

LEMMA BudgetStep == Base /\ BudgetIsExact /\ [Next]_vars => BudgetIsExact'
  <1> SUFFICES ASSUME Base, BudgetIsExact, [Next]_vars
               PROVE  BudgetIsExact'
    OBVIOUS
  <1>0. map \in [Paths -> Entry \cup {None}]
    BY DEF Base, Kept
  <1>1. CASE UNCHANGED <<map, used>>
    BY <1>1 DEF BudgetIsExact
  <1>2. ASSUME NEW r \in Readers, NEW p \in Paths, Call(r, p)
        PROVE  BudgetIsExact'
    BY <1>1, <1>2 DEF Call, shardVars
  <1>3. ASSUME NEW w \in Publishers, Land(w)
        PROVE  BudgetIsExact'
    BY <1>1, <1>3 DEF Land, shardVars
  <1>4. ASSUME NEW w \in Publishers, PublishInsert(w)
        PROVE  BudgetIsExact'
    <2>1. landed[w].path \in Paths /\ landed[w].entry \in Entry
      BY <1>4, PublishEffect DEF Base
    <2> QED
      BY <1>0, <1>4, <2>1, InsertIsExact DEF PublishInsert
  <1>5. ASSUME NEW p \in Paths, NEW c \in Contents,
               WriteInPlace(p, c) \/ \E i \in Inodes : Replace(p, i, c)
        PROVE  BudgetIsExact'
    BY <1>1, <1>5 DEF WriteInPlace, Replace, shardVars
  <1>6. ASSUME NEW p \in Paths, Remove(p)
        PROVE  BudgetIsExact'
    BY <1>1, <1>6 DEF Remove, shardVars
  <1>7. ASSUME NEW p \in Paths, Invalidate(p)
        PROVE  BudgetIsExact'
    BY <1>0, <1>7, DropIsExact DEF Invalidate
  <1>8. CASE Tick
    BY <1>1, <1>8 DEF Tick, shardVars
  <1>9. CASE UNCHANGED vars
    BY <1>1, <1>9 DEF vars
  <1> QED
    BY <1>2, <1>3, <1>4, <1>5, <1>6, <1>7, <1>8, <1>9, BudgetProgress DEF Next

LEMMA BudgetInit == Init => BudgetIsExact
  <1> SUFFICES ASSUME Init
               PROVE  BudgetIsExact
    OBVIOUS
  <1>1. used = 0 /\ map \in [Paths -> Entry \cup {None}] /\ \A p \in Paths : map[p] = None
    BY DEF Init
  <1> DEFINE nothing == [p \in Paths |-> 0]
  <1>2. Weights(map) = nothing
    BY <1>1 DEF Weights, Bytes
  <1>3. Sum(nothing, Paths) = Sum(nothing, Paths) + Sum([p \in Paths |-> IF p \in Paths THEN 0 ELSE nothing[p]], Paths)
    <2>1. nothing \in [Paths -> Int] /\ IsFiniteSet(Paths)
      BY CacheAssumption
    <2> HIDE DEF nothing
    <2> QED BY <2>1, SumSplit
  <1>4. [p \in Paths |-> IF p \in Paths THEN 0 ELSE nothing[p]] = nothing
    OBVIOUS
  <1>5. Sum(nothing, Paths) \in Int
    <2>1. nothing \in [Paths -> Int] /\ IsFiniteSet(Paths)
      BY CacheAssumption
    <2> HIDE DEF nothing
    <2> QED BY <2>1, SumType
  <1>6. Sum(nothing, Paths) = 0
    <2> HIDE DEF nothing
    <2> QED BY <1>3, <1>4, <1>5, SMTT(30)
  <1> HIDE DEF nothing
  <1>7. BytesOf(map) = 0
    BY <1>1, <1>2, <1>6, BytesOfIs
  <1> QED
    BY <1>1, <1>7, CacheNumbers DEF BudgetIsExact

LEMMA BudgetHolds == Spec => [](Timed /\ BudgetIsExact)
  <1>1. Timed /\ BudgetIsExact /\ [Next]_vars => (Timed /\ BudgetIsExact)'
    BY TimedStep, BudgetStep DEF Timed
  <1> QED
    BY <1>1, TimedInit, BudgetInit, PTL DEF Spec

(* `used` is the sum of the resident entries' lengths, and within the      *)
(* capacity, after every insertion, replacement, eviction, stale drop and  *)
(* invalidation, in every order of the calls (Shard::used in cache.rs).    *)
THEOREM BudgetIsKept == Spec => []BudgetIsExact
BY BudgetHolds, PTL

(* The types of every variable; `used` never goes below zero, so that the  *)
(* saturating subtractions of cache.rs never saturate.                     *)
THEOREM CacheIsTyped == Spec => []TypeOK
  <1>1. Timed /\ BudgetIsExact => TypeOK
    <2> SUFFICES ASSUME Timed, BudgetIsExact
                 PROVE  TypeOK
      OBVIOUS
    <2>1. used \in Nat
      <3>1. map \in [Paths -> Entry \cup {None}]
        BY DEF Timed, Base, Kept
      <3> QED
        BY <3>1, BytesOfIs, SumOfNaturals, CacheAssumption DEF BudgetIsExact
    <2> QED
      BY <2>1 DEF TypeOK, Timed, Base, Kept, Cell, CellInv, Shape
  <1> QED
    BY <1>1, BudgetHolds, PTL

-----------------------------------------------------------------------------
(* Progress *)

(* A cell is locked by a call that is loading for it.                      *)
HoldersLoad ==
  \A k \in Readers : cell[k].holder # None =>
    LET s == cell[k].holder IN s \in Readers /\ Loading(s) /\ joined[s] = k

(* What a call waits for: its cell is free to take, or a call that waits   *)
(* for nothing is loading for it.                                          *)
WaitsEnd ==
  \A r \in Readers : pc[r] = "wait" =>
    \/ cell[joined[r]].holder = None
    \/ \E s \in Readers \ {r} : Loading(s) /\ joined[s] = joined[r] /\ cell[joined[r]].holder = s

(* The course of a call.                                                   *)
Stage == [idle |-> 0, stat |-> 1, get |-> 2, peek |-> 3, open |-> 4, compare |-> 5,
          confirm |-> 6, refresh |-> 7, restat |-> 8, claim |-> 9, wait |-> 10,
          load |-> 11, store |-> 12, clear |-> 13, done |-> 14]

Advances(r) == pc'[r] = pc[r] \/ Stage[pc'[r]] > Stage[pc[r]]

(* Who takes and who frees the lock of a cell.                             *)
LEMMA HolderMoves ==
  ASSUME Base, NEW r \in Readers, Progress(r), NEW k \in Readers
  PROVE  \/ /\ cell'[k].holder = cell[k].holder
            /\ Loading(r) => (pc'[r] \in {"load", "store", "clear"} /\ joined'[r] = joined[r])
                               \/ joined[r] # k
         \/ /\ TakeCell(r) /\ k = joined[r] /\ cell'[k].holder = r
            /\ pc'[r] = "load" /\ joined'[r] = k
         \/ cell'[k].holder = None
  <1> DEFINE j == joined[r]
  <1>0. DOMAIN cell = Readers /\ IsCell(cell[k]) /\ pc \in [Readers -> Running \cup {"idle", "done"}]
    BY DEF Base, CellInv, Shape
  <1>1. ASSUME NEW v, cell' = [cell EXCEPT ![j].holder = v]
        PROVE  cell'[k].holder = IF k = j THEN v ELSE cell[k].holder
    <2>1. CASE k # j
      BY <1>0, <1>1, <2>1
    <2>2. CASE k = j
      <3>1. cell'[k] = [cell[k] EXCEPT !.holder = v]
        BY <1>0, <1>1, <2>2
      <3> QED
        BY <1>0, <2>2, <3>1 DEF IsCell
    <2> QED
      BY <2>1, <2>2
  <1>2. CASE ~Loading(r) /\ UNCHANGED cell
    BY <1>2
  <1>3. CASE TakeCell(r) /\ ~UNCHANGED cell
    <2>1. /\ cell' = [cell EXCEPT ![j].holder = r] /\ pc' = [pc EXCEPT ![r] = "load"]
          /\ joined' = joined /\ pc[r] = "wait"
      BY <1>3 DEF TakeCell
    <2> QED
      BY <1>0, <1>1, <1>3, <2>1 DEF Loading
  <1>4. CASE Load(r)
    BY <1>0, <1>4 DEF Load, Goto
  <1>5. CASE Store(r)
    <2>1. pc'[r] = "clear" /\ joined' = joined
      BY <1>0, <1>5 DEF Store, Goto
    <2>2. cell'[k].holder = cell[k].holder
      <3>1. CASE k # j
        BY <1>0, <1>5, <3>1 DEF Store
      <3>2. CASE k = j
        <4>1. \/ cell'[k] = [[cell[k] EXCEPT !.state = "ready"] EXCEPT !.data = result[r].data]
              \/ cell'[k] = [cell[k] EXCEPT !.state = "failed"]
          BY <1>0, <1>5, <3>2, CellTwice DEF Store
        <4> QED
          BY <1>0, <4>1 DEF IsCell
      <3> QED
        BY <3>1, <3>2
    <2> QED
      BY <2>1, <2>2
  <1>6. CASE Clear(r)
    <2>1. cell' = [cell EXCEPT ![j].holder = None]
      BY <1>6 DEF Clear
    <2> QED
      BY <1>1, <2>1
  <1>7. CASE TakeCell(r) /\ UNCHANGED cell
    BY <1>2, <1>7 DEF TakeCell, Loading
  <1>8. CASE Claim(r)
    BY <1>2, <1>8 DEF Claim, Loading
  <1>9. CASE \/ Get(r) \/ Peek(r) \/ OpenResident(r) \/ CompareBytes(r) \/ ConfirmResident(r)
             \/ GiveUp(r) \/ Refresh(r) \/ Restat(r)
    <2>1. UNCHANGED cell
      BY <1>9 DEF Get, Peek, OpenResident, CompareBytes, ConfirmResident, GiveUp, Refresh, Restat
    <2>2. ~Loading(r)
      BY <1>9 DEF Get, Peek, OpenResident, CompareBytes, ConfirmResident, GiveUp, Refresh, Restat,
                  Goto, Loading
    <2> QED
      BY <1>2, <2>1, <2>2
  <1> QED
    BY <1>3, <1>4, <1>5, <1>6, <1>7, <1>8, <1>9 DEF Progress

LEMMA HoldersStep == Base /\ HoldersLoad /\ [Next]_vars => HoldersLoad'
  <1> SUFFICES ASSUME Base, HoldersLoad, [Next]_vars
               PROVE  HoldersLoad'
    OBVIOUS
  <1>1. ASSUME NEW r \in Readers, Progress(r), NEW k \in Readers, cell'[k].holder # None
        PROVE  /\ cell'[k].holder \in Readers /\ pc'[cell'[k].holder] \in {"load", "store", "clear"}
               /\ joined'[cell'[k].holder] = k
    <2>1. \A s \in Readers \ {r} : pc'[s] = pc[s] /\ joined'[s] = joined[s]
      BY <1>1, OthersKeep DEF Base, Same
    <2>2. CASE /\ cell'[k].holder = cell[k].holder
               /\ Loading(r) => (pc'[r] \in {"load", "store", "clear"} /\ joined'[r] = joined[r])
                                  \/ joined[r] # k
      BY <1>1, <2>1, <2>2 DEF HoldersLoad, Loading
    <2> QED
      BY <1>1, <2>2, HolderMoves
  <1>2. CASE \E r \in Readers : Progress(r)
    BY <1>1, <1>2 DEF HoldersLoad, Loading
  <1>3. CASE \E r \in Readers, p \in Paths : Call(r, p)
    <2>1. PICK r \in Readers : \E p \in Paths : Call(r, p)
      BY <1>3
    <2>2. UNCHANGED <<cell, joined>> /\ \A s \in Readers : s # r => pc'[s] = pc[s]
      BY <2>1 DEF Call, Goto, Base, CellInv, Shape
    <2>3. ~Loading(r)
      BY <2>1 DEF Call, Goto, Loading
    <2> QED
      BY <2>2, <2>3 DEF HoldersLoad, Loading
  <1>4. CASE UNCHANGED readerVars
    BY <1>4 DEF readerVars, HoldersLoad, Loading
  <1> QED
    <2>1. ASSUME NEW w \in Publishers, Land(w) \/ PublishInsert(w)
          PROVE  UNCHANGED readerVars
      BY <2>1 DEF Land, PublishInsert
    <2>2. ASSUME NEW p \in Paths, NEW c \in Contents,
                 WriteInPlace(p, c) \/ \E i \in Inodes : Replace(p, i, c)
          PROVE  UNCHANGED readerVars
      BY <2>2 DEF WriteInPlace, Replace
    <2>3. ASSUME NEW p \in Paths, Remove(p) \/ Invalidate(p)
          PROVE  UNCHANGED readerVars
      BY <2>3 DEF Remove, Invalidate
    <2>4. CASE Tick \/ UNCHANGED vars
      BY <1>4, <2>4 DEF Tick, vars, readerVars, localVars
    <2> QED
      BY <1>2, <1>3, <1>4, <2>1, <2>2, <2>3, <2>4 DEF Next

(* Nobody waits for a cell that is never freed: while a call waits for one *)
(* in cache.rs get_or_load, it is free or held by another call that is in  *)
(* its loader and waits for nothing; whatever the load comes to, it frees  *)
(* the cell it holds.                                                      *)
THEOREM CellsAreFreed == Spec => []WaitsEnd
  <1>1. Init => HoldersLoad
    BY DEF Init, HoldersLoad
  <1>2. Base /\ HoldersLoad => WaitsEnd
    <2> SUFFICES ASSUME Base, HoldersLoad, NEW r \in Readers, pc[r] = "wait",
                        cell[joined[r]].holder # None
                 PROVE  \E s \in Readers \ {r} : /\ Loading(s) /\ joined[s] = joined[r]
                                                 /\ cell[joined[r]].holder = s
      BY DEF WaitsEnd
    <2>1. joined[r] \in Readers
      BY DEF Base, CellInv, Shape, Waiting
    <2>2. /\ cell[joined[r]].holder \in Readers /\ Loading(cell[joined[r]].holder)
          /\ joined[cell[joined[r]].holder] = joined[r]
      BY <2>1 DEF HoldersLoad
    <2> QED
      BY <2>2 DEF Loading
  <1>3. Timed => Base
    BY DEF Timed
  <1> QED
    BY <1>1, <1>2, <1>3, BudgetHolds, HoldersStep, PTL DEF Spec

(* No call goes round in a circle: a resident that does not verify, a      *)
(* stale one and a failed load each send the call on, and never back.      *)
THEOREM CallsAdvance == Spec => [][\A r \in Readers : Advances(r)]_vars
  <1>1. ASSUME Base, NEW r \in Readers, Progress(r)
        PROVE  Advances(r)
    <2> USE <1>1 DEF Base, CellInv, Shape, Advances, Stage, Goto, Answer
    <2>1. CASE Get(r) \/ Peek(r) \/ OpenResident(r) \/ CompareBytes(r) \/ ConfirmResident(r)
      BY <2>1 DEF Get, Peek, OpenResident, CompareBytes, ConfirmResident
    <2>2. CASE GiveUp(r) \/ Refresh(r) \/ Restat(r) \/ Claim(r) \/ TakeCell(r)
      BY <2>2 DEF GiveUp, Refresh, Restat, Claim, TakeCell
    <2>3. CASE Load(r) \/ Store(r) \/ Clear(r)
      BY <2>3 DEF Load, Store, Clear
    <2> QED
      BY <2>1, <2>2, <2>3 DEF Progress
  <1>2. Base /\ [Next]_vars => [\A r \in Readers : Advances(r)]_vars
    <2> SUFFICES ASSUME Base, Next, NEW r \in Readers
                 PROVE  Advances(r)
      OBVIOUS
    <2>1. ASSUME NEW q \in Readers, Progress(q)
          PROVE  Advances(r)
      <3>1. q # r => pc'[r] = pc[r]
        BY <2>1, OthersKeep DEF Base, Same
      <3> QED
        BY <1>1, <2>1, <3>1 DEF Advances
    <2>2. ASSUME NEW q \in Readers, NEW p \in Paths, Call(q, p)
          PROVE  Advances(r)
      BY <2>2 DEF Call, Goto, Advances, Stage, Base, CellInv, Shape
    <2>3. ASSUME NEW w \in Publishers, Land(w) \/ PublishInsert(w)
          PROVE  Advances(r)
      BY <2>3 DEF Land, PublishInsert, readerVars, Advances
    <2>4. ASSUME NEW p \in Paths, NEW c \in Contents,
                 WriteInPlace(p, c) \/ \E i \in Inodes : Replace(p, i, c)
          PROVE  Advances(r)
      BY <2>4 DEF WriteInPlace, Replace, readerVars, Advances
    <2>5. ASSUME NEW p \in Paths, Remove(p) \/ Invalidate(p)
          PROVE  Advances(r)
      BY <2>5 DEF Remove, Invalidate, readerVars, Advances
    <2>6. CASE Tick
      BY <2>6 DEF Tick, readerVars, Advances
    <2> QED
      BY <2>1, <2>2, <2>3, <2>4, <2>5, <2>6 DEF Next
  <1>3. Timed => Base
    BY DEF Timed
  <1> QED
    BY <1>2, <1>3, BudgetHolds, PTL DEF Spec

===============================================================================
