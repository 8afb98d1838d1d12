----------------------------- MODULE SnapshotCache -----------------------------
(***************************************************************************)
(* The snapshot cache (src/src/cache.rs): one shard of SnapshotCache, the  *)
(* `read` calls that go through get_or_load, the insertions of edits and   *)
(* writes that have landed, and the programs that change files meanwhile.  *)
(*                                                                         *)
(* A step is one critical section of the shard mutex or one system call.   *)
(* Snapshot::load is one step here (StableRead opens it up), and the bytes *)
(* of a verification are read in one step.                                 *)
(***************************************************************************)
EXTENDS FileStamps, FiniteSetsExt

CONSTANTS
  Readers,       \* get_or_load calls; a call also names the cell it creates
  Publishers,    \* persisted edits and writes
  Paths,         \* paths of one shard, each a file of its own
  Capacity,      \* capacity of the shard, in bytes
  MaxStall,      \* bound on the ticks one verification takes
  MaxLag,        \* bound on the ticks between stamping bytes and inserting them
  Disturbances,  \* what else happens: "inplace", "replace", "remove", "invalidate"
  MaxDisturb     \* bound on those

ASSUME CacheAssumption ==
  /\ IsFiniteSet(Paths)
  /\ Capacity \in Nat \ {0}
  /\ MaxStall \in Nat
  /\ MaxLag \in Nat
  /\ MaxDisturb \in Nat
  /\ None \notin Readers
  /\ None \notin [data : Contents, stamp : Stamp]
  /\ Disturbances \subseteq {"inplace", "replace", "remove", "invalidate"}

VARIABLES
  now,       \* the clock
  dir,       \* dir[p]: the inode linked at p, or None
  file,      \* file[i]: the FileState of inode i, linked or open or free
  map,       \* map[p]: the resident entry, or None
  used,      \* Shard::used
  inflight,  \* inflight[p]: the cell of the load in progress, or None
  cell,      \* cell[k]: its mutex and InflightState
  pc,        \* where each call is
  path,      \* its path
  stamp,     \* the stamp of its last stat, or None
  resident,  \* the racy entry it is verifying, or None
  fd,        \* the inode it has open for that, or None
  joined,    \* the cell it claimed or joined, or None
  result,    \* what its load returned, or None
  since,     \* when its verification began, or it loaded
  reply,     \* its result
  how,       \* history: "hit", "verified", "loaded", "joined"
  seen,      \* history: what the path held since the call began
  past,      \* history: the calls that had returned when it began
  landed,    \* landed[w]: what publisher w persisted and has yet to insert
  disturbed  \* number of disturbances

fsVars    == <<now, dir, file, disturbed>>
shardVars == <<map, used, inflight>>
localVars == <<stamp, resident, fd, result, since>>
vars == <<now, dir, file, map, used, inflight, cell, pc, path, stamp, resident,
          fd, joined, result, since, reply, how, seen, past, landed, disturbed>>

Absent == None

Entry == [data : Contents, stamp : Stamp]

ValueAt(p) == IF dir[p] = None THEN Absent ELSE file[dir[p]].data
StampAt(p) == StampOf(dir[p], file[dir[p]], now)

(* fs::metadata and FileStamp::from_metadata_public.                       *)
Stat(p) == IF dir[p] = None THEN None ELSE StampAt(p)

Bytes(entry) == IF entry = None THEN 0 ELSE Length[entry.data]

BytesAt(m, E) == MapThenSumSet(LAMBDA p : Bytes(m[p]), E)
BytesOf(m)    == BytesAt(m, Paths)

Running == {"stat", "get", "peek", "open", "compare", "confirm", "refresh",
            "restat", "claim", "wait", "load", "store", "clear"}

Goto(r, from, to) ==
  /\ pc[r] = from
  /\ pc' = [pc EXCEPT ![r] = to]

(* Return from get_or_load.                                                *)
Answer(r, code, data, by) ==
  /\ pc' = [pc EXCEPT ![r] = "done"]
  /\ reply' = [reply EXCEPT ![r] = [code |-> code, data |-> data]]
  /\ how' = [how EXCEPT ![r] = by]
  /\ stamp' = [stamp EXCEPT ![r] = None]
  /\ resident' = [resident EXCEPT ![r] = None]
  /\ fd' = [fd EXCEPT ![r] = None]
  /\ result' = [result EXCEPT ![r] = None]
  /\ UNCHANGED since

(* A resident entry that metadata alone proves current.                    *)
Proven(entry, current) ==
  /\ entry # None
  /\ current # None
  /\ SameStamp(entry.stamp, current)
  /\ ~entry.stamp.racy

-----------------------------------------------------------------------------
(* The shard *)

(* The eviction loop removes entries in HashMap order, which is arbitrary, *)
(* until `bytes` more fit: the last one removed was still needed.          *)
Evictions(m, bytes) ==
  LET Without(E) == [p \in Paths |-> IF p \in E THEN None ELSE m[p]]
      Fits(E) == BytesOf(Without(E)) + bytes <= Capacity
  IN {E \in SUBSET {p \in Paths : m[p] # None} :
        Fits(E) /\ (E = {} \/ \E last \in E : ~Fits(E \ {last}))}

(* Insert, when the bytes of what was resident at p count for `replaced`.  *)
InsertCounting(p, entry, replaced) ==
  LET bytes == Bytes(entry)
      others == [map EXCEPT ![p] = None]
  IN
  \/ bytes > Capacity /\ UNCHANGED <<map, used>>
  \/ /\ bytes <= Capacity
     /\ \E E \in Evictions(others, bytes) :
          /\ map' = [q \in Paths |-> CASE q = p -> entry
                                       [] q # p /\ q \in E -> None
                                       [] OTHER -> map[q]]
          /\ used' = used - replaced - BytesAt(map, E) + bytes

(* Mutant: the bytes of the entry that is replaced stay counted.           *)
InsertLeaksBytes(p, entry) == InsertCounting(p, entry, 0)

(* SnapshotCache::insert.  An oversize snapshot leaves the old entry.      *)
Insert(p, entry) == InsertCounting(p, entry, Bytes(map[p]))

(* Mutant: a stale resident is discounted but stays.                       *)
DropKeepsEntry(p) ==
  /\ used' = used - Bytes(map[p])
  /\ UNCHANGED map

(* Dropping the entry of p: a stale resident, or invalidate.               *)
Drop(p) ==
  /\ map' = [map EXCEPT ![p] = None]
  /\ used' = used - Bytes(map[p])

-----------------------------------------------------------------------------
(* get_or_load *)

(* The call and its first stat.                                            *)
Call(r, p) ==
  /\ Goto(r, "idle", IF dir[p] = None THEN "peek" ELSE "get")
  /\ path' = [path EXCEPT ![r] = p]
  /\ stamp' = [stamp EXCEPT ![r] = Stat(p)]
  /\ seen' = [seen EXCEPT ![r] = {ValueAt(p)}]
  /\ past' = [past EXCEPT ![r] = {s \in Readers : pc[s] = "done"}]
  /\ UNCHANGED <<fsVars, shardVars, cell, resident, fd, joined, result, since,
                 reply, how, landed>>

(* SnapshotCache::get with a stamp.                                        *)
Get(r) ==
  LET entry == map[path[r]] IN
  /\ \/ /\ pc[r] = "get"
        /\ Proven(entry, stamp[r])
        /\ Answer(r, "ok", entry.data, "hit")
     \/ /\ Goto(r, "get", "peek")
        /\ ~Proven(entry, stamp[r])
        /\ UNCHANGED <<localVars, reply, how>>
  /\ UNCHANGED <<fsVars, shardVars, cell, path, joined, seen, past, landed>>

(* verify_racy_resident, first critical section.                           *)
Peek(r) ==
  LET entry == map[path[r]]
      racy == entry # None /\ entry.stamp.racy
  IN
  /\ Goto(r, "peek", IF racy THEN "open" ELSE "restat")
  /\ resident' = [resident EXCEPT ![r] = IF racy THEN entry ELSE None]
  /\ since' = [since EXCEPT ![r] = now]
  /\ UNCHANGED <<fsVars, shardVars, cell, path, stamp, fd, joined, result,
                 reply, how, seen, past, landed>>

(* open and fstat: the descriptor must be the entry's file, unchanged.     *)
OpenResident(r) ==
  LET p == path[r] IN
  /\ Goto(r, "open", "compare")
  /\ dir[p] # None /\ SameStamp(StampAt(p), resident[r].stamp)
  /\ fd' = [fd EXCEPT ![r] = dir[p]]
  /\ UNCHANGED <<fsVars, shardVars, cell, path, stamp, resident, joined,
                 result, since, reply, how, seen, past, landed>>

(* Mutant: the metadata compared on both sides is taken for proof.         *)
CompareNothing(r) ==
  /\ Goto(r, "compare", "confirm")
  /\ UNCHANGED <<fsVars, shardVars, cell, path, localVars, joined, reply, how,
                 seen, past, landed>>

(* read_to_end: the bytes must be the entry's.                             *)
CompareBytes(r) ==
  /\ Goto(r, "compare", "confirm")
  /\ file[fd[r]].data = resident[r].data
  /\ UNCHANGED <<fsVars, shardVars, cell, path, stamp, resident, fd, joined,
                 result, since, reply, how, seen, past, landed>>

(* The second fstat, whose stamp becomes the entry's.                      *)
ConfirmResident(r) ==
  LET after == StampOf(fd[r], file[fd[r]], now) IN
  /\ Goto(r, "confirm", "refresh")
  /\ SameStamp(after, resident[r].stamp)
  /\ stamp' = [stamp EXCEPT ![r] = after]
  /\ UNCHANGED <<fsVars, shardVars, cell, path, resident, fd, joined, result,
                 since, reply, how, seen, past, landed>>

(* Nothing was proved: a comparison above failed, or an I/O error, which   *)
(* may happen at any of them.                                              *)
GiveUp(r) ==
  /\ pc[r] \in {"open", "compare", "confirm"}
  /\ pc' = [pc EXCEPT ![r] = "restat"]
  /\ resident' = [resident EXCEPT ![r] = None]
  /\ fd' = [fd EXCEPT ![r] = None]
  /\ UNCHANGED <<fsVars, shardVars, cell, path, stamp, joined, result, since,
                 reply, how, seen, past, landed>>

(* The entry, when it is still under the same metadata, takes the newer    *)
(* capture, and the verified snapshot is served.                           *)
Refresh(r) ==
  LET p == path[r]
      entry == map[p]
      unmoved == entry # None /\ SameStamp(entry.stamp, resident[r].stamp)
  IN
  /\ pc[r] = "refresh"
  /\ map' = IF unmoved THEN [map EXCEPT ![p].stamp = stamp[r]] ELSE map
  /\ Answer(r, "ok", resident[r].data, "verified")
  /\ UNCHANGED <<fsVars, used, inflight, cell, path, joined, seen, past, landed>>

(* The second stat.                                                        *)
Restat(r) ==
  /\ Goto(r, "restat", "claim")
  /\ stamp' = [stamp EXCEPT ![r] = Stat(path[r])]
  /\ UNCHANGED <<fsVars, shardVars, cell, path, resident, fd, joined, result,
                 since, reply, how, seen, past, landed>>

(* Mutant: every miss makes a cell of its own.                             *)
ClaimAlone(r) ==
  LET p == path[r]
      entry == map[p]
  IN
  /\ pc[r] = "claim"
  /\ \/ /\ Proven(entry, stamp[r])
        /\ Answer(r, "ok", entry.data, "hit")
        /\ UNCHANGED <<shardVars, joined>>
     \/ /\ ~Proven(entry, stamp[r])
        /\ Drop(p)
        /\ inflight' = [inflight EXCEPT ![p] = r]
        /\ joined' = [joined EXCEPT ![r] = r]
        /\ pc' = [pc EXCEPT ![r] = "wait"]
        /\ UNCHANGED <<localVars, reply, how>>
  /\ UNCHANGED <<fsVars, cell, path, seen, past, landed>>

(* Claim or join: serve a proven resident; otherwise drop it, matching but *)
(* racy or not, and take the path's cell, a fresh one if there is none.    *)
Claim(r) ==
  LET p == path[r]
      entry == map[p]
      k == IF inflight[p] = None THEN r ELSE inflight[p]
  IN
  /\ pc[r] = "claim"
  /\ \/ /\ Proven(entry, stamp[r])
        /\ Answer(r, "ok", entry.data, "hit")
        /\ UNCHANGED <<shardVars, joined>>
     \/ /\ ~Proven(entry, stamp[r])
        /\ Drop(p)
        /\ inflight' = [inflight EXCEPT ![p] = k]
        /\ joined' = [joined EXCEPT ![r] = k]
        /\ pc' = [pc EXCEPT ![r] = "wait"]
        /\ UNCHANGED <<localVars, reply, how>>
  /\ UNCHANGED <<fsVars, cell, path, seen, past, landed>>

(* The cell's mutex: the first to take it while Pending loads, the others  *)
(* find it Ready.  An error reaches them as text, under an io::Error.      *)
TakeCell(r) ==
  LET k == joined[r] IN
  /\ pc[r] = "wait"
  /\ cell[k].holder = None
  /\ \/ /\ cell[k].state = "pending"
        /\ cell' = [cell EXCEPT ![k].holder = r]
        /\ pc' = [pc EXCEPT ![r] = "load"]
        /\ UNCHANGED <<localVars, reply, how>>
     \/ /\ cell[k].state = "ready"
        /\ Answer(r, "ok", cell[k].data, "joined")
        /\ UNCHANGED cell
     \/ /\ cell[k].state = "failed"
        /\ Answer(r, "io", None, "joined")
        /\ UNCHANGED cell
  /\ UNCHANGED <<fsVars, shardVars, path, joined, seen, past, landed>>

(* The loader, Snapshot::load.                                             *)
Load(r) ==
  LET p == path[r] IN
  /\ Goto(r, "load", "store")
  /\ \/ dir[p] # None /\ result' = [result EXCEPT ![r] =
           [code |-> "ok", data |-> ValueAt(p), stamp |-> StampAt(p)]]
     \/ dir[p] = None /\ result' = [result EXCEPT ![r] = [code |-> "not_found"]]
     \/ dir[p] # None /\ result' = [result EXCEPT ![r] = [code |-> "io"]]
  /\ since' = [since EXCEPT ![r] = now]
  /\ UNCHANGED <<fsVars, shardVars, cell, path, stamp, resident, fd, joined,
                 reply, how, seen, past, landed>>

(* Insert what was loaded and make the cell Ready.                         *)
Store(r) ==
  LET res == result[r]
      k == joined[r]
  IN
  /\ Goto(r, "store", "clear")
  /\ \/ /\ res.code = "ok"
        /\ Insert(path[r], [data |-> res.data, stamp |-> res.stamp])
        /\ cell' = [cell EXCEPT ![k].state = "ready", ![k].data = res.data]
     \/ /\ res.code # "ok"
        /\ cell' = [cell EXCEPT ![k].state = "failed"]
        /\ UNCHANGED <<map, used>>
  /\ UNCHANGED <<fsVars, inflight, path, localVars, joined, reply, how, seen, past,
                 landed>>

(* Mutant: the in-flight cell is removed only after a success.             *)
ClearOnSuccess(r) ==
  LET res == result[r] IN
  /\ pc[r] = "clear"
  /\ inflight' = IF res.code = "ok" THEN [inflight EXCEPT ![path[r]] = None]
                                    ELSE inflight
  /\ cell' = [cell EXCEPT ![joined[r]].holder = None]
  /\ Answer(r, res.code, IF res.code = "ok" THEN res.data ELSE None, "loaded")
  /\ UNCHANGED <<fsVars, map, used, path, joined, seen, past, landed>>

(* Mutant: the cell stays for the calls to come.                           *)
ClearKeepsCell(r) ==
  LET res == result[r] IN
  /\ pc[r] = "clear"
  /\ cell' = [cell EXCEPT ![joined[r]].holder = None]
  /\ Answer(r, res.code, IF res.code = "ok" THEN res.data ELSE None, "loaded")
  /\ UNCHANGED <<fsVars, shardVars, path, joined, seen, past, landed>>

(* Mutant: the guard of the cell is never dropped.                         *)
ClearHoldingCell(r) ==
  LET res == result[r] IN
  /\ pc[r] = "clear"
  /\ inflight' = [inflight EXCEPT ![path[r]] = None]
  /\ Answer(r, res.code, IF res.code = "ok" THEN res.data ELSE None, "loaded")
  /\ UNCHANGED <<fsVars, map, used, cell, path, joined, seen, past, landed>>

(* Remove the path's cell, whichever it is, and return, which unlocks it.  *)
Clear(r) ==
  LET res == result[r] IN
  /\ pc[r] = "clear"
  /\ inflight' = [inflight EXCEPT ![path[r]] = None]
  /\ cell' = [cell EXCEPT ![joined[r]].holder = None]
  /\ Answer(r, res.code, IF res.code = "ok" THEN res.data ELSE None, "loaded")
  /\ UNCHANGED <<fsVars, map, used, path, joined, seen, past, landed>>

-----------------------------------------------------------------------------
(* Persisted edits and writes, other programs, time *)

readerVars == <<cell, pc, path, localVars, joined, reply, how, past>>

Free(i) == (\A p \in Paths : dir[p] # i) /\ (\A r \in Readers : fd[r] # i)

(* The running calls on p have now also met value v there.                 *)
Witness(p, v) ==
  seen' = [r \in Readers |->
             IF pc[r] \in Running /\ path[r] = p THEN seen[r] \cup {v} ELSE seen[r]]

(* A finished file renamed over p; the inode that was there loses a link.  *)
RenameOver(p, i, c) ==
  /\ Free(i)
  /\ dir' = [dir EXCEPT ![p] = i]
  /\ file' = [k \in Inodes |->
                CASE k = i -> [data |-> c, mtime |-> now, ctime |-> now]
                  [] k # i /\ k = dir[p] -> [file[k] EXCEPT !.ctime = now]
                  [] OTHER -> file[k]]
  /\ Witness(p, c)

(* An edit or a write lands and confirms its stamp (GuardedWrite) ...      *)
Land(w) ==
  \E p \in Paths, c \in Contents, i \in Inodes :
    /\ landed[w] = None
    /\ RenameOver(p, i, c)
    /\ landed' = [landed EXCEPT ![w] =
         [path |-> p, at |-> now,
          entry |-> [data |-> c,
                     stamp |-> StampOf(i, [data |-> c, mtime |-> now, ctime |-> now], now)]]]
    /\ UNCHANGED <<shardVars, readerVars, now, disturbed>>

Owed(w) == landed[w] # None /\ landed[w].entry # None

(* ... and inserts its snapshot later, when the path lock is free again.   *)
PublishInsert(w) ==
  /\ Owed(w)
  /\ Insert(landed[w].path, landed[w].entry)
  /\ landed' = [landed EXCEPT ![w].entry = None]
  /\ UNCHANGED <<fsVars, inflight, readerVars, seen>>

Budget(kind) ==
  /\ kind \in Disturbances
  /\ disturbed < MaxDisturb
  /\ disturbed' = disturbed + 1

WriteInPlace(p, c) ==
  /\ Budget("inplace")
  /\ dir[p] # None
  /\ file' = [file EXCEPT ![dir[p]] = [data |-> c, mtime |-> now, ctime |-> now]]
  /\ Witness(p, c)
  /\ UNCHANGED <<shardVars, readerVars, now, dir, landed>>

Replace(p, i, c) ==
  /\ Budget("replace")
  /\ RenameOver(p, i, c)
  /\ UNCHANGED <<shardVars, readerVars, now, landed>>

Remove(p) ==
  /\ Budget("remove")
  /\ dir[p] # None
  /\ dir' = [dir EXCEPT ![p] = None]
  /\ file' = [file EXCEPT ![dir[p]].ctime = now]
  /\ Witness(p, Absent)
  /\ UNCHANGED <<shardVars, readerVars, now, landed>>

(* SnapshotCache::invalidate.                                              *)
Invalidate(p) ==
  /\ Budget("invalidate")
  /\ Drop(p)
  /\ inflight' = [inflight EXCEPT ![p] = None]
  /\ UNCHANGED <<now, dir, file, readerVars, seen, landed>>

(* A verification takes at most MaxStall, and bytes that were loaded or    *)
(* persisted are inserted at most MaxLag after they were stamped.          *)
Tick ==
  /\ now < MaxTime
  /\ \A r \in Readers :
       /\ pc[r] \in {"open", "compare", "confirm", "refresh"} => now < since[r] + MaxStall
       /\ pc[r] = "store" => now < since[r] + MaxLag
  /\ \A w \in Publishers : Owed(w) => now < landed[w].at + MaxLag
  /\ now' = now + 1
  /\ UNCHANGED <<shardVars, readerVars, dir, file, seen, landed, disturbed>>

-----------------------------------------------------------------------------

Init ==
  /\ now = 0
  /\ \E first \in [Paths -> Inodes], absent \in SUBSET Paths :
       /\ IsInjective(first)
       /\ dir = [p \in Paths |-> IF p \in absent THEN None ELSE first[p]]
  /\ \E c \in Contents : file = [i \in Inodes |-> [data |-> c, mtime |-> 0, ctime |-> 0]]
  /\ map = [p \in Paths |-> None]
  /\ used = 0
  /\ inflight = [p \in Paths |-> None]
  /\ cell = [k \in Readers |-> [holder |-> None, state |-> "pending", data |-> None]]
  /\ pc = [r \in Readers |-> "idle"]
  /\ path = [r \in Readers |-> None]
  /\ stamp = [r \in Readers |-> None]
  /\ resident = [r \in Readers |-> None]
  /\ fd = [r \in Readers |-> None]
  /\ joined = [r \in Readers |-> None]
  /\ result = [r \in Readers |-> None]
  /\ since = [r \in Readers |-> 0]
  /\ reply = [r \in Readers |-> None]
  /\ how = [r \in Readers |-> "none"]
  /\ seen = [r \in Readers |-> {}]
  /\ past = [r \in Readers |-> {}]
  /\ landed = [w \in Publishers |-> None]
  /\ disturbed = 0

Progress(r) ==
  \/ Get(r) \/ Peek(r) \/ OpenResident(r) \/ CompareBytes(r) \/ ConfirmResident(r)
  \/ GiveUp(r) \/ Refresh(r) \/ Restat(r) \/ Claim(r) \/ TakeCell(r) \/ Load(r)
  \/ Store(r) \/ Clear(r)

Next ==
  \/ \E r \in Readers : Progress(r) \/ \E p \in Paths : Call(r, p)
  \/ \E w \in Publishers : Land(w) \/ PublishInsert(w)
  \/ \E p \in Paths, c \in Contents :
       WriteInPlace(p, c) \/ \E i \in Inodes : Replace(p, i, c)
  \/ \E p \in Paths : Remove(p) \/ Invalidate(p)
  \/ Tick

Spec == Init /\ [][Next]_vars

(* A call runs on a thread of its own until it returns.                    *)
FairSpec == Spec /\ \A r \in Readers : WF_vars(Progress(r))

-----------------------------------------------------------------------------
(* Properties *)

(* Types of the variables: files, shard, cells, calls.                     *)
TypeOK ==
  /\ now \in Time
  /\ dir \in [Paths -> Inodes \cup {None}]
  /\ file \in [Inodes -> FileState]
  /\ map \in [Paths -> Entry \cup {None}]
  /\ used \in Nat
  /\ inflight \in [Paths -> Readers \cup {None}]
  /\ cell \in [Readers -> [holder : Readers \cup {None},
                           state : {"pending", "ready", "failed"},
                           data : Contents \cup {None}]]
  /\ pc \in [Readers -> Running \cup {"idle", "done"}]
  /\ stamp \in [Readers -> Stamp \cup {None}]
  /\ resident \in [Readers -> Entry \cup {None}]
  /\ fd \in [Readers -> Inodes \cup {None}]
  /\ joined \in [Readers -> Readers \cup {None}]
  /\ disturbed \in 0 .. MaxDisturb

(* The byte budget: `used` is the sum of the resident entries through      *)
(* every insertion, replacement, eviction, stale drop and invalidation     *)
(* (saturating_sub would hide a drift), and stays within the capacity.     *)
BudgetIsExact == used = BytesOf(map) /\ used <= Capacity

(* "Metadata equality alone is proof": an entry whose stamp is not racy    *)
(* and equals the file's holds the file's bytes, whatever the refreshes,   *)
(* late insertions and rewrites inside one tick.                           *)
EntriesAreTruthful ==
  \A p \in Paths :
    dir[p] # None /\ Proven(map[p], StampAt(p)) => map[p].data = ValueAt(p)

(* A call is served what the path held at some moment of the call or, when *)
(* it joined a load, of the call that loaded, which was still running when *)
(* it began: a cell carries no snapshot past the calls that shared it.     *)
ServesAreFresh ==
  \A r \in Readers :
    pc[r] = "done" /\ reply[r].code = "ok" =>
      \/ reply[r].data \in seen[r]
      \/ /\ how[r] = "joined"
         /\ \E s \in Readers \ past[r] :
              joined[s] = joined[r] /\ how[s] = "loaded" /\ reply[r].data \in seen[s]

(* Single flight: one load per path at a time.                             *)
OneLoaderPerPath ==
  \A r, s \in Readers :
    r # s /\ {pc[r], pc[s]} \subseteq {"load", "store", "clear"}
      => path[r] # path[s]

(* An in-flight cell never outlives the calls that can settle and clear    *)
(* it, after an error least of all: a later call would inherit the error.  *)
CellsAreTransient ==
  \A p \in Paths :
    inflight[p] # None =>
      \/ \E r \in Readers : path[r] = p /\ pc[r] \in {"load", "store", "clear"}
      \/ /\ cell[inflight[p]].state = "pending"
         /\ \E r \in Readers : joined[r] = inflight[p] /\ pc[r] = "wait"

(* Every call returns: no call waits for a cell nobody settles.            *)
CallsReturn == \A r \in Readers : pc[r] = "get" ~> pc[r] = "done"

=============================================================================
