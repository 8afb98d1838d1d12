----------------------------- MODULE GuardedWrite -----------------------------
(***************************************************************************)
(* The mutation path of hashline: the blocking bodies of the `edit` and    *)
(* `write` tools (src/src/edit/mod.rs, src/src/write.rs) down through      *)
(* atomic_write and atomic_create (src/src/persist.rs), interleaved with   *)
(* each other, with other programs that write the same files, and with a   *)
(* crash and restart of the server.                                        *)
(*                                                                         *)
(* A request is one spawn_blocking task.  A step is one system call the    *)
(* others can observe; what the task computes between two of them is part  *)
(* of the step before.  A load of a snapshot is one step: StableRead is    *)
(* about the system calls inside it.                                       *)
(***************************************************************************)
EXTENDS FileStamps, FiniteSets

CONSTANTS
  Reqs,           \* edit and write requests
  Names,          \* path spellings requests use (PathBuf values)
  Files,          \* directory entries
  Canon,          \* Canon[n] is the directory entry the spelling n resolves to
  Empty,          \* the empty byte string
  Absent,         \* expect "absent", and "there is no file"
  Jobs,           \* the calls a client may make
  ExternalKinds,  \* what other programs do: "inplace", "replace", "remove"
  MaxExternal,    \* bound on their steps
  MaxRestarts     \* bound on crashes

AllJobs ==
  [op : {"edit"}, name : Names, expect : Contents, new : Contents]
    \cup
  [op : {"write"}, name : Names, expect : Contents \cup {Absent}, new : Contents]

ASSUME WriteAssumption ==
  /\ Canon \in [Names -> Files]
  /\ Empty \in Contents
  /\ Absent \notin Contents
  /\ Absent # None
  /\ None \notin Reqs \cup AllJobs
  /\ Jobs \subseteq AllJobs
  /\ ExternalKinds \subseteq {"inplace", "replace", "remove"}
  /\ MaxExternal \in Nat
  /\ MaxRestarts \in Nat

VARIABLES
  now,       \* the clock
  dir,       \* dir[f]: the inode linked at f, or None
  inode,     \* inode[i]: its FileState, or None when the number is free
  seed,      \* how many times the process seed was drawn: snapshot scope
  lock,      \* lock[n]: the request holding path_lock(n), or None
  pc,        \* where each request is
  job,       \* its call
  plan,      \* which persistence call it decided on
  base,      \* stamp captured when its base snapshot was loaded, or None
  temp,      \* the inode its temp name links on disk, or None
  tstamp,    \* the temp descriptor's stamp, then the confirmed stamp, or None
  reply,     \* its result
  cache,     \* cache[n]: the snapshot last published under n, or None
  minted,    \* history: the seed its expected identity was minted under
  replaced,  \* history: what was at the destination when its bytes landed
  raced,     \* history: another program wrote between last check and landing
  touched,   \* history: another program wrote between landing and confirmation
  stuck,     \* history: the system kept its temp, or the metadata, from it
  removed,   \* history: number of removals of f by other programs
  external   \* number of steps other programs took

fsVars     == <<now, dir, inode, external, removed>>
serverVars == <<seed, lock, cache>>
callVars   == <<job, minted, plan>>
worldVars  == <<now, external, removed>>
handleVars == <<base, temp, stuck, tstamp>>
ghostVars  == <<raced, touched>>
vars     == <<now, dir, inode, seed, lock, pc, job, minted, plan, base, temp,
              tstamp, reply, cache, replaced, raced, touched, stuck, removed,
              external>>

-----------------------------------------------------------------------------
(* Helpers *)

FileOf(r) == Canon[job[r].name]

(* The bytes a fresh load of f would see, or Absent.                       *)
ValueAt(f) == IF dir[f] = None THEN Absent ELSE inode[dir[f]].data

(* fs::metadata(f), when f exists.                                         *)
StampAt(f) == StampOf(dir[f], inode[dir[f]], now)

Result(code, header) == [code |-> code, header |-> header]

Pending == Result("pending", None)

(* The part of the path in which the path lock is held.                    *)
Locked == {"locked", "staged", "verify", "commit", "unlink", "landed"}

(* Where a request's own temp is still to be landed or removed.            *)
Staging == {"staged", "verify", "commit", "unlink"}

(* Inodes linked under a temporary name: no two names are ever the same.   *)
LiveTemps == {temp[r] : r \in Reqs}

(* Inode i once f no longer points to it: it loses a link, which moves its *)
(* ctime, and it is gone with its last link.                               *)
Unlinked(i, f) ==
  IF (\E g \in Files \ {f} : dir[g] = i) \/ i \in LiveTemps
    THEN [inode[i] EXCEPT !.ctime = now] ELSE None

(* The inode table after the entry f is pointed at inode i, whose state    *)
(* becomes st: the file that was there loses a link.                       *)
Relinked(f, i, st) ==
  [k \in Inodes |->
     IF k = i THEN st ELSE IF k = dir[f] THEN Unlinked(k, f) ELSE inode[k]]

(* Replying drops the request's locals.                                    *)
Finish(r, code, header) ==
  /\ pc' = [pc EXCEPT ![r] = "done"]
  /\ reply' = [reply EXCEPT ![r] = Result(code, header)]

Goto(r, from, to) ==
  /\ pc[r] = from
  /\ pc' = [pc EXCEPT ![r] = to]

Unlock(r) == lock' = [lock EXCEPT ![job[r].name] = None]

(* The temp stays on disk, and nothing will try to remove it again.        *)
KeepTemp(r) ==
  /\ stuck' = [stuck EXCEPT ![r] = TRUE]
  /\ UNCHANGED <<inode, temp>>

(* `let _ = fs::remove_file(&temp_path)`: the name goes, and the inode with *)
(* its last link; or the removal fails and nobody looks.                   *)
RemoveTemp(r) ==
  LET i == temp[r] IN
  \/ /\ inode' = [inode EXCEPT ![i] = IF \E g \in Files : dir[g] = i
                                        THEN [@ EXCEPT !.ctime = now] ELSE None]
     /\ temp' = [temp EXCEPT ![r] = None]
     /\ UNCHANGED stuck
  \/ KeepTemp(r)

(* A persistence call fails once its temp exists: the lock guard is        *)
(* dropped and the mapped error, which carries no header, returned.        *)
ReturnError(r, code) ==
  /\ base' = [base EXCEPT ![r] = None]
  /\ tstamp' = [tstamp EXCEPT ![r] = None]
  /\ Unlock(r)
  /\ Finish(r, code, None)
  /\ UNCHANGED <<callVars, worldVars, ghostVars, dir, seed, cache, replaced>>

(* Mutant: an error path that forgets to remove the temp file.             *)
AbandonKeepsTemp(r, code) == UNCHANGED <<inode, temp, stuck>> /\ ReturnError(r, code)

(* Mutant: an error path that leaks the lock guard.                        *)
AbandonHoldingLock(r, code) ==
  /\ RemoveTemp(r)
  /\ base' = [base EXCEPT ![r] = None]
  /\ tstamp' = [tstamp EXCEPT ![r] = None]
  /\ Finish(r, code, None)
  /\ UNCHANGED <<callVars, worldVars, ghostVars, dir, seed, lock, cache, replaced>>

(* Every error exit but one (CheckStampFails) tries to remove the temp.    *)
Abandon(r, code) == RemoveTemp(r) /\ ReturnError(r, code)

-----------------------------------------------------------------------------
(* A request *)

(* The task goes on to persist with plan p, or answers at once.            *)
Proceed(r, p, stamp) ==
  /\ pc' = [pc EXCEPT ![r] = "wantLock"]
  /\ plan' = [plan EXCEPT ![r] = p]
  /\ base' = [base EXCEPT ![r] = stamp]
  /\ UNCHANGED reply

Refuse(r, code, header) ==
  /\ Finish(r, code, header)
  /\ UNCHANGED <<plan, base>>

(* validate_reference_write on what the load saw.  `sameScope`: the        *)
(* expected identity was minted under this process seed, so it equals the  *)
(* loaded identity iff the bytes are equal.                                *)
DecideWrite(r, j, sameScope) ==
  LET f == Canon[j.name]
      seen == ValueAt(f)
      current == sameScope /\ j.expect = seen
  IN
  /\ j.op = "write"
  /\ \/ j.expect = Absent /\ seen = Absent /\ Proceed(r, "create", None)
     \/ j.expect = Absent /\ seen # Absent /\ Refuse(r, "already_exists", seen)
     \/ j.expect # Absent /\ seen = Absent /\ Refuse(r, "not_found", None)
     \/ /\ j.expect # Absent /\ seen # Absent
        /\ IF current THEN Proceed(r, "replace", StampAt(f))
                      ELSE Refuse(r, "snapshot_conflict", seen)

(* The edit tool: a missing file is edited as the empty one (create_new_   *)
(* file), and nothing is expected of the destination then.  The batch may  *)
(* be refused for its positions, ranges or size ("invalid").               *)
DecideEdit(r, j, sameScope) ==
  LET f == Canon[j.name]
      source == IF dir[f] = None THEN Empty ELSE ValueAt(f)
      current == sameScope /\ j.expect = source
  IN
  /\ j.op = "edit"
  /\ \/ ~current /\ Refuse(r, "snapshot_conflict", source)
     \/ current /\ Refuse(r, "invalid", None)
     \/ /\ current
        /\ IF dir[f] = None THEN Proceed(r, "editCreate", None)
                            ELSE Proceed(r, "replace", StampAt(f))

(* The load, which may also fail for any reason but a missing file, and    *)
(* the decision.  The client may name an identity of any process seed.     *)
Decide(r, j, sameScope) ==
  \/ Refuse(r, "unreadable", None)
  \/ DecideWrite(r, j, sameScope)
  \/ DecideEdit(r, j, sameScope)

(* Mutant: identities that are not scoped to one process seed.             *)
BeginUnseeded(r) ==
  \E j \in Jobs, s \in 0 .. seed :
    /\ pc[r] = "idle"
    /\ job' = [job EXCEPT ![r] = j]
    /\ minted' = [minted EXCEPT ![r] = s]
    /\ Decide(r, j, TRUE)
    /\ UNCHANGED <<fsVars, serverVars, ghostVars, temp, stuck, tstamp, replaced>>

Begin(r) ==
  \E j \in Jobs, s \in 0 .. seed :
    /\ pc[r] = "idle"
    /\ job' = [job EXCEPT ![r] = j]
    /\ minted' = [minted EXCEPT ![r] = s]
    /\ Decide(r, j, s = seed)
    /\ UNCHANGED <<fsVars, serverVars, ghostVars, temp, stuck, tstamp, replaced>>

(* Mutant: the guard of path_lock dropped at once (`let _ = path_lock`).   *)
AcquireLockAndDrop(r) ==
  /\ Goto(r, "wantLock", "locked")
  /\ lock[job[r].name] = None
  /\ UNCHANGED <<fsVars, serverVars, callVars, handleVars, ghostVars, reply, replaced>>

(* path_lock: one mutex per path spelling.                                 *)
AcquireLock(r) ==
  /\ Goto(r, "wantLock", "locked")
  /\ lock[job[r].name] = None
  /\ lock' = [lock EXCEPT ![job[r].name] = r]
  /\ UNCHANGED <<fsVars, callVars, handleVars, ghostVars, seed, reply, cache,
                 replaced>>

(* write_unique_temp: a fresh inode holding all the bytes; an edit that    *)
(* creates and a create have nothing to compare before they land.          *)
StageTemp(r) ==
  \E i \in Inodes :
    LET st == [data |-> job[r].new, mtime |-> now, ctime |-> now] IN
    /\ Goto(r, "locked", IF plan[r] = "replace" THEN "staged" ELSE "commit")
    /\ inode[i] = None
    /\ inode' = [inode EXCEPT ![i] = st]
    /\ temp' = [temp EXCEPT ![r] = i]
    /\ tstamp' = [tstamp EXCEPT ![r] = StampOf(i, st, now)]
    /\ UNCHANGED <<serverVars, callVars, worldVars, ghostVars, dir, base,
                   stuck, reply, replaced>>

(* write_unique_temp fails, before it created the file or after; then it   *)
(* tries to remove it, whatever part of the bytes it holds.                *)
StageTempFails(r) ==
  /\ pc[r] = "locked"
  /\ Unlock(r)
  /\ base' = [base EXCEPT ![r] = None]
  /\ Finish(r, "io", None)
  /\ \/ UNCHANGED <<inode, temp, stuck>>
     \/ \E i \in Inodes, part \in {Empty, job[r].new} :
          /\ inode[i] = None
          /\ inode' = [inode EXCEPT ![i] = [data |-> part, mtime |-> now, ctime |-> now]]
          /\ temp' = [temp EXCEPT ![r] = i]
          /\ stuck' = [stuck EXCEPT ![r] = TRUE]
  /\ UNCHANGED <<callVars, worldVars, ghostVars, dir, seed, tstamp, cache,
                 replaced>>

(* Mutant: only the destination's existence is checked.                    *)
DestinationExists(r) == dir[FileOf(r)] # None

(* The stat immediately before rename, against the base snapshot's stamp.  *)
DestinationStampHolds(r) ==
  LET f == FileOf(r) IN dir[f] # None /\ SameStamp(StampAt(f), base[r])

(* Mutant: a racy base stamp is trusted like any other.                    *)
CheckStampOnly(r) ==
  /\ Goto(r, "staged", "commit")
  /\ DestinationStampHolds(r)
  /\ UNCHANGED <<fsVars, serverVars, callVars, handleVars, ghostVars, reply,
                 replaced>>

CheckStamp(r) ==
  /\ Goto(r, "staged", IF base[r].racy THEN "verify" ELSE "commit")
  /\ DestinationStampHolds(r)
  /\ UNCHANGED <<fsVars, serverVars, callVars, handleVars, ghostVars, reply,
                 replaced>>

(* The stat fails or finds another file.  Where the metadata cannot be     *)
(* decoded, the `?` returns without a thought for the temp.                *)
CheckStampFails(r) ==
  /\ pc[r] = "staged"
  /\ \/ ~DestinationStampHolds(r) /\ Abandon(r, "snapshot_conflict")
     \/ Abandon(r, "io")
     \/ KeepTemp(r) /\ ReturnError(r, "io")

(* A racy base stamp: the destination's bytes are read (one byte past the  *)
(* expected length at most) and hashed against the base identity.          *)
VerifyBytes(r) ==
  /\ Goto(r, "verify", "commit")
  /\ ValueAt(FileOf(r)) = job[r].expect
  /\ UNCHANGED <<fsVars, serverVars, callVars, handleVars, ghostVars, reply,
                 replaced>>

VerifyBytesFails(r) ==
  /\ pc[r] = "verify"
  /\ \/ ValueAt(FileOf(r)) # job[r].expect /\ Abandon(r, "snapshot_conflict")
     \/ Abandon(r, "io")

(* rename(temp, destination): replaces whatever is there, atomically, and  *)
(* moves the temp inode's ctime.                                           *)
Rename(r) ==
  LET f == FileOf(r) IN
  /\ plan[r] # "create"
  /\ Goto(r, "commit", "landed")
  /\ inode' = Relinked(f, temp[r], [inode[temp[r]] EXCEPT !.ctime = now])
  /\ dir' = [dir EXCEPT ![f] = temp[r]]
  /\ temp' = [temp EXCEPT ![r] = None]
  /\ replaced' = [replaced EXCEPT ![r] = ValueAt(f)]
  /\ UNCHANGED <<serverVars, callVars, worldVars, ghostVars, base, stuck,
                 tstamp, reply>>

(* Mutant: a create that renames instead of linking.                       *)
LinkByRename(r) ==
  LET f == FileOf(r) IN
  /\ plan[r] = "create"
  /\ Goto(r, "commit", "unlink")
  /\ dir' = [dir EXCEPT ![f] = temp[r]]
  /\ inode' = Relinked(f, temp[r], [inode[temp[r]] EXCEPT !.ctime = now])
  /\ replaced' = [replaced EXCEPT ![r] = ValueAt(f)]
  /\ UNCHANGED <<serverVars, callVars, worldVars, handleVars, ghostVars, reply>>

(* link(temp, destination): refuses an existing destination.               *)
Link(r) ==
  LET f == FileOf(r) IN
  /\ plan[r] = "create"
  /\ Goto(r, "commit", "unlink")
  /\ dir[f] = None
  /\ dir' = [dir EXCEPT ![f] = temp[r]]
  /\ inode' = [inode EXCEPT ![temp[r]].ctime = now]
  /\ replaced' = [replaced EXCEPT ![r] = Absent]
  /\ UNCHANGED <<serverVars, callVars, worldVars, handleVars, ghostVars, reply>>

(* Mutant: AlreadyExists taken for success.                                *)
LinkLosesUnnoticed(r) ==
  /\ plan[r] = "create"
  /\ Goto(r, "commit", "publish")
  /\ dir[FileOf(r)] # None
  /\ RemoveTemp(r)
  /\ tstamp' = [tstamp EXCEPT ![r] = None]
  /\ Unlock(r)
  /\ UNCHANGED <<callVars, worldVars, ghostVars, dir, seed, base, reply, cache,
                 replaced>>

(* DestinationExists: the temp is to go, the guard is dropped, and         *)
(* write.rs goes on to reload the winner.                                  *)
LinkLoses(r) ==
  /\ plan[r] = "create"
  /\ Goto(r, "commit", "lost")
  /\ dir[FileOf(r)] # None
  /\ RemoveTemp(r)
  /\ tstamp' = [tstamp EXCEPT ![r] = None]
  /\ Unlock(r)
  /\ UNCHANGED <<callVars, worldVars, ghostVars, dir, seed, base, reply, cache,
                 replaced>>

RenameOrLinkFails(r) == pc[r] = "commit" /\ Abandon(r, "io")

(* atomic_create removes the temp name after linking: one link fewer, so   *)
(* ctime moves again.  The destination may meanwhile be gone or replaced.  *)
(* If the removal fails, the temp name stays a second link to the file.    *)
UnlinkTemp(r) ==
  /\ Goto(r, "unlink", "landed")
  /\ RemoveTemp(r)
  /\ UNCHANGED <<serverVars, callVars, worldVars, ghostVars, dir, base, tstamp,
                 reply, replaced>>

(* fsync of the parent (which only takes time here), then confirm_stamp    *)
(* and the release of the lock on return.                                  *)
Confirm(r) ==
  LET f == FileOf(r)
      confirmed == dir[f] # None /\ ConfirmedAfterRename(tstamp[r], StampAt(f))
  IN
  /\ Goto(r, "landed", "publish")
  /\ tstamp' = [tstamp EXCEPT ![r] = IF confirmed THEN StampAt(f) ELSE None]
  /\ base' = [base EXCEPT ![r] = None]
  /\ Unlock(r)
  /\ UNCHANGED <<fsVars, callVars, ghostVars, seed, temp, stuck, reply, cache,
                 replaced>>

(* Mutant: the entry is inserted whether or not its stamp was confirmed.   *)
PublishAlways(r) ==
  LET entry == [data |-> job[r].new, stamp |-> tstamp[r], raced |-> touched[r]] IN
  /\ pc[r] = "publish"
  /\ cache' = [cache EXCEPT ![job[r].name] = entry]
  /\ tstamp' = [tstamp EXCEPT ![r] = None]
  /\ Finish(r, "ok", job[r].new)
  /\ UNCHANGED <<fsVars, callVars, ghostVars, seed, lock, base, temp, stuck, replaced>>

(* publish / the tail of write.rs: the cache entry, only under a confirmed *)
(* stamp, then the success.                                                *)
Publish(r) ==
  LET n == job[r].name
      entry == [data |-> job[r].new, stamp |-> tstamp[r], raced |-> touched[r]]
  IN
  /\ pc[r] = "publish"
  /\ cache' = IF tstamp[r] = None THEN cache ELSE [cache EXCEPT ![n] = entry]
  /\ tstamp' = [tstamp EXCEPT ![r] = None]
  /\ Finish(r, "ok", job[r].new)
  /\ UNCHANGED <<fsVars, callVars, ghostVars, seed, lock, base, temp, stuck, replaced>>

(* lose_create_race: reload and report against the fresh state.            *)
LoseCreateRace(r) ==
  LET seen == ValueAt(FileOf(r)) IN
  /\ pc[r] = "lost"
  /\ \/ seen # Absent /\ Finish(r, "already_exists", seen)
     \/ Finish(r, "io", None)
  /\ UNCHANGED <<fsVars, serverVars, callVars, handleVars, ghostVars, replaced>>

-----------------------------------------------------------------------------
(* The rest of the world *)

(* What another program's step on f does to the history variables.         *)
Disturb(f) ==
  LET past(r, where) == pc[r] \in where /\ FileOf(r) = f IN
  /\ raced' = [r \in Reqs |-> raced[r] \/ past(r, {"commit"})]
  /\ touched' = [r \in Reqs |-> touched[r] \/ past(r, {"unlink", "landed"})]
  /\ external' = external + 1

ExternalBudget(kind) == kind \in ExternalKinds /\ external < MaxExternal

(* Another program rewrites the file it has open.                          *)
ExternalWrite(f, c) ==
  /\ ExternalBudget("inplace")
  /\ dir[f] # None
  /\ inode' = [inode EXCEPT ![dir[f]] = [data |-> c, mtime |-> now, ctime |-> now]]
  /\ Disturb(f)
  /\ UNCHANGED <<serverVars, callVars, handleVars, now, dir, pc, reply,
                 replaced, removed>>

(* Another program renames a finished file over f; its bytes may be older  *)
(* than the rename.                                                        *)
ExternalReplace(f, c, written) ==
  \E i \in Inodes :
    /\ ExternalBudget("replace")
    /\ written <= now
    /\ inode[i] = None
    /\ inode' = Relinked(f, i, [data |-> c, mtime |-> written, ctime |-> now])
    /\ dir' = [dir EXCEPT ![f] = i]
    /\ Disturb(f)
    /\ UNCHANGED <<serverVars, callVars, handleVars, now, pc, reply, replaced,
                   removed>>

ExternalRemove(f) ==
  /\ ExternalBudget("remove")
  /\ dir[f] # None
  /\ inode' = [inode EXCEPT ![dir[f]] = Unlinked(dir[f], f)]
  /\ dir' = [dir EXCEPT ![f] = None]
  /\ removed' = [removed EXCEPT ![f] = @ + 1]
  /\ Disturb(f)
  /\ UNCHANGED <<serverVars, callVars, handleVars, now, pc, reply, replaced>>

Tick ==
  /\ now < MaxTime
  /\ now' = now + 1
  /\ UNCHANGED <<serverVars, callVars, handleVars, ghostVars, dir, inode, pc,
                 reply, replaced, removed, external>>

(* The server dies and is started again: its tasks, locks and cache are    *)
(* gone, its temp files are not, and a new seed is drawn.                  *)
CrashRestart ==
  LET running == {r \in Reqs : pc[r] \notin {"idle", "done", "dead"}} IN
  /\ seed < MaxRestarts
  /\ seed' = seed + 1
  /\ lock' = [n \in Names |-> None]
  /\ pc' = [r \in Reqs |-> IF r \in running THEN "dead" ELSE pc[r]]
  /\ base' = [r \in Reqs |-> None]
  /\ tstamp' = [r \in Reqs |-> None]
  /\ cache' = [n \in Names |-> None]
  /\ UNCHANGED <<fsVars, callVars, temp, stuck, ghostVars, reply, replaced>>

-----------------------------------------------------------------------------

Init ==
  /\ now = 0
  /\ dir \in [Files -> Inodes \cup {None}]
  /\ \A f, g \in Files : dir[f] = dir[g] /\ dir[f] # None => f = g
  /\ inode \in [Inodes -> [data : Contents, mtime : {0}, ctime : {0}] \cup {None}]
  /\ \A i \in Inodes : inode[i] # None <=> \E f \in Files : dir[f] = i
  /\ seed = 0
  /\ lock = [n \in Names |-> None]
  /\ pc = [r \in Reqs |-> "idle"]
  /\ job = [r \in Reqs |-> None]
  /\ minted = [r \in Reqs |-> 0]
  /\ plan = [r \in Reqs |-> "none"]
  /\ base = [r \in Reqs |-> None]
  /\ temp = [r \in Reqs |-> None]
  /\ tstamp = [r \in Reqs |-> None]
  /\ reply = [r \in Reqs |-> Pending]
  /\ cache = [n \in Names |-> None]
  /\ replaced = [r \in Reqs |-> None]
  /\ raced = [r \in Reqs |-> FALSE]
  /\ touched = [r \in Reqs |-> FALSE]
  /\ stuck = [r \in Reqs |-> FALSE]
  /\ removed = [f \in Files |-> 0]
  /\ external = 0

(* The steps of a request that the runtime keeps running once begun.       *)
Progress(r) ==
  \/ AcquireLock(r) \/ StageTemp(r) \/ StageTempFails(r)
  \/ CheckStamp(r) \/ CheckStampFails(r) \/ VerifyBytes(r) \/ VerifyBytesFails(r)
  \/ Rename(r) \/ Link(r) \/ LinkLoses(r) \/ RenameOrLinkFails(r) \/ UnlinkTemp(r)
  \/ Confirm(r) \/ Publish(r) \/ LoseCreateRace(r)

External ==
  \E f \in Files :
    \/ \E c \in Contents : ExternalWrite(f, c)
    \/ \E c \in Contents, t \in Time : ExternalReplace(f, c, t)
    \/ ExternalRemove(f)

Next ==
  \/ \E r \in Reqs : Begin(r) \/ Progress(r)
  \/ External
  \/ Tick
  \/ CrashRestart

Spec == Init /\ [][Next]_vars

(* tokio's blocking pool runs a task it was given to the end.              *)
FairSpec == Spec /\ \A r \in Reqs : WF_vars(Progress(r))

-----------------------------------------------------------------------------
(* Properties *)

Codes == {"pending", "ok", "io", "unreadable", "not_found", "already_exists",
          "snapshot_conflict", "invalid"}

Entry == [data : Contents, stamp : Stamp, raced : BOOLEAN]

(* Types of the variables: file table, lock table, requests, cache.        *)
TypeOK ==
  /\ now \in Time
  /\ dir \in [Files -> Inodes \cup {None}]
  /\ inode \in [Inodes -> FileState \cup {None}]
  /\ seed \in 0 .. MaxRestarts
  /\ lock \in [Names -> Reqs \cup {None}]
  /\ pc \in [Reqs -> Locked \cup {"idle", "wantLock", "publish", "lost",
                                   "done", "dead"}]
  /\ job \in [Reqs -> Jobs \cup {None}]
  /\ minted \in [Reqs -> 0 .. MaxRestarts]
  /\ plan \in [Reqs -> {"none", "replace", "create", "editCreate"}]
  /\ base \in [Reqs -> Stamp \cup {None}]
  /\ temp \in [Reqs -> Inodes \cup {None}]
  /\ tstamp \in [Reqs -> Stamp \cup {None}]
  /\ reply \in [Reqs -> [code : Codes, header : Contents \cup {None}]]
  /\ cache \in [Names -> Entry \cup {None}]
  /\ replaced \in [Reqs -> Contents \cup {Absent, None}]
  /\ raced \in [Reqs -> BOOLEAN]
  /\ touched \in [Reqs -> BOOLEAN]
  /\ stuck \in [Reqs -> BOOLEAN]
  /\ removed \in [Files -> 0 .. MaxExternal]
  /\ external \in 0 .. MaxExternal

(* Same-server writes to one directory entry are serialized: at most one   *)
(* request is between path_lock and its release for each file.             *)
SerializedWriters ==
  \A r, s \in Reqs :
    r # s /\ pc[r] \in Locked /\ pc[s] \in Locked => FileOf(r) # FileOf(s)

(* No lost update: a guarded persistence call lands only on the bytes its  *)
(* client named, unless another program wrote in the documented gap        *)
(* between the last check and the rename.                                  *)
NoLostUpdate ==
  \A r \in Reqs :
    replaced[r] # None /\ plan[r] # "editCreate" /\ ~raced[r]
      => replaced[r] = job[r].expect

(* An edit replaces the snapshot its client named, or creates a file that  *)
(* is not there; it never replaces anything else.                          *)
EditReplacesNamedSnapshot ==
  \A r \in Reqs :
    replaced[r] # None /\ job[r].op = "edit" /\ ~raced[r]
      => \/ replaced[r] = job[r].expect
         \/ replaced[r] = Absent /\ job[r].expect = Empty

(* A success is reported exactly for bytes that reached the destination,   *)
(* and every refusal and failure left the destination alone.               *)
AnswerMatchesDisk ==
  \A r \in Reqs :
    pc[r] = "done" => (reply[r].code = "ok" <=> replaced[r] # None)

(* Concurrent exclusive creates of one file have one winner for each time  *)
(* the file was absent: the start, and every removal by another program.   *)
CreatesAreExclusive ==
  \A f \in Files :
    Cardinality({r \in Reqs : /\ replaced[r] # None
                              /\ job[r].op = "write" /\ job[r].expect = Absent
                              /\ FileOf(r) = f})
      <= 1 + removed[f]

(* An inode is in use exactly while a destination or a temp name links it, *)
(* whoever else renames, removes and links meanwhile; and a temp name      *)
(* stays on disk only while its request is still to land or remove it, or  *)
(* because the server died in that request, the one attempt to remove it   *)
(* failed, or the destination's metadata could not be decoded.             *)
InodesAccountedFor ==
  /\ \A i \in Inodes :
       inode[i] # None <=> (\E f \in Files : dir[f] = i) \/ i \in LiveTemps
  /\ \A r \in Reqs :
       temp[r] # None => pc[r] \in Staging \cup {"dead"} \/ stuck[r]

(* What is published can be trusted on metadata alone outside the racy     *)
(* window: an entry whose stamp is not racy and still equals the path's    *)
(* holds the file's bytes.  Exempt are the entries of a request whose      *)
(* destination another program wrote between landing and confirmation.     *)
PublishedStampsAreTruthful ==
  \A n \in Names :
    LET f == Canon[n] e == cache[n] IN
    e # None /\ ~e.raced /\ dir[f] # None
      => (~e.stamp.racy /\ SameStamp(e.stamp, StampAt(f)) => e.data = inode[dir[f]].data)

(* An identity minted before a restart never authorizes a change after it: *)
(* the seed scopes every snapshot to one process.                          *)
OldSnapshotsAuthorizeNothing ==
  [][\A r \in Reqs :
       replaced'[r] # replaced[r] /\ job[r].expect # Absent => minted[r] = seed]_vars

(* The mutation path implements VersionedFile: whatever the interleaving,  *)
(* a request takes effect in one step, replacing the value its own call    *)
(* named by the bytes its own call gave, or not at all, and the answer     *)
(* says which.  Other programs are not part of the promise. *)
Promise == INSTANCE VersionedFile WITH
  Values    <- Contents,
  Calls     <- Jobs,
  FileNamed <- Canon,
  call      <- job,
  value     <- [f \in Files |-> ValueAt(f)],
  landed    <- [r \in Reqs |-> replaced[r] # None],
  answer    <- [r \in Reqs |-> IF pc[r] # "done" THEN "none"
                               ELSE IF reply[r].code = "ok" THEN "ok" ELSE "error"]

ImplementsVersionedFile == Promise!Spec

(* A request that got as far as the path lock is answered, or dies with    *)
(* the server.                                                             *)
EveryRequestIsAnswered ==
  \A r \in Reqs : pc[r] = "wantLock" ~> pc[r] \in {"done", "dead"}

=============================================================================
