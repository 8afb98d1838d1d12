------------------------------ MODULE Durability ------------------------------
(***************************************************************************)
(* The durability modes of atomic_write and atomic_create                  *)
(* (src/src/persist.rs): what is at one destination after the server is    *)
(* killed or the power fails between any two steps of the requests that    *)
(* write it.  GuardedWrite is about the guards of these steps against      *)
(* other programs, which are left out here.                                *)
(*                                                                         *)
(* A request writes its temporary file into the page cache, flushes it as  *)
(* its mode says, renames or links it into place, and under `full` syncs   *)
(* the parent directory.  The kernel writes back data, and commits the     *)
(* entries of the directory in the order they were made, whenever it       *)
(* likes.  A power loss keeps what is on the medium.                       *)
(***************************************************************************)
EXTENDS Naturals, Sequences

CONSTANTS
  None,
  Reqs,       \* requests, each with the inode of its temporary file
  Old,        \* the inode that was at the destination before
  Modes,      \* durability modes in use: "full", "barrier", "none"
  Platforms,  \* "macos", "unix", "other": where the server may run
  MaxCrashes  \* bound on kills and power losses

(* What a request does to the destination, and its mode.                   *)
Jobs == [op : {"guarded", "unguarded", "create"}, mode : Modes]

ASSUME DurabilityAssumption ==
  /\ None \notin Reqs \cup Jobs
  /\ Old \notin Reqs \cup {None}
  /\ Modes \subseteq {"full", "barrier", "none"}
  /\ Platforms \subseteq {"macos", "unix", "other"}
  /\ MaxCrashes \in Nat

VARIABLES
  platform,   \* the platform
  ordered,    \* the file system writes the data of a file before an entry
              \* that names it (its ordered mode)
  lock,       \* the request holding path_lock, or None
  pc,         \* where each request is
  job,        \* its operation and mode, or None
  base,       \* what was at the destination when it was decided, or None
  mem,        \* mem[i]: how much of inode i was written
  disk,       \* disk[i]: how much of that is on the medium
  barred,     \* inodes the drive writes before any later entry
  parent,     \* the parent directory: "missing", "new" or "stable"
  landed,     \* what was renamed or linked to the destination, the latest last
  committed,  \* how many of these entries are on the medium
  reply,      \* "none", "ok" or "error"
  unsynced,   \* history: requests whose sync of the parent failed
  durable,    \* history: requests `full` made a promise to
  crashes     \* number of kills and power losses

fixedVars  == <<platform, ordered>>
dataVars   == <<mem, disk, barred>>
entryVars  == <<parent, landed, committed>>
answerVars == <<reply, unsynced, durable>>
vars == <<platform, ordered, lock, pc, job, base, mem, disk, barred, parent,
          landed, committed, reply, unsynced, durable, crashes>>

Inodes == Reqs \cup {Old}

(* How much of a file is written: its bytes, in two halves.                *)
Whole == 2

Running == {"lock", "write", "flush", "check", "install", "sync", "confirm"}

(* The inode at the destination.                                           *)
Current == IF landed = <<>> THEN None ELSE landed[Len(landed)]

(* The entry naming i reaches the medium only after its bytes.             *)
Ordered(i) == ordered \/ i \in barred

(* r is among the first n that landed.                                     *)
Among(r, n) == \E k \in 1 .. n : landed[k] = r

Goto(r, from, to) ==
  /\ pc[r] = from
  /\ pc' = [pc EXCEPT ![r] = to]

-----------------------------------------------------------------------------
(* A request *)

(* It was decided against what is at the destination: a guarded write when *)
(* there is a file, an unguarded one (an edit of a missing file) or a      *)
(* create when there is none.                                              *)
Begin(r) ==
  /\ Goto(r, "idle", "lock")
  /\ \E j \in Jobs :
       /\ j.op = "guarded" <=> Current # None
       /\ job' = [job EXCEPT ![r] = j]
  /\ base' = [base EXCEPT ![r] = Current]
  /\ UNCHANGED <<fixedVars, lock, dataVars, entryVars, answerVars, crashes>>

(* path_lock, create_dir_all and the creation of the temporary file.  The  *)
(* entry of a new directory is nobody's to sync.                           *)
Stage(r) ==
  /\ Goto(r, "lock", "write")
  /\ lock = None
  /\ lock' = r
  /\ parent' = IF parent = "missing" THEN "new" ELSE parent
  /\ UNCHANGED <<fixedVars, job, base, dataVars, landed, committed, answerVars, crashes>>

(* write_all, half a file at a time.                                       *)
Write(r) ==
  /\ Goto(r, "write", IF mem[r] + 1 = Whole THEN "flush" ELSE "write")
  /\ mem' = [mem EXCEPT ![r] = @ + 1]
  /\ UNCHANGED <<fixedVars, lock, job, base, disk, barred, entryVars, answerVars, crashes>>

(* Mutant: only `full` flushes.                                            *)
FlushOnlyFull(r) ==
  /\ Goto(r, "flush", "check")
  /\ disk' = IF job[r].mode = "full" THEN [disk EXCEPT ![r] = mem[r]] ELSE disk
  /\ UNCHANGED <<fixedVars, lock, job, base, mem, barred, entryVars, answerVars, crashes>>

(* sync_all waits for the medium; barrier_sync does so too, except on      *)
(* macOS, where it only orders what follows behind the bytes.              *)
Flush(r) ==
  LET Waits == job[r].mode = "full" \/ (job[r].mode = "barrier" /\ platform # "macos")
      Bars  == job[r].mode = "barrier" /\ platform = "macos"
  IN
  /\ Goto(r, "flush", "check")
  /\ disk' = IF Waits THEN [disk EXCEPT ![r] = mem[r]] ELSE disk
  /\ barred' = IF Bars THEN barred \cup {r} ELSE barred
  /\ UNCHANGED <<fixedVars, lock, job, base, mem, entryVars, answerVars, crashes>>

(* An error: the lock is dropped.  What becomes of the temporary file is   *)
(* GuardedWrite's subject.                                                 *)
Refuse(r) ==
  /\ pc' = [pc EXCEPT ![r] = "done"]
  /\ reply' = [reply EXCEPT ![r] = "error"]
  /\ lock' = None
  /\ UNCHANGED <<fixedVars, job, base, dataVars, entryVars, unsynced, durable, crashes>>

(* The destination must still be what a guarded write was decided against. *)
Check(r) ==
  /\ pc[r] = "check"
  /\ \/ /\ job[r].op = "guarded" => Current = base[r]
        /\ Goto(r, "check", "install")
        /\ UNCHANGED <<fixedVars, lock, job, base, dataVars, entryVars, answerVars, crashes>>
     \/ /\ job[r].op = "guarded" /\ Current # base[r]
        /\ Refuse(r)

(* rename, or hard_link for a create, which needs the name to be free.     *)
Install(r) ==
  /\ Goto(r, "install", "sync")
  /\ job[r].op = "create" => Current = None
  /\ landed' = Append(landed, r)
  /\ UNCHANGED <<fixedVars, lock, job, base, dataVars, parent, committed, answerVars, crashes>>

(* Mutant: a create that lost its name is answered like one that won.      *)
LinkLosesQuietly(r) ==
  /\ Goto(r, "install", "confirm")
  /\ job[r].op = "create" /\ Current # None
  /\ UNCHANGED <<fixedVars, lock, job, base, dataVars, entryVars, answerVars, crashes>>

LinkLoses(r) ==
  /\ pc[r] = "install"
  /\ job[r].op = "create" /\ Current # None
  /\ Refuse(r)

(* Any system call up to the rename or the link may fail.                  *)
Fail(r) ==
  /\ \/ pc[r] = "lock" /\ lock = None
     \/ pc[r] \in {"write", "flush", "check", "install"}
  /\ Refuse(r)

(* Mutant: the parent is left to the kernel in every mode.                 *)
SyncNoParent(r) ==
  /\ Goto(r, "sync", "confirm")
  /\ UNCHANGED <<fixedVars, lock, job, base, dataVars, entryVars, answerVars, crashes>>

(* fsync_parent: commits every entry made in the directory so far, behind  *)
(* the bytes that are ordered before them.  It is asked of `full` alone,   *)
(* does nothing off Unix, and its failure is ignored.                      *)
SyncParent(r) ==
  LET asked == job[r].mode = "full" /\ platform # "other" IN
  /\ Goto(r, "sync", "confirm")
  /\ \/ /\ asked
        /\ committed' = Len(landed)
        /\ disk' = [i \in Inodes |->
                      IF Ordered(i) /\ Among(i, Len(landed)) THEN mem[i] ELSE disk[i]]
        /\ UNCHANGED unsynced
     \/ /\ asked
        /\ unsynced' = unsynced \cup {r}
        /\ UNCHANGED <<committed, disk>>
     \/ ~asked /\ UNCHANGED <<committed, disk, unsynced>>
  /\ UNCHANGED <<fixedVars, lock, job, base, mem, barred, parent, landed, reply,
                 durable, crashes>>

(* The sync of the parent that `full` asks for went well.                  *)
Synced(r) ==
  job[r].mode = "full" /\ platform # "other" /\ r \notin unsynced

(* confirm_stamp and the answer.  A success under `full` is durable when   *)
(* the parent was synced and its own entry is on the medium.               *)
Answer(r) ==
  /\ Goto(r, "confirm", "done")
  /\ lock' = None
  /\ reply' = [reply EXCEPT ![r] = "ok"]
  /\ durable' = IF Synced(r) /\ parent = "stable" THEN durable \cup {r} ELSE durable
  /\ UNCHANGED <<fixedVars, job, base, dataVars, entryVars, unsynced, crashes>>

-----------------------------------------------------------------------------
(* The kernel, kills and power losses *)

requestVars == <<lock, pc, job, base, reply, unsynced, durable>>

WriteBack(i) ==
  /\ disk[i] < mem[i]
  /\ disk' = [disk EXCEPT ![i] = @ + 1]
  /\ UNCHANGED <<fixedVars, requestVars, mem, barred, entryVars, crashes>>

CommitEntry ==
  /\ committed < Len(landed)
  /\ LET i == landed[committed + 1] IN Ordered(i) => disk[i] = mem[i]
  /\ committed' = committed + 1
  /\ UNCHANGED <<fixedVars, requestVars, dataVars, parent, landed, crashes>>

CommitParent ==
  /\ parent = "new"
  /\ parent' = "stable"
  /\ UNCHANGED <<fixedVars, requestVars, dataVars, landed, committed, crashes>>

(* The requests under way die with the server.                             *)
Die ==
  /\ crashes < MaxCrashes
  /\ crashes' = crashes + 1
  /\ pc' = [r \in Reqs |-> IF pc[r] \in Running THEN "dead" ELSE pc[r]]
  /\ lock' = None
  /\ UNCHANGED <<fixedVars, job, base, reply, unsynced, durable, barred>>

Kill ==
  /\ Die
  /\ UNCHANGED <<mem, disk, entryVars>>

(* Without its own entry the parent is lost with all that is in it.        *)
PowerLoss ==
  /\ Die
  /\ mem' = disk
  /\ \/ /\ parent = "stable"
        /\ landed' = SubSeq(landed, 1, committed)
        /\ UNCHANGED <<parent, committed>>
     \/ /\ parent # "stable"
        /\ landed' = <<>>
        /\ committed' = 0
        /\ parent' = "missing"
  /\ UNCHANGED disk

-----------------------------------------------------------------------------

Init ==
  /\ platform \in Platforms
  /\ ordered \in BOOLEAN
  /\ lock = None
  /\ pc = [r \in Reqs |-> "idle"]
  /\ job = [r \in Reqs |-> None]
  /\ base = [r \in Reqs |-> None]
  /\ mem = [i \in Inodes |-> IF i = Old THEN Whole ELSE 0]
  /\ disk = mem
  /\ barred = {}
  /\ \/ parent \in {"missing", "stable"} /\ landed = <<>>
     \/ parent = "stable" /\ landed = <<Old>>
  /\ committed = Len(landed)
  /\ reply = [r \in Reqs |-> "none"]
  /\ unsynced = {}
  /\ durable = {}
  /\ crashes = 0

Step(r) ==
  \/ Begin(r) \/ Stage(r) \/ Write(r) \/ Flush(r) \/ Check(r) \/ Install(r)
  \/ LinkLoses(r) \/ Fail(r) \/ SyncParent(r) \/ Answer(r)

Next ==
  \/ \E r \in Reqs : Step(r)
  \/ \E i \in Inodes : WriteBack(i)
  \/ CommitEntry \/ CommitParent
  \/ Kill \/ PowerLoss

Spec == Init /\ [][Next]_vars

-----------------------------------------------------------------------------
(* Properties *)

(* Types of the variables: requests, page cache and medium, directory.     *)
TypeOK ==
  /\ platform \in Platforms
  /\ ordered \in BOOLEAN
  /\ lock \in Reqs \cup {None}
  /\ pc \in [Reqs -> Running \cup {"idle", "done", "dead"}]
  /\ job \in [Reqs -> Jobs \cup {None}]
  /\ base \in [Reqs -> Inodes \cup {None}]
  /\ mem \in [Inodes -> 0 .. Whole]
  /\ disk \in [Inodes -> 0 .. Whole]
  /\ barred \subseteq Reqs
  /\ parent \in {"missing", "new", "stable"}
  /\ landed \in Seq(Inodes)
  /\ committed \in 0 .. Len(landed)
  /\ reply \in [Reqs -> {"none", "ok", "error"}]
  /\ unsynced \subseteq Reqs
  /\ durable \subseteq Reqs
  /\ crashes \in 0 .. MaxCrashes

(* Something orders the bytes of i before its entry: the mode it was       *)
(* written under, or the file system.                                      *)
Protected(i) == i # Old => ordered \/ job[i].mode # "none"

(* "No mode can tear the destination": whenever the power fails, a reader  *)
(* finds the bytes of one request whole, for a protected request (`none`   *)
(* leaves it to the file system).                                          *)
DestinationIsWhole ==
  Current # None /\ Protected(Current) => mem[Current] = Whole

(* "Survives power loss: yes": what `full` promised is at the destination, *)
(* or was replaced by what landed later.                                   *)
FullSurvivesPowerLoss == \A r \in durable : Among(r, Len(landed))

(* The destination is a log cut back to its safe prefix: an error changed  *)
(* nothing, a success landed, and a durable one is in that prefix.         *)
Register == INSTANCE DurableRegister WITH
  history <- landed,
  safe    <- IF parent = "stable" THEN committed ELSE 0,
  answer  <- [r \in Reqs |-> IF r \in durable THEN "durable" ELSE reply[r]]

ImplementsDurableRegister == Register!Spec

===============================================================================
