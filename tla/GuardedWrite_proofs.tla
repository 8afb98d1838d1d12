-------------------------- MODULE GuardedWrite_proofs --------------------------
(***************************************************************************)
(* Proofs about GuardedWrite, for any number of requests, files, spellings *)
(* inodes and contents.                                                    *)
(***************************************************************************)
EXTENDS GuardedWrite, FiniteSetTheorems, TLAPS

(* A request has a call once it began.                                     *)
CallsKnown ==
  \A r \in Reqs : /\ pc[r] = "idle" => job[r] = None
                  /\ pc[r] # "idle" => job[r] \in Jobs

(* A temp name is on disk from staging to landing, and stays there only    *)
(* for a reason.                                                           *)
TempsHeld ==
  \A r \in Reqs :
    /\ pc[r] \in {"idle", "wantLock", "locked"} => temp[r] = None
    /\ pc[r] \in Staging => temp[r] # None
    /\ temp[r] # None => pc[r] \in Staging \cup {"dead"} \/ stuck[r]

(* Every inode number in use is linked at a file or a temp name, and       *)
(* conversely.                                                             *)
InUse(i) == (\E f \in Files : dir[f] = i) \/ \E r \in Reqs : temp[r] = i

InodesLive == \A i \in Inodes : inode[i] # None <=> InUse(i)

(* A temp is of one request, and is nobody's file before it lands.         *)
TempsPrivate ==
  /\ \A r, s \in Reqs : temp[r] # None /\ temp[r] = temp[s] => r = s
  /\ \A r \in Reqs :
       pc[r] \in {"staged", "verify", "commit"} => \A f \in Files : dir[f] # temp[r]

(* Directory entries are never hard links to each other.                   *)
EntriesDistinct == \A f, g \in Files : dir[f] # None /\ dir[f] = dir[g] => f = g

RemovalsCounted == \A f \in Files : removed[f] <= external

Structure ==
  /\ TypeOK
  /\ CallsKnown
  /\ TempsHeld
  /\ InodesLive
  /\ TempsPrivate
  /\ EntriesDistinct
  /\ RemovalsCounted

LockHeld == \A r \in Reqs : pc[r] \in Locked => lock[job[r].name] = r

(* The stamp of the base snapshot is the truth about the bytes expected,   *)
(* outside the racy window.                                                *)
BaseKnown ==
  \A r \in Reqs :
    /\ pc[r] \in {"wantLock", "locked"} /\ plan[r] = "replace" => base[r] # None
    /\ pc[r] \in {"staged", "verify"} => base[r] # None /\ plan[r] = "replace"
    /\ pc[r] \in Locked \cup {"wantLock"} => plan[r] # "none"
    /\ pc[r] # "idle" /\ plan[r] = "create" => job[r].expect = Absent

BaseIsTruthful ==
  \A r \in Reqs :
    base[r] # None /\ ~base[r].racy =>
      /\ base[r].ctime < now
      /\ LET f == FileOf(r) IN
         dir[f] # None /\ SameStamp(StampAt(f), base[r]) => inode[dir[f]].data = job[r].expect

CheckedIsCurrent ==
  \A r \in Reqs :
    pc[r] = "commit" /\ plan[r] = "replace" /\ ~raced[r]
      => ValueAt(FileOf(r)) = job[r].expect

IdleUntouched ==
  \A r \in Reqs : pc[r] = "idle" => replaced[r] = None /\ base[r] = None /\ plan[r] = "none"

Guarded ==
  /\ Structure
  /\ LockHeld
  /\ BaseKnown
  /\ BaseIsTruthful
  /\ CheckedIsCurrent
  /\ IdleUntouched
  /\ NoLostUpdate

-----------------------------------------------------------------------------
(* Types *)

LEMMA StampTyped ==
  ASSUME NEW i \in Inodes, NEW st \in FileState, NEW t \in Time
  PROVE  StampOf(i, st, t) \in Stamp
BY StampAssumption DEF StampOf, Stamp, FileState, Time, WithinRacyWindow

LEMMA JobFields ==
  ASSUME NEW j \in Jobs
  PROVE  /\ j.op \in {"edit", "write"}
         /\ j.name \in Names
         /\ j.expect \in Contents \cup {Absent}
         /\ j.new \in Contents
         /\ Canon[j.name] \in Files
BY WriteAssumption DEF AllJobs

(* What a request's file holds, and its stamp, are typed.                  *)
LEMMA FileTyped ==
  ASSUME Structure, NEW r \in Reqs, pc[r] # "idle"
  PROVE  /\ job[r] \in Jobs
         /\ FileOf(r) \in Files
         /\ ValueAt(FileOf(r)) \in Contents \cup {Absent}
         /\ dir[FileOf(r)] # None => StampAt(FileOf(r)) \in Stamp
  <1>1. job[r] \in Jobs
    BY DEF Structure, CallsKnown
  <1>2. FileOf(r) \in Files
    BY <1>1, JobFields DEF FileOf
  <1>3. dir[FileOf(r)] # None => dir[FileOf(r)] \in Inodes /\ inode[dir[FileOf(r)]] \in FileState
    BY <1>2 DEF Structure, TypeOK, InodesLive, InUse
  <1>4. ValueAt(FileOf(r)) \in Contents \cup {Absent}
    BY <1>2, <1>3 DEF ValueAt, FileState
  <1>5. dir[FileOf(r)] # None => StampAt(FileOf(r)) \in Stamp
    BY <1>3, StampTyped DEF StampAt, Structure, TypeOK
  <1> QED
    BY <1>1, <1>2, <1>4, <1>5

(* An inode whose entry moves away, and the table after a rename.          *)
LEMMA RelinkedTyped ==
  ASSUME Structure, NEW f \in Files, NEW i \in Inodes, NEW st \in FileState
  PROVE  /\ Relinked(f, i, st) \in [Inodes -> FileState \cup {None}]
         /\ dir[f] # None => Unlinked(dir[f], f) \in FileState \cup {None}
  <1>1. dir[f] # None => Unlinked(dir[f], f) \in FileState \cup {None}
    BY DEF Structure, TypeOK, InodesLive, InUse, Unlinked, FileState
  <1> QED
    BY <1>1, StampAssumption DEF Structure, TypeOK, Relinked

(* A decision is to go on with a plan or to refuse.                        *)
LEMMA Decisions ==
  ASSUME Structure, NEW r \in Reqs, NEW j \in Jobs, NEW same \in BOOLEAN, Decide(r, j, same)
  PROVE  \/ \E p \in {"replace", "create", "editCreate"}, st \in Stamp \cup {None} :
              /\ Proceed(r, p, st)
              /\ p = "create" => j.expect = Absent
              /\ p # "replace" => st = None
              /\ p = "replace" => /\ dir[Canon[j.name]] # None
                                 /\ st = StampAt(Canon[j.name])
                                 /\ ValueAt(Canon[j.name]) = j.expect
         \/ \E code \in Codes, header \in Contents \cup {None} : Refuse(r, code, header)
  <1> DEFINE f == Canon[j.name]
  <1>1. f \in Files /\ j.expect \in Contents \cup {Absent}
    BY JobFields
  <1>2. dir[f] # None => dir[f] \in Inodes /\ inode[dir[f]] \in FileState
    BY <1>1 DEF Structure, TypeOK, InodesLive, InUse
  <1>3. ValueAt(f) \in Contents \cup {Absent} /\ (ValueAt(f) = Absent <=> dir[f] = None)
    BY <1>1, <1>2, WriteAssumption DEF ValueAt, FileState
  <1>4. dir[f] # None => StampAt(f) \in Stamp
    BY <1>2, StampTyped DEF StampAt, Structure, TypeOK
  <1>5. CASE Refuse(r, "unreadable", None)
    BY <1>5 DEF Codes
  <1>6. CASE DecideWrite(r, j, same)
    <2> USE DEF DecideWrite
    <2>1. CASE Proceed(r, "create", None) /\ j.expect = Absent
      BY <2>1
    <2>2. CASE Refuse(r, "already_exists", ValueAt(f)) /\ ValueAt(f) # Absent
      BY <2>2, <1>3 DEF Codes
    <2>3. CASE Refuse(r, "not_found", None)
      BY <2>3 DEF Codes
    <2>4. CASE Proceed(r, "replace", StampAt(f)) /\ ValueAt(f) # Absent /\ j.expect = ValueAt(f)
      BY <2>4, <1>3, <1>4
    <2>5. CASE Refuse(r, "snapshot_conflict", ValueAt(f)) /\ ValueAt(f) # Absent
      BY <2>5, <1>3 DEF Codes
    <2> QED
      BY <1>6, <2>1, <2>2, <2>3, <2>4, <2>5
  <1>7. CASE DecideEdit(r, j, same)
    <2> DEFINE source == IF dir[f] = None THEN Empty ELSE ValueAt(f)
    <2>1. source \in Contents
      BY <1>3, WriteAssumption
    <2>2. CASE Refuse(r, "snapshot_conflict", source)
      BY <2>1, <2>2 DEF Codes
    <2>3. CASE Refuse(r, "invalid", None)
      BY <2>3 DEF Codes
    <2>4. CASE Proceed(r, "editCreate", None)
      BY <2>4
    <2>5. CASE Proceed(r, "replace", StampAt(f)) /\ dir[f] # None /\ j.expect = source
      BY <2>5, <1>4
    <2> QED
      BY <1>7, <2>2, <2>3, <2>4, <2>5 DEF DecideEdit
  <1> QED
    BY <1>5, <1>6, <1>7 DEF Decide

(* Every way to fail with a temp on disk comes to the same end.            *)
LEMMA FailuresAbandon ==
  ASSUME NEW q, CheckStampFails(q) \/ VerifyBytesFails(q) \/ RenameOrLinkFails(q)
  PROVE  /\ pc[q] \in {"staged", "verify", "commit"}
         /\ Abandon(q, "io") \/ Abandon(q, "snapshot_conflict")
BY DEF CheckStampFails, VerifyBytesFails, RenameOrLinkFails, Abandon, RemoveTemp

LEMMA BeginTyped ==
  ASSUME Structure, NEW r \in Reqs, Begin(r)
  PROVE  TypeOK'
  <1>1. PICK j \in Jobs, s \in 0 .. seed :
          /\ pc[r] = "idle"
          /\ job' = [job EXCEPT ![r] = j]
          /\ minted' = [minted EXCEPT ![r] = s]
          /\ Decide(r, j, s = seed)
          /\ UNCHANGED <<fsVars, serverVars, ghostVars, temp, stuck, tstamp, replaced>>
    BY DEF Begin
  <1>2. /\ pc' \in [Reqs -> Locked \cup {"idle", "wantLock", "publish", "lost", "done", "dead"}]
        /\ plan' \in [Reqs -> {"none", "replace", "create", "editCreate"}]
        /\ base' \in [Reqs -> Stamp \cup {None}]
        /\ reply' \in [Reqs -> [code : Codes, header : Contents \cup {None}]]
    <2>1. CASE \E p \in {"replace", "create", "editCreate"}, st \in Stamp \cup {None} :
                 Proceed(r, p, st)
      BY <2>1 DEF Structure, TypeOK, Proceed
    <2>2. CASE \E code \in Codes, header \in Contents \cup {None} : Refuse(r, code, header)
      BY <2>2 DEF Structure, TypeOK, Refuse, Finish, Result
    <2> QED
      BY <1>1, <2>1, <2>2, Decisions
  <1>3. /\ job' \in [Reqs -> Jobs \cup {None}]
        /\ minted' \in [Reqs -> 0 .. MaxRestarts]
    BY <1>1, WriteAssumption DEF Structure, TypeOK
  <1> QED
    BY <1>1, <1>2, <1>3
    DEF Structure, TypeOK, fsVars, serverVars, ghostVars

LEMMA RemovalTyped ==
  ASSUME Structure, NEW r \in Reqs, pc[r] \in Staging, RemoveTemp(r)
  PROVE  /\ inode' \in [Inodes -> FileState \cup {None}]
         /\ temp' \in [Reqs -> Inodes \cup {None}]
         /\ stuck' \in [Reqs -> BOOLEAN]
  <1>1. temp[r] \in Inodes /\ inode[temp[r]] \in FileState
    BY DEF Structure, TypeOK, TempsHeld, InodesLive, InUse
  <1>2. [inode[temp[r]] EXCEPT !.ctime = now] \in FileState
    BY <1>1 DEF FileState, Structure, TypeOK
  <1>3. CASE KeepTemp(r)
    BY <1>3 DEF KeepTemp, Structure, TypeOK
  <1>4. CASE ~KeepTemp(r)
    <2> DEFINE st == IF \E g \in Files : dir[g] = temp[r]
                       THEN [inode[temp[r]] EXCEPT !.ctime = now] ELSE None
    <2>1. st \in FileState \cup {None}
      BY <1>2
    <2>2. /\ inode' = [inode EXCEPT ![temp[r]] = st]
          /\ temp' = [temp EXCEPT ![r] = None] /\ stuck' = stuck
      BY <1>4 DEF RemoveTemp
    <2> HIDE DEF st
    <2> QED
      BY <2>1, <2>2 DEF Structure, TypeOK
  <1> QED
    BY <1>3, <1>4

LEMMA LockStepsTyped ==
  ASSUME Structure, NEW r \in Reqs,
         AcquireLock(r) \/ StageTemp(r) \/ StageTempFails(r)
  PROVE  TypeOK'
  <1>1. CASE AcquireLock(r)
    BY <1>1 DEF AcquireLock, Goto, Structure, TypeOK, Locked, fsVars, callVars, handleVars,
                ghostVars
  <1>2. CASE StageTemp(r)
    <2>1. job[r] \in Jobs /\ now \in Time
      BY <1>2 DEF StageTemp, Goto, Structure, CallsKnown, TypeOK
    <2>2. \A i \in Inodes :
            LET st == [data |-> job[r].new, mtime |-> now, ctime |-> now] IN
            st \in FileState /\ StampOf(i, st, now) \in Stamp
      BY <2>1, JobFields, StampTyped DEF FileState
    <2> QED
      BY <1>2, <2>1, <2>2
      DEF StageTemp, Goto, Structure, TypeOK, Locked, serverVars, callVars, worldVars, ghostVars
  <1>3. CASE StageTempFails(r)
    <2>1. job[r] \in Jobs /\ now \in Time
      BY <1>3 DEF StageTempFails, Structure, CallsKnown, TypeOK
    <2>2. \A part \in {Empty, job[r].new} :
            [data |-> part, mtime |-> now, ctime |-> now] \in FileState
      BY <2>1, JobFields, WriteAssumption DEF FileState
    <2>3. /\ inode' \in [Inodes -> FileState \cup {None}]
          /\ temp' \in [Reqs -> Inodes \cup {None}]
          /\ stuck' \in [Reqs -> BOOLEAN]
      <3>1. CASE UNCHANGED <<inode, temp, stuck>>
        BY <3>1 DEF Structure, TypeOK
      <3>2. ASSUME NEW i \in Inodes, NEW st \in FileState,
                   inode' = [inode EXCEPT ![i] = st],
                   temp' = [temp EXCEPT ![r] = i],
                   stuck' = [stuck EXCEPT ![r] = TRUE]
            PROVE  /\ inode' \in [Inodes -> FileState \cup {None}]
                   /\ temp' \in [Reqs -> Inodes \cup {None}]
                   /\ stuck' \in [Reqs -> BOOLEAN]
        BY <3>2 DEF Structure, TypeOK
      <3> QED
        BY <1>3, <2>2, <3>1, <3>2 DEF StageTempFails
    <2> QED
      BY <1>3, <2>1, <2>3
      DEF StageTempFails, Finish, Result, Unlock, Structure, TypeOK, Codes,
          callVars, worldVars, ghostVars
  <1> QED
    BY <1>1, <1>2, <1>3

LEMMA ChecksTyped ==
  ASSUME Structure, NEW r \in Reqs,
         \/ CheckStamp(r) \/ CheckStampFails(r) \/ VerifyBytes(r) \/ VerifyBytesFails(r)
         \/ RenameOrLinkFails(r)
  PROVE  TypeOK'
  <1>1. CASE CheckStamp(r)
    BY <1>1 DEF CheckStamp, Goto, Structure, TypeOK, Locked,
                fsVars, serverVars, callVars, handleVars, ghostVars
  <1>2. CASE VerifyBytes(r)
    BY <1>2 DEF VerifyBytes, Goto, Structure, TypeOK, Locked,
                fsVars, serverVars, callVars, handleVars, ghostVars
  <1>3. ASSUME NEW code \in Codes, Abandon(r, code), pc[r] \in Staging
        PROVE  TypeOK'
    BY <1>3, RemovalTyped
    DEF Abandon, ReturnError, Finish, Result, Unlock, Structure, TypeOK, callVars, worldVars,
        ghostVars
  <1> QED
    BY <1>1, <1>2, <1>3, FailuresAbandon DEF Codes, Staging

LEMMA LandingTyped ==
  ASSUME Structure, NEW r \in Reqs, Rename(r) \/ Link(r) \/ LinkLoses(r) \/ UnlinkTemp(r)
  PROVE  TypeOK'
  <1>1. /\ FileOf(r) \in Files
        /\ ValueAt(FileOf(r)) \in Contents \cup {Absent}
        /\ pc[r] \in Staging /\ temp[r] \in Inodes /\ inode[temp[r]] \in FileState
        /\ now \in Time
    <2>1. pc[r] \in Staging
      BY DEF Rename, Link, LinkLoses, UnlinkTemp, RemoveTemp, KeepTemp, Goto, Staging
    <2>2. FileOf(r) \in Files /\ ValueAt(FileOf(r)) \in Contents \cup {Absent}
      BY <2>1, FileTyped DEF Staging
    <2>3. temp[r] \in Inodes /\ inode[temp[r]] \in FileState /\ now \in Time
      BY <2>1 DEF Structure, TypeOK, TempsHeld, InodesLive, InUse
    <2> QED
      BY <2>1, <2>2, <2>3
  <1>2. [inode[temp[r]] EXCEPT !.ctime = now] \in FileState
    BY <1>1 DEF FileState
  <1>3. CASE Rename(r)
    <2>1. inode' \in [Inodes -> FileState \cup {None}]
      BY <1>1, <1>2, <1>3, RelinkedTyped DEF Rename
    <2> QED
      BY <1>1, <1>3, <2>1 DEF Rename, Goto, Structure, TypeOK, Locked,
                serverVars, callVars, worldVars, ghostVars
  <1>4. CASE Link(r)
    BY <1>1, <1>2, <1>4, WriteAssumption
    DEF Link, Goto, Structure, TypeOK, Locked, serverVars, callVars, worldVars, handleVars,
        ghostVars
  <1>5. CASE LinkLoses(r)
    BY <1>1, <1>5, RemovalTyped
    DEF LinkLoses, Goto, Unlock, Structure, TypeOK, Locked, callVars, worldVars, ghostVars
  <1>6. CASE UnlinkTemp(r)
    BY <1>1, <1>6, RemovalTyped
    DEF UnlinkTemp, Goto, Structure, TypeOK, Locked, serverVars, callVars, worldVars, ghostVars
  <1> QED
    BY <1>3, <1>4, <1>5, <1>6

LEMMA AnswersTyped ==
  ASSUME Structure, NEW r \in Reqs, Confirm(r) \/ Publish(r) \/ LoseCreateRace(r)
  PROVE  TypeOK'
  <1>1. /\ job[r] \in Jobs /\ FileOf(r) \in Files
        /\ ValueAt(FileOf(r)) \in Contents \cup {Absent}
        /\ dir[FileOf(r)] # None => StampAt(FileOf(r)) \in Stamp
    BY FileTyped DEF Confirm, Publish, LoseCreateRace, Goto
  <1>2. CASE Confirm(r)
    BY <1>1, <1>2 DEF Confirm, Goto, Unlock, Structure, TypeOK, Locked, fsVars, callVars,
                      ghostVars
  <1>3. CASE Publish(r)
    <2>1. tstamp[r] # None =>
            [data |-> job[r].new, stamp |-> tstamp[r], raced |-> touched[r]] \in Entry
      BY <1>1, JobFields DEF Structure, TypeOK, Entry
    <2>2. cache' \in [Names -> Entry \cup {None}]
      BY <1>3, <2>1 DEF Publish, Structure, TypeOK
    <2> QED
      BY <1>1, <1>3, <2>2, JobFields
      DEF Publish, Finish, Result, Codes, Structure, TypeOK, fsVars, callVars, ghostVars
  <1>4. CASE LoseCreateRace(r)
    <2>1. PICK code \in Codes, header \in Contents \cup {None} : Finish(r, code, header)
      BY <1>1, <1>4 DEF LoseCreateRace, Codes
    <2> QED
      BY <1>4, <2>1 DEF LoseCreateRace, Finish, Result, Structure, TypeOK,
                fsVars, serverVars, callVars, handleVars, ghostVars
  <1> QED
    BY <1>2, <1>3, <1>4

LEMMA WorldTyped ==
  ASSUME Structure, External \/ Tick \/ CrashRestart
  PROVE  TypeOK'
  <1>1. CASE \E f \in Files, c \in Contents : ExternalWrite(f, c)
    <2>1. PICK f \in Files, c \in Contents : ExternalWrite(f, c)
      BY <1>1
    <2>2. [data |-> c, mtime |-> now, ctime |-> now] \in FileState
      BY DEF FileState, Structure, TypeOK
    <2> QED
      BY <2>1, <2>2, WriteAssumption
      DEF ExternalWrite, ExternalBudget, Disturb, Structure, TypeOK, serverVars, callVars,
          handleVars
  <1>2. CASE \E f \in Files, c \in Contents, t \in Time : ExternalReplace(f, c, t)
    <2>1. PICK f \in Files, c \in Contents, t \in Time : ExternalReplace(f, c, t)
      BY <1>2
    <2>2. PICK i \in Inodes :
            /\ inode' = Relinked(f, i, [data |-> c, mtime |-> t, ctime |-> now])
            /\ dir' = [dir EXCEPT ![f] = i]
      BY <2>1 DEF ExternalReplace
    <2>3. [data |-> c, mtime |-> t, ctime |-> now] \in FileState
      BY DEF FileState, Structure, TypeOK
    <2>4. inode' \in [Inodes -> FileState \cup {None}]
      BY <2>2, <2>3, RelinkedTyped
    <2> QED
      BY <2>1, <2>2, <2>4, WriteAssumption
      DEF ExternalReplace, ExternalBudget, Disturb, Structure, TypeOK, serverVars, callVars,
          handleVars
  <1>3. CASE \E f \in Files : ExternalRemove(f)
    <2>1. PICK f \in Files : ExternalRemove(f)
      BY <1>3
    <2>2. Unlinked(dir[f], f) \in FileState \cup {None}
      <3>1. PICK i \in Inodes : dir[f] = i
        BY <2>1 DEF ExternalRemove, Structure, TypeOK
      <3>2. inode[i] \in FileState
        BY <2>1, <3>1 DEF Structure, TypeOK, InodesLive, InUse
      <3> QED
        BY <2>1, <3>1, <3>2, RelinkedTyped DEF ExternalRemove
    <2>3. removed' \in [Files -> 0 .. MaxExternal]
      BY <2>1, WriteAssumption
      DEF ExternalRemove, ExternalBudget, Structure, TypeOK, RemovalsCounted
    <2> QED
      BY <2>1, <2>2, <2>3, WriteAssumption
      DEF ExternalRemove, ExternalBudget, Disturb, Structure, TypeOK, serverVars, callVars,
          handleVars
  <1>4. CASE Tick
    BY <1>4, StampAssumption
    DEF Tick, Time, Structure, TypeOK, FileState, Stamp, Entry, serverVars, callVars, handleVars,
        ghostVars
  <1>5. CASE CrashRestart
    BY <1>5, WriteAssumption
    DEF CrashRestart, Structure, TypeOK, fsVars, callVars, ghostVars
  <1> QED
    BY <1>1, <1>2, <1>3, <1>4, <1>5 DEF External

LEMMA StepTyped ==
  ASSUME Structure, [Next]_vars
  PROVE  TypeOK'
  <1>1. CASE UNCHANGED vars
    BY <1>1 DEF vars, Structure, TypeOK
  <1>2. ASSUME NEW r \in Reqs, Begin(r) \/ Progress(r)
        PROVE  TypeOK'
    BY <1>2, BeginTyped, LockStepsTyped, ChecksTyped, LandingTyped, AnswersTyped DEF Progress
  <1>3. CASE External \/ Tick \/ CrashRestart
    BY <1>3, WorldTyped
  <1> QED
    BY <1>1, <1>2, <1>3 DEF Next

-----------------------------------------------------------------------------
(* Links, temporary files and inode numbers *)

(* The structural part beyond the types, one action at a time.             *)
Shape == CallsKnown /\ TempsHeld /\ InodesLive /\ TempsPrivate /\ EntriesDistinct /\ RemovalsCounted

(* Steps that touch neither files nor temps, and never enter Staging nor   *)
(* leave it but by death.                                                  *)
Quiet ==
  /\ UNCHANGED <<dir, inode, temp, stuck, removed, external>>
  /\ \A r \in Reqs :
       /\ pc'[r] = "idle" => job'[r] = None
       /\ pc'[r] # "idle" => job'[r] \in Jobs
       /\ pc'[r] \in {"idle", "wantLock", "locked"} => pc[r] \in {"idle", "wantLock", "locked"}
       /\ pc'[r] \in Staging => pc[r] \in Staging
       /\ pc[r] \in Staging \cup {"dead"} => pc'[r] \in Staging \cup {"dead"}
       /\ pc'[r] \in {"staged", "verify", "commit"} => pc[r] \in {"staged", "verify", "commit"}

LEMMA QuietShape == Structure /\ Quiet => Shape'
BY DEF Structure, Quiet, Shape, CallsKnown, TempsHeld, InodesLive, InUse, TempsPrivate,
       EntriesDistinct, RemovalsCounted

(* A new temp, to be landed or already given up.                           *)
LEMMA NewTempShape ==
  ASSUME Structure, NEW r \in Reqs, NEW i \in Inodes, NEW st \in FileState,
         pc[r] = "locked", inode[i] = None,
         inode' = [inode EXCEPT ![i] = st], temp' = [temp EXCEPT ![r] = i],
         \/ /\ pc' = [pc EXCEPT ![r] = "staged"] \/ pc' = [pc EXCEPT ![r] = "commit"]
            /\ stuck' = stuck
         \/ pc' = [pc EXCEPT ![r] = "done"] /\ stuck' = [stuck EXCEPT ![r] = TRUE],
         UNCHANGED <<dir, job, removed, external>>
  PROVE  Shape'
  <1>1. ~InUse(i) /\ st # None
    BY StampAssumption DEF Structure, InodesLive
  <1> USE DEF Structure, TypeOK
  <1>2. CallsKnown' /\ EntriesDistinct' /\ RemovalsCounted'
    BY DEF CallsKnown, EntriesDistinct, RemovalsCounted
  <1>3. TempsHeld'
    BY StampAssumption DEF TempsHeld, Staging
  <1>4. InodesLive'
    <2>1. temp[r] = None
      BY DEF TempsHeld
    <2> QED
      BY <1>1, <2>1, StampAssumption DEF InodesLive, InUse
  <1>5. TempsPrivate'
    BY <1>1, StampAssumption DEF TempsPrivate, InUse, TempsHeld, Staging
  <1> QED
    BY <1>2, <1>3, <1>4, <1>5 DEF Shape

LEMMA StageShape ==
  ASSUME Structure, NEW r \in Reqs, StageTemp(r) \/ StageTempFails(r)
  PROVE  Shape'
  <1>1. pc[r] = "locked" /\ job[r] \in Jobs /\ now \in Time
    BY DEF StageTemp, StageTempFails, Goto, Structure, CallsKnown, TypeOK
  <1>2. ASSUME NEW part \in {Empty, job[r].new}
        PROVE  [data |-> part, mtime |-> now, ctime |-> now] \in FileState
    BY <1>1, JobFields, WriteAssumption DEF FileState
  <1> USE DEF Goto, Finish, callVars, worldVars
  <1>3. CASE StageTemp(r)
    <2> DEFINE st == [data |-> job[r].new, mtime |-> now, ctime |-> now]
    <2>1. st \in FileState
      BY <1>2
    <2>2. PICK i \in Inodes :
            /\ inode[i] = None
            /\ inode' = [inode EXCEPT ![i] = st]
            /\ temp' = [temp EXCEPT ![r] = i]
            /\ pc' = [pc EXCEPT ![r] = "staged"] \/ pc' = [pc EXCEPT ![r] = "commit"]
            /\ stuck' = stuck
            /\ UNCHANGED <<dir, job, removed, external>>
      BY <1>3 DEF StageTemp
    <2> HIDE DEF st
    <2> QED
      BY <1>1, <2>1, <2>2, NewTempShape
  <1>4. CASE StageTempFails(r) /\ UNCHANGED <<inode, temp, stuck>>
    <2>1. /\ pc' = [pc EXCEPT ![r] = "done"]
          /\ UNCHANGED <<dir, inode, job, temp, stuck, removed, external>>
      BY <1>4 DEF StageTempFails
    <2>2. Quiet
      BY <1>1, <2>1 DEF Quiet, Structure, TypeOK, CallsKnown, Staging
    <2> QED
      BY <2>2, QuietShape
  <1>5. CASE StageTempFails(r) /\ ~UNCHANGED <<inode, temp, stuck>>
    BY <1>1, <1>2, <1>5, NewTempShape DEF StageTempFails
  <1> QED
    BY <1>3, <1>4, <1>5

(* The attempt to remove a temp, whether it succeeds or not.               *)
LEMMA RemovalShape ==
  ASSUME Structure, NEW r \in Reqs, pc[r] \in Staging, RemoveTemp(r),
         NEW to \in {"done", "lost", "landed"}, pc' = [pc EXCEPT ![r] = to],
         UNCHANGED <<dir, job, removed, external>>
  PROVE  Shape'
  <1> DEFINE i == temp[r]
  <1> USE DEF Structure, TypeOK
  <1>1. i \in Inodes /\ inode[i] \in FileState
    BY DEF TempsHeld, InodesLive, InUse
  <1>2. CallsKnown' /\ EntriesDistinct' /\ RemovalsCounted'
    BY DEF CallsKnown, EntriesDistinct, RemovalsCounted, Staging
  <1>3. CASE KeepTemp(r)
    <2>1. inode' = inode /\ temp' = temp /\ stuck' = [stuck EXCEPT ![r] = TRUE]
      BY <1>3 DEF KeepTemp
    <2>2. TempsHeld'
      BY <2>1 DEF TempsHeld, Staging
    <2>3. InodesLive' /\ TempsPrivate'
      BY <2>1 DEF InodesLive, InUse, TempsPrivate
    <2> QED
      BY <1>2, <2>2, <2>3 DEF Shape
  <1>4. CASE ~KeepTemp(r)
    <2>1. /\ inode' = [inode EXCEPT ![i] = IF \E g \in Files : dir[g] = i
                                             THEN [inode[i] EXCEPT !.ctime = now] ELSE None]
          /\ temp' = [temp EXCEPT ![r] = None]
          /\ stuck' = stuck
      BY <1>1, <1>4 DEF RemoveTemp
    <2>2. [inode[i] EXCEPT !.ctime = now] # None
      BY <1>1, StampAssumption DEF FileState
    <2>3. TempsHeld'
      BY <2>1, SMTT(20) DEF TempsHeld, Staging
    <2>4. InodesLive'
      BY <1>1, <2>1, <2>2, StampAssumption, SMTT(20) DEF InodesLive, InUse, TempsPrivate
    <2>5. TempsPrivate'
      BY <1>1, <2>1 DEF TempsPrivate
    <2> QED
      BY <1>2, <2>3, <2>4, <2>5 DEF Shape
  <1> QED
    BY <1>3, <1>4

LEMMA TempGoneShape ==
  ASSUME Structure, NEW r \in Reqs,
         \/ CheckStampFails(r) \/ VerifyBytesFails(r) \/ RenameOrLinkFails(r)
         \/ LinkLoses(r) \/ UnlinkTemp(r)
  PROVE  Shape'
  <1> USE DEF Staging, Goto, Finish, callVars, worldVars
  <1>1. ASSUME NEW code, Abandon(r, code), pc[r] \in {"staged", "verify", "commit"}
        PROVE  Shape'
    BY <1>1, RemovalShape DEF Abandon, ReturnError
  <1>2. CASE LinkLoses(r) \/ UnlinkTemp(r)
    BY <1>2, RemovalShape DEF LinkLoses, UnlinkTemp
  <1> QED
    BY <1>1, <1>2, FailuresAbandon

(* The inode a destination moves away from stays in use exactly while      *)
(* another entry or a temp name still links it.                            *)
LEMMA RelinkedLive ==
  ASSUME Structure, NEW f \in Files, NEW i \in Inodes, NEW st \in FileState, NEW k \in Inodes,
         k # i
  PROVE  Relinked(f, i, st)[k] # None
           <=> \/ \E g \in Files \ {f} : dir[g] = k
               \/ \E r \in Reqs : temp[r] = k
  <1>1. CASE k = dir[f]
    <2>1. inode[k] \in FileState
      BY <1>1 DEF Structure, TypeOK, InodesLive, InUse
    <2>2. [inode[k] EXCEPT !.ctime = now] \in FileState
      BY <2>1 DEF FileState, Structure, TypeOK
    <2>3. [inode[k] EXCEPT !.ctime = now] # None
      BY <2>2, StampAssumption
    <2> QED
      BY <1>1, <2>3 DEF Relinked, Unlinked, LiveTemps
  <1>2. CASE k # dir[f]
    BY <1>2 DEF Relinked, Structure, InodesLive, InUse
  <1> QED
    BY <1>1, <1>2

LEMMA LandingShape ==
  ASSUME Structure, NEW r \in Reqs, Rename(r) \/ Link(r)
  PROVE  Shape'
  <1> DEFINE f == FileOf(r)
  <1> DEFINE i == temp[r]
  <1> DEFINE st == [inode[i] EXCEPT !.ctime = now]
  <1> USE DEF Structure
  <1>1. pc[r] = "commit"
    BY DEF Rename, Link, Goto
  <1>2. /\ f \in Files
        /\ i \in Inodes /\ inode[i] \in FileState
        /\ \A g \in Files : dir[g] # i
    <2>1. f \in Files
      BY <1>1, FileTyped
    <2>2. i \in Inodes /\ inode[i] \in FileState
      BY <1>1 DEF TypeOK, TempsHeld, Staging, InodesLive, InUse
    <2>3. \A g \in Files : dir[g] # i
      BY <1>1 DEF TempsPrivate
    <2> QED
      BY <2>1, <2>2, <2>3
  <1>3. st \in FileState /\ st # None
    BY <1>2, StampAssumption DEF FileState, TypeOK
  <1>4. CASE Rename(r)
    <2>1. /\ pc' = [pc EXCEPT ![r] = "landed"]
          /\ inode' = Relinked(f, i, st)
          /\ dir' = [dir EXCEPT ![f] = i]
          /\ temp' = [temp EXCEPT ![r] = None]
          /\ UNCHANGED <<job, stuck, removed, external>>
      BY <1>4 DEF Rename, Goto, callVars, worldVars
    <2>2. CallsKnown' /\ TempsHeld' /\ EntriesDistinct' /\ RemovalsCounted'
      BY <1>1, <1>2, <2>1
      DEF TypeOK, CallsKnown, TempsHeld, Staging, EntriesDistinct, RemovalsCounted
    <2>3. InodesLive'
      <3>1. inode'[i] # None /\ dir'[f] = i
        BY <1>2, <1>3, <2>1 DEF Relinked, TypeOK
      <3>2. ASSUME NEW k \in Inodes, k # i
            PROVE  inode'[k] # None <=> InUse(k)'
        <4>1. inode'[k] # None <=> \/ \E g \in Files \ {f} : dir[g] = k
                                  \/ \E q \in Reqs : temp[q] = k
          BY <1>2, <1>3, <2>1, <3>2, RelinkedLive
        <4>2. (\E g \in Files \ {f} : dir[g] = k) <=> (\E g \in Files : dir'[g] = k)
          BY <1>2, <2>1, <3>2 DEF TypeOK
        <4>3. (\E q \in Reqs : temp[q] = k) <=> (\E q \in Reqs : temp'[q] = k)
          BY <2>1, <3>2, StampAssumption DEF TypeOK
        <4> QED
          BY <2>1, <4>1, <4>2, <4>3 DEF InUse
      <3> QED
        BY <1>2, <3>1, <3>2 DEF InodesLive, InUse
    <2>4. TempsPrivate'
      BY <1>1, <1>2, <2>1 DEF TypeOK, TempsPrivate, TempsHeld, Staging
    <2> QED
      BY <2>2, <2>3, <2>4 DEF Shape
  <1>5. CASE Link(r)
    <2>1. /\ pc' = [pc EXCEPT ![r] = "unlink"]
          /\ inode' = [inode EXCEPT ![i].ctime = now]
          /\ dir[f] = None
          /\ dir' = [dir EXCEPT ![f] = i]
          /\ UNCHANGED <<job, temp, stuck, removed, external>>
      BY <1>5 DEF Link, Goto, callVars, worldVars, handleVars
    <2>2. CallsKnown' /\ TempsHeld' /\ EntriesDistinct' /\ RemovalsCounted'
      BY <1>1, <1>2, <2>1
      DEF TypeOK, CallsKnown, TempsHeld, Staging, EntriesDistinct, RemovalsCounted
    <2>3. InodesLive'
      BY <1>2, <1>3, <2>1, StampAssumption DEF TypeOK, InodesLive, InUse
    <2>4. TempsPrivate'
      BY <1>1, <1>2, <2>1 DEF TypeOK, TempsPrivate, TempsHeld, Staging
    <2> QED
      BY <2>2, <2>3, <2>4 DEF Shape
  <1> QED
    BY <1>4, <1>5

LEMMA RequestShape ==
  ASSUME Structure, NEW r \in Reqs, Begin(r) \/ Progress(r)
  PROVE  Shape'
  <1>1. CASE Begin(r)
    <2>1. PICK j \in Jobs :
            /\ pc[r] = "idle"
            /\ job' = [job EXCEPT ![r] = j]
            /\ \E same \in BOOLEAN : Decide(r, j, same)
            /\ UNCHANGED <<dir, inode, temp, stuck, removed, external>>
      BY <1>1 DEF Begin, fsVars
    <2>2. pc' = [pc EXCEPT ![r] = "wantLock"] \/ pc' = [pc EXCEPT ![r] = "done"]
      BY <2>1, Decisions DEF Proceed, Refuse, Finish
    <2>3. \A q \in Reqs : /\ pc'[q] = "idle" => job'[q] = None
                          /\ pc'[q] # "idle" => job'[q] \in Jobs
      <3>1. /\ job'[r] \in Jobs /\ pc'[r] # "idle"
            /\ \A q \in Reqs \ {r} : job'[q] = job[q] /\ pc'[q] = pc[q]
        BY <2>1, <2>2 DEF Structure, TypeOK
      <3> QED
        BY <3>1 DEF Structure, CallsKnown
    <2>4. \A q \in Reqs :
            /\ pc'[q] \in {"idle", "wantLock", "locked"} => pc[q] \in {"idle", "wantLock", "locked"}
            /\ pc'[q] \in Staging => pc[q] \in Staging
            /\ pc[q] \in Staging \cup {"dead"} => pc'[q] \in Staging \cup {"dead"}
            /\ pc'[q] \in {"staged", "verify", "commit"} => pc[q] \in {"staged", "verify", "commit"}
      BY <2>1, <2>2 DEF Structure, TypeOK, Staging
    <2>5. UNCHANGED <<dir, inode, temp, stuck, removed, external>>
      BY <2>1
    <2>6. Quiet
      BY <2>3, <2>4, <2>5 DEF Quiet
    <2> QED
      BY <2>6, QuietShape
  <1>2. CASE \/ AcquireLock(r) \/ CheckStamp(r) \/ VerifyBytes(r)
             \/ Confirm(r) \/ Publish(r) \/ LoseCreateRace(r)
    <2>1. /\ UNCHANGED <<job, dir, inode, temp, stuck, removed, external>>
          /\ pc[r] \notin {"idle", "dead"}
          /\ \E to \in {"locked", "done", "publish", "verify", "commit"} :
               /\ pc' = [pc EXCEPT ![r] = to]
               /\ to = "locked" => pc[r] = "wantLock"
               /\ to \in {"verify", "commit"} => pc[r] \in {"staged", "verify"}
               /\ to \notin {"verify", "commit"} => pc[r] \notin Staging
      <3> USE DEF Goto, Finish, fsVars, callVars, handleVars, Staging
      <3>1. CASE AcquireLock(r)
        BY <3>1 DEF AcquireLock
      <3>3. CASE CheckStamp(r)
        BY <3>3 DEF CheckStamp
      <3>4. CASE VerifyBytes(r)
        BY <3>4 DEF VerifyBytes
      <3>5. CASE Confirm(r)
        BY <3>5 DEF Confirm
      <3>6. CASE Publish(r)
        BY <3>6 DEF Publish
      <3>7. CASE LoseCreateRace(r)
        BY <3>7 DEF LoseCreateRace
      <3> QED
        BY <1>2, <3>1, <3>3, <3>4, <3>5, <3>6, <3>7
    <2>2. Quiet
      BY <2>1 DEF Quiet, Structure, TypeOK, CallsKnown, Staging
    <2> QED
      BY <2>2, QuietShape
  <1> QED
    BY <1>1, <1>2, StageShape, LandingShape, TempGoneShape DEF Progress

LEMMA WorldShape ==
  ASSUME Structure, External \/ Tick \/ CrashRestart
  PROVE  Shape'
  <1> USE DEF Structure
  <1>1. ASSUME NEW f \in Files, NEW c \in Contents, ExternalWrite(f, c)
        PROVE  Shape'
    <2>1. /\ dir[f] # None
          /\ inode' = [inode EXCEPT ![dir[f]] = [data |-> c, mtime |-> now, ctime |-> now]]
          /\ UNCHANGED <<dir, job, pc, temp, stuck, removed>>
          /\ external' = external + 1
      BY <1>1 DEF ExternalWrite, Disturb, callVars, handleVars
    <2>2. [data |-> c, mtime |-> now, ctime |-> now] # None
      BY StampAssumption DEF FileState, TypeOK
    <2>3. InodesLive'
      BY <2>1, <2>2 DEF InodesLive, InUse, TypeOK
    <2> QED
      BY <2>1, <2>3 DEF Shape, CallsKnown, TempsHeld, TempsPrivate, EntriesDistinct,
                        RemovalsCounted, TypeOK
  <1>2. ASSUME NEW f \in Files, NEW c \in Contents, NEW t \in Time, ExternalReplace(f, c, t)
        PROVE  Shape'
    <2>1. PICK i \in Inodes :
            /\ inode[i] = None
            /\ inode' = Relinked(f, i, [data |-> c, mtime |-> t, ctime |-> now])
            /\ dir' = [dir EXCEPT ![f] = i]
            /\ UNCHANGED <<job, pc, temp, stuck, removed>>
            /\ external' = external + 1
      BY <1>2 DEF ExternalReplace, Disturb, callVars, handleVars
    <2> DEFINE st == [data |-> c, mtime |-> t, ctime |-> now]
    <2>2. st \in FileState /\ st # None
      BY StampAssumption DEF FileState, TypeOK
    <2>3. ~InUse(i)
      BY <2>1 DEF InodesLive
    <2>4. InodesLive'
      <3>1. inode'[i] # None /\ dir'[f] = i
        BY <2>1, <2>2 DEF Relinked, TypeOK
      <3>2. ASSUME NEW k \in Inodes, k # i
            PROVE  inode'[k] # None <=> InUse(k)'
        <4>1. inode'[k] # None <=> \/ \E g \in Files \ {f} : dir[g] = k
                                  \/ \E q \in Reqs : temp[q] = k
          BY <2>1, <2>2, <3>2, RelinkedLive
        <4>2. (\E g \in Files \ {f} : dir[g] = k) <=> (\E g \in Files : dir'[g] = k)
          BY <2>1, <3>2 DEF TypeOK
        <4> QED
          BY <2>1, <4>1, <4>2 DEF InUse
      <3> QED
        BY <3>1, <3>2 DEF InodesLive, InUse
    <2>5. TempsPrivate' /\ EntriesDistinct'
      BY <2>1, <2>3 DEF TypeOK, InUse, TempsPrivate, EntriesDistinct
    <2> QED
      BY <2>1, <2>4, <2>5 DEF Shape, CallsKnown, TempsHeld, RemovalsCounted, TypeOK
  <1>3. ASSUME NEW f \in Files, ExternalRemove(f)
        PROVE  Shape'
    <2>1. /\ dir[f] # None
          /\ inode' = [inode EXCEPT ![dir[f]] = Unlinked(dir[f], f)]
          /\ dir' = [dir EXCEPT ![f] = None]
          /\ removed' = [removed EXCEPT ![f] = @ + 1]
          /\ UNCHANGED <<job, pc, temp, stuck>>
          /\ external' = external + 1
      BY <1>3 DEF ExternalRemove, Disturb, callVars, handleVars
    <2>2. PICK i \in Inodes : i = dir[f] /\ inode[i] \in FileState
      BY <2>1 DEF TypeOK, InodesLive, InUse
    <2>3. [inode[i] EXCEPT !.ctime = now] # None
      BY <2>2, StampAssumption DEF FileState, TypeOK
    <2>4. InodesLive'
      <3>1. inode'[i] # None <=> InUse(i)'
        BY <2>1, <2>2, <2>3, StampAssumption DEF Unlinked, LiveTemps, InUse, TypeOK
      <3>2. ASSUME NEW k \in Inodes, k # i
            PROVE  inode'[k] # None <=> InUse(k)'
        BY <2>1, <2>2, <3>2, StampAssumption DEF InodesLive, InUse, TypeOK
      <3> QED
        BY <3>1, <3>2 DEF InodesLive
    <2>5. TempsPrivate' /\ EntriesDistinct' /\ RemovalsCounted'
      BY <2>1, StampAssumption
      DEF TypeOK, TempsHeld, Staging, TempsPrivate, EntriesDistinct, RemovalsCounted
    <2> QED
      BY <2>1, <2>4, <2>5 DEF Shape, CallsKnown, TempsHeld
  <1>4. CASE Tick
    BY <1>4, QuietShape DEF Tick, Quiet, callVars, handleVars, CallsKnown
  <1>5. CASE CrashRestart
    <2>1. /\ \A r \in Reqs : pc'[r] = IF pc[r] \notin {"idle", "done", "dead"} THEN "dead" ELSE pc[r]
          /\ UNCHANGED <<job, dir, inode, temp, stuck, removed, external>>
      BY <1>5 DEF CrashRestart, fsVars, callVars
    <2>2. Quiet
      BY <2>1 DEF Quiet, CallsKnown, Staging, TypeOK
    <2> QED
      BY <2>2, QuietShape
  <1> QED
    BY <1>1, <1>2, <1>3, <1>4, <1>5 DEF External

LEMMA StructureStep == Structure /\ [Next]_vars => Structure'
  <1> SUFFICES ASSUME Structure, [Next]_vars
               PROVE  Structure'
    OBVIOUS
  <1>1. TypeOK'
    BY StepTyped
  <1>2. CASE UNCHANGED vars
    BY <1>1, <1>2, QuietShape DEF vars, Quiet, Structure, Shape, CallsKnown
  <1>3. CASE Next
    BY <1>1, <1>3, RequestShape, WorldShape DEF Next, Structure, Shape
  <1> QED
    BY <1>2, <1>3

LEMMA StructureInit == Init => Structure
  <1> SUFFICES ASSUME Init
               PROVE  Structure
    OBVIOUS
  <1> USE DEF Init
  <1>1. TypeOK
    BY StampAssumption, WriteAssumption
    DEF TypeOK, Time, FileState, Locked, Pending, Result, Codes
  <1>2. CallsKnown /\ TempsHeld /\ TempsPrivate /\ EntriesDistinct /\ RemovalsCounted
    BY DEF CallsKnown, TempsHeld, Staging, TempsPrivate, EntriesDistinct, RemovalsCounted
  <1>3. InodesLive
    BY StampAssumption DEF InodesLive, InUse
  <1> QED
    BY <1>1, <1>2, <1>3 DEF Structure

(* Every variable keeps its type: the path lock's table, the stamps that   *)
(* are compared and the inode table, in every interleaving and after every *)
(* crash.                                                                  *)
THEOREM TypeCorrect == Spec => []TypeOK
  <1>1. Structure => TypeOK
    BY DEF Structure
  <1> QED
    BY <1>1, StructureInit, StructureStep, PTL DEF Spec

(* A temp name outlives its request only because the server died in that   *)
(* request, the removal failed, or the destination's metadata could not be *)
(* decoded (the exits of atomic_write, atomic_create and                   *)
(* write_unique_temp); and no inode is freed or kept but by its names.     *)
THEOREM TempsAreAccountedFor == Spec => []InodesAccountedFor
  <1>1. Structure => InodesAccountedFor
    BY DEF Structure, InodesLive, InUse, LiveTemps, TempsHeld, InodesAccountedFor
  <1> QED
    BY <1>1, StructureInit, StructureStep, PTL DEF Spec

-----------------------------------------------------------------------------
(* The path lock *)

(* No directory entry has two spellings: the lock is keyed by spelling.    *)
NoAliases == \A m, n \in Names : Canon[m] = Canon[n] => m = n

(* A step of one request leaves the others where they are.                 *)
Unmoved(r) ==
  /\ pc'[r] = pc[r] /\ job'[r] = job[r] /\ plan'[r] = plan[r] /\ base'[r] = base[r]
  /\ replaced'[r] = replaced[r]

LEMMA OthersUnmoved ==
  ASSUME Structure, NEW q \in Reqs, Begin(q) \/ Progress(q), NEW r \in Reqs, r # q
  PROVE  Unmoved(r) /\ raced' = raced /\ now' = now
  <1> USE DEF Unmoved, Structure, TypeOK
  <1>1. CASE Begin(q)
    <2>1. PICK j \in Jobs :
            /\ job' = [job EXCEPT ![q] = j]
            /\ \E same \in BOOLEAN : Decide(q, j, same)
            /\ UNCHANGED <<fsVars, serverVars, ghostVars, temp, tstamp, replaced>>
      BY <1>1 DEF Begin
    <2>2. pc'[r] = pc[r] /\ plan'[r] = plan[r] /\ base'[r] = base[r]
      BY <2>1, Decisions DEF Proceed, Refuse, Finish
    <2> QED
      BY <2>1, <2>2 DEF fsVars, ghostVars
  <1> USE DEF Goto, Finish, fsVars, callVars, handleVars, ghostVars, worldVars
  <1>2. ASSUME NEW code \in Codes, Abandon(q, code)
        PROVE  Unmoved(r) /\ raced' = raced /\ now' = now
    BY <1>2 DEF Abandon, ReturnError, RemoveTemp, KeepTemp
  <1>3. CASE AcquireLock(q) \/ StageTemp(q) \/ StageTempFails(q) \/ CheckStamp(q) \/ VerifyBytes(q)
    BY <1>3 DEF AcquireLock, StageTemp, StageTempFails, CheckStamp, VerifyBytes
  <1>4. CASE CheckStampFails(q) \/ VerifyBytesFails(q) \/ RenameOrLinkFails(q)
    BY <1>2, <1>4, FailuresAbandon DEF Codes
  <1>5. CASE Rename(q) \/ Link(q) \/ LinkLoses(q) \/ UnlinkTemp(q)
    BY <1>5 DEF Rename, Link, LinkLoses, UnlinkTemp, RemoveTemp, KeepTemp
  <1>6. CASE Confirm(q) \/ Publish(q) \/ LoseCreateRace(q)
    BY <1>6 DEF Confirm, Publish, LoseCreateRace
  <1> QED
    BY <1>1, <1>3, <1>4, <1>5, <1>6 DEF Progress

(* What a request's step does to the lock table.                           *)
LEMMA LockMoves ==
  ASSUME Structure, NEW q \in Reqs, Begin(q) \/ Progress(q)
  PROVE  \/ /\ lock' = lock /\ (pc'[q] \in Locked <=> pc[q] \in Locked)
            /\ pc[q] \in Locked => job'[q] = job[q]
         \/ /\ pc[q] = "wantLock" /\ pc'[q] \in Locked /\ lock[job[q].name] = None
            /\ lock' = [lock EXCEPT ![job[q].name] = q] /\ job'[q] = job[q]
         \/ pc[q] \in Locked /\ pc'[q] \notin Locked /\ Unlock(q)
  <1> USE DEF Structure, TypeOK
  <1>1. CASE Begin(q)
    <2>1. PICK j \in Jobs :
            /\ \E same \in BOOLEAN : Decide(q, j, same)
            /\ lock' = lock /\ pc[q] = "idle"
      BY <1>1 DEF Begin, serverVars
    <2>2. pc'[q] \notin Locked
      BY <2>1, Decisions, SMTT(20) DEF Proceed, Refuse, Finish, Locked
    <2>3. pc[q] \notin Locked
      BY <2>1 DEF Locked
    <2> QED
      BY <2>1, <2>2, <2>3
  <1> USE DEF Goto, Finish, serverVars, callVars, Locked
  <1>2. ASSUME NEW code \in Codes, Abandon(q, code), pc[q] \in Locked
        PROVE  pc'[q] \notin Locked /\ Unlock(q)
    BY <1>2 DEF Abandon, ReturnError, RemoveTemp, KeepTemp
  <1>3. CASE AcquireLock(q)
    BY <1>3 DEF AcquireLock
  <1>4. CASE StageTemp(q) \/ CheckStamp(q) \/ VerifyBytes(q)
    BY <1>4 DEF StageTemp, CheckStamp, VerifyBytes
  <1>5. CASE Rename(q) \/ Link(q) \/ UnlinkTemp(q)
    BY <1>5 DEF Rename, Link, UnlinkTemp
  <1>6. CASE StageTempFails(q) \/ LinkLoses(q) \/ Confirm(q)
    BY <1>6 DEF StageTempFails, LinkLoses, Confirm
  <1>7. CASE CheckStampFails(q) \/ VerifyBytesFails(q) \/ RenameOrLinkFails(q)
    BY <1>2, <1>7, FailuresAbandon DEF Codes
  <1>8. CASE Publish(q) \/ LoseCreateRace(q)
    BY <1>8 DEF Publish, LoseCreateRace
  <1> QED
    BY <1>1, <1>3, <1>4, <1>5, <1>6, <1>7, <1>8 DEF Progress

LEMMA LockStep == Structure /\ LockHeld /\ [Next]_vars => LockHeld'
  <1> SUFFICES ASSUME Structure, LockHeld, [Next]_vars
               PROVE  LockHeld'
    OBVIOUS
  <1> USE DEF Structure, TypeOK
  <1>1. ASSUME NEW q \in Reqs, Begin(q) \/ Progress(q)
        PROVE  LockHeld'
    <2>1. \A r \in Reqs : r # q => pc'[r] = pc[r] /\ job'[r] = job[r]
      BY <1>1, OthersUnmoved DEF Unmoved
    <2>2. \A r \in Reqs : pc[r] \in Locked => job[r].name \in Names
      BY JobFields DEF CallsKnown, Locked
    <2>3. CASE /\ lock' = lock /\ (pc'[q] \in Locked <=> pc[q] \in Locked)
               /\ pc[q] \in Locked => job'[q] = job[q]
      BY <2>1, <2>3 DEF LockHeld
    <2>4. CASE /\ pc[q] = "wantLock" /\ pc'[q] \in Locked /\ lock[job[q].name] = None
               /\ lock' = [lock EXCEPT ![job[q].name] = q] /\ job'[q] = job[q]
      <3>1. job[q].name \in Names
        BY <2>4, JobFields DEF CallsKnown
      <3> QED
        BY <2>1, <2>2, <2>4, <3>1, WriteAssumption DEF LockHeld
    <2>5. CASE pc[q] \in Locked /\ pc'[q] \notin Locked /\ Unlock(q)
      BY <2>1, <2>2, <2>5 DEF LockHeld, Unlock
    <2> QED
      BY <1>1, <2>3, <2>4, <2>5, LockMoves
  <1>2. CASE External \/ Tick
    <2>1. pc' = pc /\ job' = job /\ lock' = lock
      BY <1>2 DEF External, ExternalWrite, ExternalReplace, ExternalRemove, Tick, serverVars,
                  callVars
    <2> QED
      BY <2>1 DEF LockHeld
  <1>3. CASE CrashRestart
    <2>1. \A r \in Reqs : pc'[r] \in {"idle", "done", "dead"}
      BY <1>3 DEF CrashRestart
    <2> QED
      BY <2>1 DEF LockHeld, Locked
  <1>4. CASE UNCHANGED vars
    BY <1>4 DEF vars, LockHeld
  <1> QED
    BY <1>1, <1>2, <1>3, <1>4 DEF Next

LEMMA LockInit == Init => LockHeld
BY DEF Init, LockHeld, Locked

LEMMA LockExcludes ==
  ASSUME Structure, LockHeld, NoAliases
  PROVE  SerializedWriters
  <1> SUFFICES ASSUME NEW r \in Reqs, NEW s \in Reqs, r # s,
                      pc[r] \in Locked, pc[s] \in Locked, FileOf(r) = FileOf(s)
               PROVE  FALSE
    BY DEF SerializedWriters
  <1>1. job[r].name \in Names /\ job[s].name \in Names
    BY JobFields DEF Structure, CallsKnown, Locked
  <1>2. job[r].name = job[s].name
    BY <1>1 DEF FileOf, NoAliases
  <1> QED
    BY <1>2 DEF LockHeld

(* Writes of one server to one file are serialized, whatever fails and     *)
(* whenever it crashes, provided no file has two spellings.                *)
THEOREM WritersAreSerialized ==
  ASSUME NoAliases
  PROVE  Spec => []SerializedWriters
  <1>1. Init => Structure /\ LockHeld
    BY StructureInit, LockInit
  <1>2. Structure /\ LockHeld /\ [Next]_vars => (Structure /\ LockHeld)'
    BY StructureStep, LockStep
  <1>3. Structure /\ LockHeld => SerializedWriters
    BY LockExcludes
  <1> QED
    BY <1>1, <1>2, <1>3, PTL DEF Spec

-----------------------------------------------------------------------------
(* Lost updates *)

(* What the file at f is after a step: as before, or stamped with the time *)
(* of the step.  This is what the guards can rely on, and all of it.       *)
SameFile(f) == dir'[f] = dir[f] /\ (dir[f] # None => inode'[dir[f]] = inode[dir[f]])
Stamped(f) == dir'[f] # None /\ inode'[dir'[f]].ctime = now

LEMMA RelinkedIsStamped ==
  ASSUME Structure, NEW f \in Files, NEW i \in Inodes, NEW st \in FileState, st.ctime = now,
         \A g \in Files : dir[g] # i,
         dir' = [dir EXCEPT ![f] = i], inode' = Relinked(f, i, st),
         NEW g \in Files
  PROVE  (g = f /\ Stamped(g)) \/ (g # f /\ SameFile(g))
  <1> USE DEF Structure, TypeOK
  <1>1. CASE g = f
    BY <1>1, StampAssumption DEF Stamped, Relinked
  <1>2. CASE g # f
    BY <1>2 DEF SameFile, Relinked, EntriesDistinct
  <1> QED
    BY <1>1, <1>2

(* Only Rename, Link and UnlinkTemp touch a file that is linked.           *)
LEMMA RequestTouches ==
  ASSUME Structure, NEW q \in Reqs, Begin(q) \/ Progress(q), NEW f \in Files
  PROVE  \/ SameFile(f)
         \/ Stamped(f) /\ pc[q] = "commit" /\ pc'[q] \in {"landed", "unlink"} /\ f = FileOf(q)
         \/ Stamped(f) /\ pc[q] = "unlink" /\ ValueAt(f)' = ValueAt(f)
  <1> USE DEF Structure, TypeOK
  <1>1. CASE \/ Begin(q) \/ AcquireLock(q) \/ CheckStamp(q) \/ VerifyBytes(q)
             \/ Confirm(q) \/ Publish(q) \/ LoseCreateRace(q)
    BY <1>1 DEF Begin, AcquireLock, CheckStamp, VerifyBytes, Confirm, Publish,
                LoseCreateRace, fsVars, SameFile
  <1>2. CASE StageTemp(q) \/ StageTempFails(q)
    BY <1>2 DEF StageTemp, StageTempFails, worldVars, SameFile, InodesLive, InUse
  <1>3. ASSUME pc[q] \in {"staged", "verify", "commit"}, dir' = dir, RemoveTemp(q)
        PROVE  SameFile(f)
    BY <1>3 DEF SameFile, TempsPrivate, RemoveTemp, KeepTemp
  <1>4. CASE CheckStampFails(q) \/ VerifyBytesFails(q) \/ RenameOrLinkFails(q) \/ LinkLoses(q)
    BY <1>3, <1>4, FailuresAbandon DEF LinkLoses, Abandon, ReturnError, Goto
  <1>5. CASE Rename(q) \/ Link(q)
    <2> DEFINE i == temp[q]
    <2> DEFINE st == [inode[i] EXCEPT !.ctime = now]
    <2>1. pc[q] = "commit" /\ pc'[q] \in {"landed", "unlink"}
      BY <1>5 DEF Rename, Link, Goto
    <2>2. i \in Inodes /\ inode[i] \in FileState /\ (\A g \in Files : dir[g] # i)
      BY <2>1 DEF TempsHeld, Staging, InodesLive, InUse, TempsPrivate
    <2>3. FileOf(q) \in Files
      BY <2>1, FileTyped
    <2>4. st \in FileState /\ st.ctime = now
      BY <2>2 DEF FileState
    <2>5. CASE Rename(q)
      <3>1. inode' = Relinked(FileOf(q), i, st) /\ dir' = [dir EXCEPT ![FileOf(q)] = i]
        BY <2>5 DEF Rename
      <3> QED
        BY <2>1, <2>2, <2>3, <2>4, <3>1, RelinkedIsStamped
    <2>6. CASE Link(q)
      <3>1. inode' = [inode EXCEPT ![i].ctime = now] /\ dir' = [dir EXCEPT ![FileOf(q)] = i]
        BY <2>6 DEF Link
      <3>2. inode'[i].ctime = now /\ \A k \in Inodes \ {i} : inode'[k] = inode[k]
        BY <2>2, <3>1 DEF FileState
      <3> QED
        BY <2>1, <2>2, <2>3, <3>1, <3>2, StampAssumption DEF SameFile, Stamped
    <2> QED
      BY <1>5, <2>5, <2>6
  <1>6. CASE UnlinkTemp(q)
    <2> DEFINE i == temp[q]
    <2>1. /\ pc[q] = "unlink" /\ dir' = dir
          /\ i \in Inodes /\ inode[i] \in FileState
      BY <1>6 DEF UnlinkTemp, Goto, worldVars, TempsHeld, Staging, InodesLive, InUse
    <2>2. CASE dir[f] = i /\ ~KeepTemp(q)
      <3>1. inode'[i] = [inode[i] EXCEPT !.ctime = now]
        BY <1>6, <2>1, <2>2 DEF UnlinkTemp, RemoveTemp
      <3>2. inode'[i].ctime = now /\ inode'[i].data = inode[i].data
        BY <2>1, <3>1 DEF FileState
      <3> QED
        BY <2>1, <2>2, <3>2, StampAssumption DEF Stamped, ValueAt
    <2>3. CASE dir[f] # i \/ KeepTemp(q)
      BY <1>6, <2>1, <2>3 DEF UnlinkTemp, RemoveTemp, KeepTemp, SameFile
    <2> QED
      BY <2>2, <2>3
  <1> QED
    BY <1>1, <1>2, <1>4, <1>5, <1>6 DEF Progress

LEMMA ExternalTouches ==
  ASSUME Structure, External, NEW f \in Files
  PROVE  \/ SameFile(f)
         \/ /\ dir'[f] = None \/ Stamped(f)
            /\ \A q \in Reqs : pc[q] = "commit" /\ FileOf(q) = f => raced'[q]
  <1> USE DEF Structure, TypeOK
  <1>1. ASSUME NEW g \in Files, NEW c \in Contents, ExternalWrite(g, c)
        PROVE  SameFile(f) \/ (f = g /\ Stamped(f))
    BY <1>1 DEF ExternalWrite, SameFile, Stamped, EntriesDistinct
  <1>2. ASSUME NEW g \in Files, NEW c \in Contents, NEW t \in Time, ExternalReplace(g, c, t)
        PROVE  SameFile(f) \/ (f = g /\ Stamped(f))
    <2>1. PICK i \in Inodes :
            /\ inode[i] = None
            /\ inode' = Relinked(g, i, [data |-> c, mtime |-> t, ctime |-> now])
            /\ dir' = [dir EXCEPT ![g] = i]
      BY <1>2 DEF ExternalReplace
    <2>2. [data |-> c, mtime |-> t, ctime |-> now] \in FileState
      BY DEF FileState
    <2>3. \A h \in Files : dir[h] # i
      BY <2>1 DEF InodesLive, InUse
    <2> QED
      BY <2>1, <2>2, <2>3, RelinkedIsStamped
  <1>3. ASSUME NEW g \in Files, ExternalRemove(g)
        PROVE  SameFile(f) \/ (f = g /\ dir'[f] = None)
    BY <1>3 DEF ExternalRemove, SameFile, EntriesDistinct
  <1>4. ASSUME NEW g \in Files, Disturb(g), NEW q \in Reqs, pc[q] = "commit", FileOf(q) = g
        PROVE  raced'[q]
    BY <1>4 DEF Disturb
  <1> QED
    BY <1>1, <1>2, <1>3, <1>4 DEF External, ExternalWrite, ExternalReplace, ExternalRemove

(* What a request's own step does to its base stamp.                       *)
LEMMA BaseMoves ==
  ASSUME Structure, NEW q \in Reqs, Begin(q) \/ Progress(q)
  PROVE  \/ base'[q] = None
         \/ base'[q] = base[q] /\ job'[q] = job[q]
         \/ base'[q] = base[q] /\ pc[q] = "idle"
         \/ /\ UNCHANGED <<dir, inode, now>> /\ job'[q] \in Jobs
            /\ LET f == Canon[job'[q].name] IN
               dir[f] # None /\ base'[q] = StampAt(f) /\ ValueAt(f) = job'[q].expect
  <1> USE DEF Structure, TypeOK
  <1>1. CASE Begin(q)
    <2>1. PICK j \in Jobs, same \in BOOLEAN :
            /\ pc[q] = "idle"
            /\ job' = [job EXCEPT ![q] = j]
            /\ Decide(q, j, same)
            /\ UNCHANGED fsVars
      BY <1>1 DEF Begin
    <2>2. job'[q] = j
      BY <2>1
    <2>3. CASE \E code \in Codes, header \in Contents \cup {None} : Refuse(q, code, header)
      BY <2>1, <2>3 DEF Refuse
    <2>4. CASE \E p \in {"replace", "create", "editCreate"}, st \in Stamp \cup {None} :
                 /\ Proceed(q, p, st)
                 /\ p # "replace" => st = None
                 /\ p = "replace" => /\ dir[Canon[j.name]] # None
                                    /\ st = StampAt(Canon[j.name])
                                    /\ ValueAt(Canon[j.name]) = j.expect
      BY <2>1, <2>2, <2>4 DEF Proceed, fsVars
    <2> QED
      BY <2>1, <2>3, <2>4, Decisions
  <1> USE DEF Goto, callVars, handleVars
  <1>2. CASE AcquireLock(q) \/ StageTemp(q) \/ CheckStamp(q) \/ VerifyBytes(q)
    BY <1>2 DEF AcquireLock, StageTemp, CheckStamp, VerifyBytes
  <1>3. CASE StageTempFails(q) \/ CheckStampFails(q) \/ VerifyBytesFails(q) \/ RenameOrLinkFails(q)
    BY <1>3 DEF StageTempFails, CheckStampFails, VerifyBytesFails, RenameOrLinkFails, Abandon,
                ReturnError, RemoveTemp, KeepTemp
  <1>4. CASE Rename(q) \/ Link(q) \/ LinkLoses(q) \/ UnlinkTemp(q)
    BY <1>4 DEF Rename, Link, LinkLoses, UnlinkTemp, RemoveTemp, KeepTemp
  <1>5. CASE Confirm(q) \/ Publish(q) \/ LoseCreateRace(q)
    BY <1>5 DEF Confirm, Publish, LoseCreateRace
  <1> QED
    BY <1>1, <1>2, <1>3, <1>4, <1>5 DEF Progress

(* The two bookkeeping parts, for one request.                             *)
BaseKnownOf(r) ==
  /\ pc[r] \in {"wantLock", "locked"} /\ plan[r] = "replace" => base[r] # None
  /\ pc[r] \in {"staged", "verify"} => base[r] # None /\ plan[r] = "replace"
  /\ pc[r] \in Locked \cup {"wantLock"} => plan[r] # "none"
  /\ pc[r] # "idle" /\ plan[r] = "create" => job[r].expect = Absent

IdleUntouchedOf(r) == pc[r] = "idle" => replaced[r] = None /\ base[r] = None /\ plan[r] = "none"

LEMMA OwnBookkeeping ==
  ASSUME Structure, NEW q \in Reqs, Begin(q) \/ Progress(q), BaseKnownOf(q), IdleUntouchedOf(q)
  PROVE  BaseKnownOf(q)' /\ IdleUntouchedOf(q)'
  <1> USE DEF Structure, TypeOK, BaseKnownOf, IdleUntouchedOf
  <1>1. CASE Begin(q)
    <2>1. PICK j \in Jobs, same \in BOOLEAN :
            /\ pc[q] = "idle"
            /\ job' = [job EXCEPT ![q] = j]
            /\ Decide(q, j, same)
            /\ UNCHANGED fsVars
      BY <1>1 DEF Begin
    <2>2. job'[q] = j
      BY <2>1
    <2>3. CASE \E code \in Codes, header \in Contents \cup {None} : Refuse(q, code, header)
      BY <2>1, <2>3 DEF Refuse, Finish, Locked
    <2>4. CASE \E p \in {"replace", "create", "editCreate"}, st \in Stamp \cup {None} :
                 /\ Proceed(q, p, st)
                 /\ p = "create" => j.expect = Absent
                 /\ p = "replace" => /\ dir[Canon[j.name]] # None
                                    /\ st = StampAt(Canon[j.name])
      <3>1. Canon[j.name] \in Files
        BY JobFields
      <3>2. dir[Canon[j.name]] # None => StampAt(Canon[j.name]) \in Stamp
        <4>1. dir[Canon[j.name]] # None =>
                dir[Canon[j.name]] \in Inodes /\ inode[dir[Canon[j.name]]] \in FileState
          BY <3>1 DEF InodesLive, InUse
        <4> QED
          BY <4>1, StampTyped DEF StampAt
      <3>3. None \notin Stamp
        BY StampAssumption
      <3> QED
        BY <2>1, <2>2, <2>4, <3>2, <3>3 DEF Proceed, Locked
    <2> QED
      BY <2>1, <2>3, <2>4, Decisions
  <1> USE DEF Goto, Finish, callVars, handleVars, Locked
  <1>2. CASE AcquireLock(q) \/ StageTemp(q) \/ CheckStamp(q) \/ VerifyBytes(q)
    BY <1>2 DEF AcquireLock, StageTemp, CheckStamp, VerifyBytes
  <1>3. CASE StageTempFails(q) \/ CheckStampFails(q) \/ VerifyBytesFails(q) \/ RenameOrLinkFails(q)
    BY <1>3 DEF StageTempFails, CheckStampFails, VerifyBytesFails, RenameOrLinkFails, Abandon,
                ReturnError, RemoveTemp, KeepTemp
  <1>4. CASE Rename(q) \/ Link(q) \/ LinkLoses(q) \/ UnlinkTemp(q)
    BY <1>4 DEF Rename, Link, LinkLoses, UnlinkTemp, RemoveTemp, KeepTemp
  <1>5. CASE Confirm(q) \/ Publish(q) \/ LoseCreateRace(q)
    BY <1>5 DEF Confirm, Publish, LoseCreateRace
  <1> QED
    BY <1>1, <1>2, <1>3, <1>4, <1>5 DEF Progress

(* What the steps of no request leave alone.                               *)
LEMMA WorldMoves ==
  ASSUME Structure, External \/ Tick \/ CrashRestart \/ UNCHANGED vars
  PROVE  /\ job' = job /\ plan' = plan /\ replaced' = replaced
         /\ \A r \in Reqs : raced[r] => raced'[r]
         /\ \/ pc' = pc /\ base' = base
            \/ /\ \A r \in Reqs : base'[r] = None /\ pc'[r] \in {"idle", "done", "dead"}
               /\ \A r \in Reqs : pc'[r] = "idle" <=> pc[r] = "idle"
  <1> USE DEF callVars, handleVars, ghostVars, Structure, TypeOK
  <1>1. CASE External
    BY <1>1 DEF External, ExternalWrite, ExternalReplace, ExternalRemove, Disturb
  <1>2. CASE Tick
    BY <1>2 DEF Tick
  <1>3. CASE CrashRestart
    BY <1>3 DEF CrashRestart, Locked
  <1>4. CASE UNCHANGED vars
    BY <1>4 DEF vars
  <1> QED
    BY <1>1, <1>2, <1>3, <1>4

LEMMA BookkeepingStep ==
  Structure /\ BaseKnown /\ IdleUntouched /\ [Next]_vars => BaseKnown' /\ IdleUntouched'
  <1> SUFFICES ASSUME Structure, BaseKnown, IdleUntouched, [Next]_vars, NEW r \in Reqs
               PROVE  BaseKnownOf(r)' /\ IdleUntouchedOf(r)'
    BY DEF BaseKnown, IdleUntouched, BaseKnownOf, IdleUntouchedOf
  <1>1. BaseKnownOf(r) /\ IdleUntouchedOf(r)
    BY DEF BaseKnown, IdleUntouched, BaseKnownOf, IdleUntouchedOf
  <1>2. ASSUME NEW q \in Reqs, Begin(q) \/ Progress(q)
        PROVE  BaseKnownOf(r)' /\ IdleUntouchedOf(r)'
    <2>1. CASE q = r
      BY <1>1, <1>2, <2>1, OwnBookkeeping
    <2>2. CASE q # r
      <3>1. Unmoved(r)
        BY <1>2, <2>2, OthersUnmoved
      <3> QED
        BY <1>1, <3>1 DEF BaseKnownOf, IdleUntouchedOf, Unmoved
    <2> QED
      BY <2>1, <2>2
  <1>3. CASE External \/ Tick \/ CrashRestart \/ UNCHANGED vars
    BY <1>1, <1>3, WorldMoves DEF BaseKnownOf, IdleUntouchedOf, Locked
  <1> QED
    BY <1>2, <1>3 DEF Next

(* Whoever moves, a file is the same, gone, or stamped with the current    *)
(* time; and the clock never goes back.                                    *)
LEMMA AnyStepTouches ==
  ASSUME Structure, [Next]_vars, NEW f \in Files
  PROVE  /\ SameFile(f) \/ Stamped(f) \/ dir'[f] = None
         /\ now' \in Int /\ now \in Int /\ now <= now'
  <1> USE DEF Structure, TypeOK, Time, fsVars, worldVars
  <1>1. ASSUME NEW q \in Reqs, Begin(q) \/ Progress(q)
        PROVE  SameFile(f) \/ Stamped(f)
    BY <1>1, RequestTouches
  <1>2. CASE External
    <2>1. now' = now
      BY <1>2 DEF External, ExternalWrite, ExternalReplace, ExternalRemove
    <2> QED
      BY <1>2, <2>1, ExternalTouches, StampAssumption
  <1>3. CASE Tick \/ CrashRestart \/ UNCHANGED vars
    BY <1>3, StampAssumption DEF Tick, CrashRestart, fsVars, vars, SameFile
  <1>4. ASSUME NEW q \in Reqs, Begin(q) \/ Progress(q)
        PROVE  now' = now
    <2>1. CASE Begin(q)
      BY <2>1 DEF Begin
    <2>2. CASE Progress(q)
      BY <2>2 DEF Progress, AcquireLock, StageTemp, StageTempFails, CheckStamp, CheckStampFails,
                  VerifyBytes, VerifyBytesFails, Abandon, ReturnError, RemoveTemp, KeepTemp,
                  Rename, Link, LinkLoses, RenameOrLinkFails,
                  UnlinkTemp, Confirm, Publish, LoseCreateRace
    <2> QED
      BY <1>4, <2>1, <2>2
  <1> QED
    BY <1>1, <1>2, <1>3, <1>4, StampAssumption DEF Next

(* A stamp older than this tick that matches now and after a step vouches  *)
(* for the same bytes.                                                     *)
LEMMA MatchingStampIsOld ==
  ASSUME Structure, [Next]_vars, NEW f \in Files, NEW st \in Stamp, st.ctime < now,
         dir'[f] # None, SameStamp(StampAt(f), st)'
  PROVE  /\ dir[f] # None /\ SameStamp(StampAt(f), st)
         /\ inode'[dir'[f]].data = inode[dir[f]].data
  <1>1. StampAt(f)'.ctime = inode'[dir'[f]].ctime
    BY DEF StampAt, StampOf
  <1>2. st.ctime \in Int /\ now \in Int
    BY StampAssumption DEF Stamp, Time, Structure, TypeOK
  <1>3. ~Stamped(f)
    BY <1>1, <1>2 DEF Stamped, SameStamp
  <1>4. SameFile(f)
    BY <1>3, AnyStepTouches
  <1> QED
    BY <1>4 DEF SameFile, StampAt, StampOf, SameStamp

(* A stamp that is not racy was captured after the change it records.      *)
LEMMA TrustedStampIsOld ==
  ASSUME NEW i, NEW st \in FileState, NEW t \in Time, ~StampOf(i, st, t).racy
  PROVE  StampOf(i, st, t).ctime < t
  <1>1. ~WithinRacyWindow(t, st.ctime) /\ StampOf(i, st, t).ctime = st.ctime
    BY DEF StampOf
  <1>2. st.ctime \in Int /\ t \in Int /\ RacyWindow \in Nat
    BY StampAssumption DEF FileState, Time
  <1> QED
    BY <1>1, <1>2 DEF WithinRacyWindow

LEMMA BaseTruthStep ==
  Structure /\ IdleUntouched /\ BaseIsTruthful /\ [Next]_vars => BaseIsTruthful'
  <1> SUFFICES ASSUME Structure, IdleUntouched, BaseIsTruthful, [Next]_vars,
                      NEW r \in Reqs, base'[r] # None, ~base'[r].racy
               PROVE  /\ base'[r].ctime < now'
                      /\ dir'[FileOf(r)'] # None /\ SameStamp(StampAt(FileOf(r)), base[r])'
                           => inode'[dir'[FileOf(r)']].data = job'[r].expect
    BY DEF BaseIsTruthful
  <1>1. CASE base'[r] = base[r] /\ job'[r] = job[r]
    <2>1. pc[r] # "idle" /\ base[r] \in Stamp
      BY <1>1 DEF IdleUntouched, Structure, TypeOK
    <2>2. FileOf(r) \in Files /\ FileOf(r)' = FileOf(r)
      BY <1>1, <2>1, FileTyped DEF FileOf
    <2>3. base[r].ctime < now
      BY <1>1 DEF BaseIsTruthful
    <2>4. base[r].ctime < now'
      BY <2>1, <2>2, <2>3, AnyStepTouches, StampAssumption DEF Stamp, Time
    <2>5. ASSUME dir'[FileOf(r)] # None, SameStamp(StampAt(FileOf(r)), base[r])'
          PROVE  inode'[dir'[FileOf(r)]].data = job[r].expect
      <3> DEFINE f == FileOf(r)
      <3>1. dir'[f] # None /\ SameStamp(StampAt(f)', base[r])
        BY <1>1, <2>2, <2>5
      <3>2. /\ dir[f] # None /\ SameStamp(StampAt(f), base[r])
            /\ inode'[dir'[f]].data = inode[dir[f]].data
        BY <2>1, <2>2, <2>3, <2>5, <1>1, MatchingStampIsOld
      <3> QED
        BY <1>1, <3>2 DEF BaseIsTruthful
    <2> QED
      BY <1>1, <2>2, <2>4, <2>5
  <1>2. CASE /\ UNCHANGED <<dir, inode, now>> /\ job'[r] \in Jobs
             /\ LET f == Canon[job'[r].name] IN
                dir[f] # None /\ base'[r] = StampAt(f) /\ ValueAt(f) = job'[r].expect
    <2> DEFINE f == Canon[job'[r].name]
    <2>1. /\ dir' = dir /\ inode' = inode /\ now' = now
          /\ dir[f] # None /\ base'[r] = StampAt(f) /\ ValueAt(f) = job'[r].expect
      BY <1>2
    <2>2. f \in Files
      BY <1>2, JobFields
    <2>3. dir[f] \in Inodes /\ inode[dir[f]] \in FileState /\ now \in Time
      BY <2>1, <2>2 DEF Structure, TypeOK, InodesLive, InUse
    <2>4. base'[r] = StampOf(dir[f], inode[dir[f]], now)
      BY <2>1 DEF StampAt
    <2>5. base'[r].ctime < now'
      BY <2>1, <2>3, <2>4, TrustedStampIsOld
    <2>6. FileOf(r)' = f
      BY DEF FileOf
    <2>7. inode'[dir'[f]].data = job'[r].expect
      BY <2>1 DEF ValueAt
    <2> QED
      BY <2>5, <2>6, <2>7
  <1>3. ASSUME NEW q \in Reqs, Begin(q) \/ Progress(q), q # r
        PROVE  base'[r] = base[r] /\ job'[r] = job[r]
    BY <1>3, OthersUnmoved DEF Unmoved
  <1>4. ASSUME Begin(r) \/ Progress(r)
        PROVE  \/ base'[r] = base[r] /\ job'[r] = job[r]
               \/ /\ UNCHANGED <<dir, inode, now>> /\ job'[r] \in Jobs
                  /\ LET f == Canon[job'[r].name] IN
                     dir[f] # None /\ base'[r] = StampAt(f) /\ ValueAt(f) = job'[r].expect
    BY <1>4, BaseMoves DEF IdleUntouched
  <1>5. CASE External \/ Tick \/ CrashRestart \/ UNCHANGED vars
    BY <1>1, <1>5, WorldMoves
  <1> QED
    BY <1>1, <1>2, <1>3, <1>4, <1>5 DEF Next

(* The last check of a replacement: a racy base stamp is not trusted, and  *)
(* a stamp that is not racy vouches for the bytes expected.                *)
LEMMA ChecksAreSound ==
  ASSUME Structure, BaseKnown, BaseIsTruthful, NEW q \in Reqs, Begin(q) \/ Progress(q),
         pc'[q] = "commit", plan'[q] = "replace"
  PROVE  ValueAt(FileOf(q))' = job'[q].expect
  <1> USE DEF Structure, TypeOK, Goto, Finish
  <1>1. ~Begin(q)
    <2> SUFFICES ASSUME Begin(q)
                 PROVE  FALSE
      OBVIOUS
    <2>1. PICK j \in Jobs, same \in BOOLEAN : Decide(q, j, same)
      BY DEF Begin
    <2> QED
      BY <2>1, Decisions, SMTT(20) DEF Proceed, Refuse
  <1>2. CASE StageTemp(q)
    BY <1>2 DEF StageTemp, callVars
  <1>3. CASE CheckStamp(q)
    <2>1. /\ pc[q] = "staged" /\ ~base[q].racy /\ DestinationStampHolds(q)
          /\ dir' = dir /\ inode' = inode /\ job' = job
      BY <1>3 DEF CheckStamp, fsVars, callVars
    <2>2. base[q] # None
      BY <2>1 DEF BaseKnown
    <2>3. dir[FileOf(q)] # None /\ inode[dir[FileOf(q)]].data = job[q].expect
      BY <2>1, <2>2 DEF BaseIsTruthful, DestinationStampHolds
    <2> QED
      BY <2>1, <2>3 DEF ValueAt, FileOf
  <1>4. CASE VerifyBytes(q)
    BY <1>4 DEF VerifyBytes, fsVars, callVars, ValueAt, FileOf
  <1>5. CASE AcquireLock(q) \/ StageTempFails(q) \/ Publish(q) \/ LoseCreateRace(q)
    BY <1>5 DEF AcquireLock, StageTempFails, Publish, LoseCreateRace
  <1>6. CASE CheckStampFails(q) \/ VerifyBytesFails(q) \/ RenameOrLinkFails(q)
    BY <1>6 DEF CheckStampFails, VerifyBytesFails, RenameOrLinkFails, Abandon, ReturnError,
                RemoveTemp, KeepTemp
  <1>7. CASE Rename(q) \/ Link(q) \/ LinkLoses(q) \/ UnlinkTemp(q) \/ Confirm(q)
    BY <1>7 DEF Rename, Link, LinkLoses, UnlinkTemp, RemoveTemp, KeepTemp, Confirm
  <1> QED
    BY <1>1, <1>2, <1>3, <1>4, <1>5, <1>6, <1>7 DEF Progress

(* Between the last check and the rename only other programs can change    *)
(* the destination, and then the request counts as raced: no request of    *)
(* this server can, while the path lock is held.                           *)
LEMMA CheckedStep ==
  /\ Structure /\ LockHeld /\ BaseKnown /\ BaseIsTruthful /\ CheckedIsCurrent
  /\ NoAliases /\ [Next]_vars
  => CheckedIsCurrent'
  <1> SUFFICES ASSUME Structure, LockHeld, BaseKnown, BaseIsTruthful, CheckedIsCurrent,
                      NoAliases, [Next]_vars,
                      NEW r \in Reqs, pc'[r] = "commit", plan'[r] = "replace", ~raced'[r]
               PROVE  ValueAt(FileOf(r))' = job'[r].expect
    BY DEF CheckedIsCurrent
  <1>1. CASE Begin(r) \/ Progress(r)
    BY <1>1, ChecksAreSound
  <1>2. ASSUME pc[r] = "commit", plan[r] = "replace", job'[r] = job[r], ~raced[r],
               SameFile(FileOf(r)) \/ ValueAt(FileOf(r)) = (ValueAt(FileOf(r)))'
        PROVE  ValueAt(FileOf(r))' = job'[r].expect
    BY <1>2 DEF CheckedIsCurrent, SameFile, ValueAt, FileOf
  <1>3. ASSUME NEW q \in Reqs, Begin(q) \/ Progress(q), q # r
        PROVE  ValueAt(FileOf(r))' = job'[r].expect
    <2>1. pc[r] = "commit" /\ plan[r] = "replace" /\ job'[r] = job[r] /\ ~raced[r]
      BY <1>3, OthersUnmoved DEF Unmoved
    <2>2. FileOf(r) \in Files /\ FileOf(r)' = FileOf(r)
      BY <2>1, FileTyped DEF FileOf
    <2>3. ~(pc[q] = "commit" /\ FileOf(r) = FileOf(q))
      BY <1>3, <2>1, LockExcludes DEF SerializedWriters, Locked
    <2>4. CASE SameFile(FileOf(r))
      BY <2>1, <2>4, <1>2
    <2>5. CASE ~SameFile(FileOf(r))
      <3>1. \A f \in Files : f = FileOf(r) => ValueAt(f)' = ValueAt(f)
        BY <1>3, <2>3, <2>5, RequestTouches
      <3> QED
        BY <2>1, <2>2, <3>1 DEF CheckedIsCurrent, ValueAt
    <2> QED
      BY <2>4, <2>5
  <1>4. CASE External \/ Tick \/ CrashRestart \/ UNCHANGED vars
    <2>1. pc[r] = "commit" /\ plan[r] = "replace" /\ job'[r] = job[r] /\ ~raced[r]
      BY <1>4, WorldMoves
    <2>2. FileOf(r) \in Files
      BY <2>1, FileTyped
    <2>3. SameFile(FileOf(r))
      <3>1. CASE External
        BY <3>1, <2>1, <2>2, ExternalTouches
      <3>2. CASE Tick \/ CrashRestart \/ UNCHANGED vars
        BY <3>2 DEF Tick, CrashRestart, fsVars, vars, SameFile
      <3> QED
        BY <1>4, <3>1, <3>2
    <2> QED
      BY <2>1, <2>3, <1>2
  <1> QED
    BY <1>1, <1>3, <1>4 DEF Next

(* What a request's step does to its history variable.                     *)
LEMMA LandingMoves ==
  ASSUME Structure, NEW q \in Reqs, Begin(q) \/ Progress(q)
  PROVE  /\ raced' = raced
         /\ \/ pc[q] = "idle" /\ replaced' = replaced
            \/ /\ job' = job /\ plan' = plan
               /\ \/ replaced' = replaced
                  \/ Rename(q) /\ replaced'[q] = ValueAt(FileOf(q))
                  \/ Link(q) /\ replaced'[q] = Absent
  <1> USE DEF Structure, TypeOK, callVars, ghostVars
  <1>1. CASE Begin(q)
    BY <1>1 DEF Begin
  <1>2. CASE AcquireLock(q) \/ StageTemp(q) \/ CheckStamp(q) \/ VerifyBytes(q)
    BY <1>2 DEF AcquireLock, StageTemp, CheckStamp, VerifyBytes
  <1>3. CASE StageTempFails(q) \/ CheckStampFails(q) \/ VerifyBytesFails(q) \/ RenameOrLinkFails(q)
    BY <1>3 DEF StageTempFails, CheckStampFails, VerifyBytesFails, RenameOrLinkFails, Abandon,
                ReturnError, RemoveTemp, KeepTemp
  <1>4. CASE Rename(q) \/ Link(q) \/ LinkLoses(q) \/ UnlinkTemp(q)
    BY <1>4 DEF Rename, Link, LinkLoses, UnlinkTemp, RemoveTemp, KeepTemp
  <1>5. CASE Confirm(q) \/ Publish(q) \/ LoseCreateRace(q)
    BY <1>5 DEF Confirm, Publish, LoseCreateRace
  <1> QED
    BY <1>1, <1>2, <1>3, <1>4, <1>5 DEF Progress

LEMMA LostUpdateStep ==
  /\ Structure /\ BaseKnown /\ CheckedIsCurrent /\ IdleUntouched /\ NoLostUpdate
  /\ [Next]_vars
  => NoLostUpdate'
  <1> SUFFICES ASSUME Structure, BaseKnown, CheckedIsCurrent, IdleUntouched, NoLostUpdate,
                      [Next]_vars,
                      NEW r \in Reqs, replaced'[r] # None, plan'[r] # "editCreate", ~raced'[r]
               PROVE  replaced'[r] = job'[r].expect
    BY DEF NoLostUpdate
  <1>1. ASSUME NEW q \in Reqs, Begin(q) \/ Progress(q), q # r
        PROVE  replaced'[r] = job'[r].expect
    BY <1>1, OthersUnmoved DEF Unmoved, NoLostUpdate
  <1>2. CASE Begin(r) \/ Progress(r)
    <2>1. CASE pc[r] = "idle" /\ replaced' = replaced
      BY <2>1 DEF IdleUntouched
    <2>2. CASE job' = job /\ plan' = plan /\ replaced' = replaced
      BY <1>2, <2>2, LandingMoves DEF NoLostUpdate
    <2>3. CASE job' = job /\ plan' = plan /\ Rename(r) /\ replaced'[r] = ValueAt(FileOf(r))
      <3>1. pc[r] = "commit" /\ plan[r] # "create" /\ plan[r] # "editCreate"
        BY <2>3 DEF Rename, Goto
      <3>2. plan[r] = "replace"
        BY <3>1 DEF BaseKnown, Locked, Structure, TypeOK
      <3>3. ~raced[r]
        BY <1>2, LandingMoves
      <3> QED
        BY <2>3, <3>1, <3>2, <3>3 DEF CheckedIsCurrent
    <2>4. CASE job' = job /\ Link(r) /\ replaced'[r] = Absent
      BY <2>4 DEF Link, Goto, BaseKnown
    <2> QED
      BY <1>2, <2>1, <2>2, <2>3, <2>4, LandingMoves
  <1>3. CASE External \/ Tick \/ CrashRestart \/ UNCHANGED vars
    BY <1>3, WorldMoves DEF NoLostUpdate
  <1> QED
    BY <1>1, <1>2, <1>3 DEF Next

LEMMA GuardedInit == Init => Guarded
  <1>1. Init => BaseKnown /\ BaseIsTruthful /\ CheckedIsCurrent /\ IdleUntouched /\ NoLostUpdate
    BY DEF Init, BaseKnown, BaseIsTruthful, CheckedIsCurrent, IdleUntouched, NoLostUpdate, Locked
  <1> QED
    BY <1>1, StructureInit, LockInit DEF Guarded

(* A guarded write or edit replaces exactly the bytes its client named,    *)
(* whatever other requests, other programs, failures and crashes do,       *)
(* unless another program writes between the last check and the rename.    *)
(* The exception of a creating edit is what edit_create_overwrites shows.  *)
THEOREM NoUpdateIsLost ==
  ASSUME NoAliases
  PROVE  Spec => []NoLostUpdate
  <1>1. Guarded /\ [Next]_vars => Guarded'
    BY StructureStep, LockStep, BookkeepingStep, BaseTruthStep, CheckedStep, LostUpdateStep
    DEF Guarded
  <1>2. Guarded => NoLostUpdate
    BY DEF Guarded
  <1> QED
    BY <1>1, <1>2, GuardedInit, PTL DEF Spec

-----------------------------------------------------------------------------
(* Answers *)

(* What a request has done to its destination, by where it is: nothing     *)
(* before the landing, something after it, and its answer says which.      *)
SettledOf(r) ==
  /\ pc[r] \in {"idle", "wantLock", "locked", "staged", "verify", "commit", "lost"}
       => replaced[r] = None
  /\ pc[r] \in {"unlink", "landed", "publish"} => replaced[r] # None
  /\ pc[r] = "done" => (reply[r].code = "ok" <=> replaced[r] # None)

Settled == \A r \in Reqs : SettledOf(r)

(* A step of one request leaves what the others answered, hold and saw.    *)
LEMMA OthersKept ==
  ASSUME Structure, NEW q \in Reqs, Begin(q) \/ Progress(q), NEW r \in Reqs, r # q
  PROVE  /\ reply'[r] = reply[r] /\ temp'[r] = temp[r] /\ tstamp'[r] = tstamp[r]
         /\ minted'[r] = minted[r] /\ seed' = seed /\ touched' = touched
  <1> USE DEF Structure, TypeOK, callVars, ghostVars, serverVars
  <1>1. CASE Begin(q)
    <2>1. PICK j \in Jobs, same \in BOOLEAN :
            /\ Decide(q, j, same)
            /\ UNCHANGED <<serverVars, ghostVars, temp, tstamp>>
            /\ minted'[r] = minted[r]
      BY <1>1 DEF Begin
    <2>2. reply'[r] = reply[r]
      <3>1. CASE \E code \in Codes, header \in Contents \cup {None} : Refuse(q, code, header)
        BY <3>1 DEF Refuse, Finish
      <3>2. CASE \E p \in {"replace", "create", "editCreate"}, st \in Stamp \cup {None} :
                   Proceed(q, p, st)
        BY <3>2 DEF Proceed
      <3> QED
        BY <2>1, <3>1, <3>2, Decisions
    <2> QED
      BY <2>1, <2>2
  <1> USE DEF Finish, handleVars
  <1>2. ASSUME NEW code, Abandon(q, code)
        PROVE  /\ reply'[r] = reply[r] /\ temp'[r] = temp[r] /\ tstamp'[r] = tstamp[r]
               /\ minted'[r] = minted[r] /\ seed' = seed /\ touched' = touched
    BY <1>2 DEF Abandon, ReturnError, RemoveTemp, KeepTemp
  <1>3. CASE AcquireLock(q) \/ StageTemp(q) \/ StageTempFails(q) \/ CheckStamp(q) \/ VerifyBytes(q)
    BY <1>3 DEF AcquireLock, StageTemp, StageTempFails, CheckStamp, VerifyBytes
  <1>4. CASE CheckStampFails(q) \/ VerifyBytesFails(q) \/ RenameOrLinkFails(q)
    BY <1>2, <1>4, FailuresAbandon
  <1>5. CASE Rename(q) \/ Link(q) \/ LinkLoses(q) \/ UnlinkTemp(q)
    BY <1>5 DEF Rename, Link, LinkLoses, UnlinkTemp, RemoveTemp, KeepTemp
  <1>6. CASE Confirm(q) \/ Publish(q) \/ LoseCreateRace(q)
    BY <1>6 DEF Confirm, Publish, LoseCreateRace
  <1> QED
    BY <1>1, <1>3, <1>4, <1>5, <1>6 DEF Progress

(* A request that is refused at once does not succeed, and one that goes   *)
(* on only waits for the lock.                                             *)
LEMMA RefusalsFail ==
  ASSUME Structure, NEW q \in Reqs, NEW j, NEW same, Decide(q, j, same)
  PROVE  \/ pc'[q] = "wantLock"
         \/ pc'[q] = "done" /\ reply'[q].code # "ok"
  <1> USE DEF Structure, TypeOK
  <1>1. ASSUME NEW code, NEW header, code # "ok", Refuse(q, code, header)
        PROVE  pc'[q] = "done" /\ reply'[q].code # "ok"
    BY <1>1 DEF Refuse, Finish, Result
  <1>2. ASSUME NEW p, NEW st, Proceed(q, p, st)
        PROVE  pc'[q] = "wantLock"
    BY <1>2 DEF Proceed
  <1> QED
    BY <1>1, <1>2 DEF Decide, DecideWrite, DecideEdit

LEMMA OwnSettled ==
  ASSUME Structure, NEW q \in Reqs, Begin(q) \/ Progress(q), SettledOf(q)
  PROVE  SettledOf(q)'
  <1> USE DEF Structure, TypeOK, SettledOf
  <1>1. CASE Begin(q)
    <2>1. PICK j \in Jobs, same \in BOOLEAN :
            pc[q] = "idle" /\ Decide(q, j, same) /\ replaced' = replaced
      BY <1>1 DEF Begin
    <2> QED
      BY <2>1, RefusalsFail
  <1> USE DEF Goto, Finish, Result, fsVars, callVars, handleVars
  <1>2. ASSUME NEW code, code # "ok", Abandon(q, code),
               pc[q] \in {"staged", "verify", "commit"}
        PROVE  SettledOf(q)'
    BY <1>2 DEF Abandon, ReturnError, RemoveTemp, KeepTemp
  <1>3. CASE AcquireLock(q) \/ StageTemp(q) \/ StageTempFails(q) \/ CheckStamp(q) \/ VerifyBytes(q)
    BY <1>3 DEF AcquireLock, StageTemp, StageTempFails, CheckStamp, VerifyBytes
  <1>4. CASE CheckStampFails(q) \/ VerifyBytesFails(q) \/ RenameOrLinkFails(q)
    BY <1>2, <1>4, FailuresAbandon
  <1>5. CASE Rename(q)
    <2>1. pc[q] = "commit"
      BY <1>5 DEF Rename
    <2>2. ValueAt(FileOf(q)) # None
      BY <2>1, FileTyped, StampAssumption, WriteAssumption
    <2> QED
      BY <1>5, <2>2 DEF Rename
  <1>6. CASE Link(q) \/ LinkLoses(q) \/ UnlinkTemp(q)
    BY <1>6, WriteAssumption DEF Link, LinkLoses, UnlinkTemp, RemoveTemp, KeepTemp
  <1>7. CASE Confirm(q) \/ Publish(q) \/ LoseCreateRace(q)
    BY <1>7 DEF Confirm, Publish, LoseCreateRace
  <1> QED
    BY <1>1, <1>3, <1>4, <1>5, <1>6, <1>7 DEF Progress

LEMMA SettledStep == Structure /\ Settled /\ [Next]_vars => Settled'
  <1> SUFFICES ASSUME Structure, Settled, [Next]_vars, NEW r \in Reqs
               PROVE  SettledOf(r)'
    BY DEF Settled
  <1>1. SettledOf(r)
    BY DEF Settled
  <1>2. ASSUME NEW q \in Reqs, Begin(q) \/ Progress(q)
        PROVE  SettledOf(r)'
    <2>1. CASE q = r
      BY <1>1, <1>2, <2>1, OwnSettled
    <2>2. CASE q # r
      <3>1. Unmoved(r) /\ reply'[r] = reply[r]
        BY <1>2, <2>2, OthersUnmoved, OthersKept
      <3> QED
        BY <1>1, <3>1 DEF SettledOf, Unmoved
    <2> QED
      BY <2>1, <2>2
  <1>3. CASE External \/ Tick \/ UNCHANGED vars
    <2>1. pc' = pc /\ replaced' = replaced /\ reply' = reply
      BY <1>3 DEF External, ExternalWrite, ExternalReplace, ExternalRemove, Tick, vars
    <2> QED
      BY <1>1, <2>1 DEF SettledOf
  <1>4. CASE CrashRestart
    BY <1>1, <1>4 DEF CrashRestart, SettledOf, Structure, TypeOK
  <1> QED
    BY <1>2, <1>3, <1>4 DEF Next

LEMMA SettledInit == Init => Settled
BY DEF Init, Settled, SettledOf

(* A success is reported exactly for bytes that reached the destination:   *)
(* every refusal, failure and lost race left the destination alone         *)
(* (the error paths of persist.rs and lose_create_race).                   *)
THEOREM AnswersAreHonest == Spec => []AnswerMatchesDisk
  <1>1. Init => Structure /\ Settled
    BY StructureInit, SettledInit
  <1>2. Structure /\ Settled /\ [Next]_vars => (Structure /\ Settled)'
    BY StructureStep, SettledStep
  <1>3. Settled => AnswerMatchesDisk
    BY DEF Settled, SettledOf, AnswerMatchesDisk
  <1> QED
    BY <1>1, <1>2, <1>3, PTL DEF Spec

-----------------------------------------------------------------------------
(* Identities and restarts *)

(* A request on its way to its destination named an identity of this       *)
(* process, if it named one at all.                                        *)
MintedHereOf(r) ==
  pc[r] \in Locked \cup {"wantLock"} /\ job[r].expect # Absent => minted[r] = seed

MintedHere == \A r \in Reqs : MintedHereOf(r)

LEMMA OwnMinted ==
  ASSUME Structure, NEW q \in Reqs, Begin(q) \/ Progress(q), MintedHereOf(q)
  PROVE  MintedHereOf(q)'
  <1> USE DEF Structure, TypeOK, MintedHereOf
  <1>1. CASE Begin(q)
    <2>1. PICK j \in Jobs, s \in 0 .. seed :
            /\ job' = [job EXCEPT ![q] = j]
            /\ minted' = [minted EXCEPT ![q] = s]
            /\ Decide(q, j, s = seed)
            /\ seed' = seed
      BY <1>1 DEF Begin, serverVars
    <2>2. CASE s = seed
      BY <2>1, <2>2
    <2>3. CASE s # seed
      <3>1. ASSUME NEW code, NEW header, Refuse(q, code, header)
            PROVE  pc'[q] = "done"
        BY <3>1 DEF Refuse, Finish
      <3>2. CASE DecideWrite(q, j, s = seed)
        BY <2>1, <2>3, <3>1, <3>2 DEF DecideWrite, Locked
      <3>3. CASE DecideEdit(q, j, s = seed) \/ Refuse(q, "unreadable", None)
        BY <2>1, <2>3, <3>1, <3>3 DEF DecideEdit, Locked
      <3> QED
        BY <2>1, <3>2, <3>3 DEF Decide
    <2> QED
      BY <2>2, <2>3
  <1> USE DEF Goto, Finish, fsVars, serverVars, callVars, Locked
  <1>2. ASSUME NEW code, Abandon(q, code)
        PROVE  MintedHereOf(q)' /\ seed' = seed
    BY <1>2 DEF Abandon, ReturnError, RemoveTemp, KeepTemp
  <1>3. CASE AcquireLock(q) \/ StageTemp(q) \/ StageTempFails(q) \/ CheckStamp(q) \/ VerifyBytes(q)
    BY <1>3 DEF AcquireLock, StageTemp, StageTempFails, CheckStamp, VerifyBytes
  <1>4. CASE CheckStampFails(q) \/ VerifyBytesFails(q) \/ RenameOrLinkFails(q)
    BY <1>2, <1>4, FailuresAbandon
  <1>5. CASE Rename(q) \/ Link(q) \/ LinkLoses(q) \/ UnlinkTemp(q)
    BY <1>5 DEF Rename, Link, LinkLoses, UnlinkTemp, RemoveTemp, KeepTemp
  <1>6. CASE Confirm(q) \/ Publish(q) \/ LoseCreateRace(q)
    BY <1>6 DEF Confirm, Publish, LoseCreateRace
  <1> QED
    BY <1>1, <1>3, <1>4, <1>5, <1>6 DEF Progress

LEMMA MintedStep == Structure /\ MintedHere /\ [Next]_vars => MintedHere'
  <1> SUFFICES ASSUME Structure, MintedHere, [Next]_vars, NEW r \in Reqs
               PROVE  MintedHereOf(r)'
    BY DEF MintedHere
  <1>1. MintedHereOf(r)
    BY DEF MintedHere
  <1>2. ASSUME NEW q \in Reqs, Begin(q) \/ Progress(q)
        PROVE  MintedHereOf(r)'
    <2>1. CASE q = r
      BY <1>1, <1>2, <2>1, OwnMinted
    <2>2. CASE q # r
      <3>1. Unmoved(r) /\ minted'[r] = minted[r] /\ seed' = seed
        BY <1>2, <2>2, OthersUnmoved, OthersKept
      <3> QED
        BY <1>1, <3>1 DEF MintedHereOf, Unmoved
    <2> QED
      BY <2>1, <2>2
  <1>3. CASE External \/ Tick \/ UNCHANGED vars
    <2>1. pc' = pc /\ job' = job /\ minted' = minted /\ seed' = seed
      BY <1>3 DEF External, ExternalWrite, ExternalReplace, ExternalRemove, Tick, vars,
                  serverVars, callVars
    <2> QED
      BY <1>1, <2>1 DEF MintedHereOf
  <1>4. CASE CrashRestart
    BY <1>4 DEF CrashRestart, MintedHereOf, Locked
  <1> QED
    BY <1>2, <1>3, <1>4 DEF Next

(* Only a request at its commit changes what it replaced.                  *)
LEMMA LandsFromCommit ==
  ASSUME Structure, [Next]_vars, NEW r \in Reqs, replaced'[r] # replaced[r]
  PROVE  pc[r] = "commit"
  <1>1. ASSUME NEW q \in Reqs, Begin(q) \/ Progress(q)
        PROVE  pc[r] = "commit"
    <2>1. q = r
      BY <1>1, OthersUnmoved DEF Unmoved
    <2>2. Rename(r) \/ Link(r)
      BY <1>1, <2>1, LandingMoves
    <2> QED
      BY <2>2 DEF Rename, Link, Goto
  <1>2. ~(External \/ Tick \/ CrashRestart \/ UNCHANGED vars)
    BY WorldMoves
  <1> QED
    BY <1>1, <1>2 DEF Next

(* An identity minted before a restart never authorizes a change after it  *)
(* (snapshot identities are salted with the process seed).                 *)
THEOREM IdentitiesDieWithTheProcess == Spec => OldSnapshotsAuthorizeNothing
  <1> DEFINE Named(r) ==
        replaced'[r] # replaced[r] /\ job[r].expect # Absent => minted[r] = seed
  <1>1. Init => Structure /\ MintedHere
    BY StructureInit DEF Init, MintedHere, MintedHereOf, Locked
  <1>2. Structure /\ MintedHere /\ [Next]_vars => (Structure /\ MintedHere)'
    BY StructureStep, MintedStep
  <1>3. Structure /\ MintedHere /\ [Next]_vars => [\A r \in Reqs : Named(r)]_vars
    <2> SUFFICES ASSUME Structure, MintedHere, [Next]_vars, NEW r \in Reqs,
                        replaced'[r] # replaced[r], job[r].expect # Absent
                 PROVE  minted[r] = seed
      OBVIOUS
    <2>1. pc[r] = "commit"
      BY LandsFromCommit
    <2> QED
      BY <2>1 DEF MintedHere, MintedHereOf, Locked
  <1> QED
    BY <1>1, <1>2, <1>3, PTL DEF Spec, OldSnapshotsAuthorizeNothing

-----------------------------------------------------------------------------
(* The bytes of a request *)

(* A temp file holds the bytes the request is to write ...                 *)
TempHoldsOf(r) ==
  pc[r] \in {"staged", "verify", "commit"} => inode[temp[r]].data = job[r].new

TempsHold == \A r \in Reqs : TempHoldsOf(r)

(* ... and so does its destination until the stamp is confirmed, unless    *)
(* another program writes there.                                           *)
LandedOf(r) ==
  pc[r] \in {"unlink", "landed"} /\ ~touched[r] => ValueAt(FileOf(r)) = job[r].new

LandedStays == \A r \in Reqs : LandedOf(r)

(* A temp file is out of reach for everyone else.                          *)
LEMMA TempOfItsOwn ==
  ASSUME Structure, NEW r \in Reqs, pc[r] \in {"staged", "verify", "commit"}
  PROVE  /\ temp[r] \in Inodes /\ inode[temp[r]] # None /\ None \notin Inodes
         /\ \A f \in Files : dir[f] # temp[r]
         /\ \A q \in Reqs \ {r} : temp[q] # temp[r]
  <1> USE DEF Structure, TypeOK
  <1>1. temp[r] # None /\ temp[r] \in Inodes
    BY DEF TempsHeld, Staging
  <1>2. inode[temp[r]] # None
    BY <1>1 DEF InodesLive, InUse
  <1> QED
    BY <1>1, <1>2, StampAssumption DEF TempsPrivate

LEMMA TempsUntouched ==
  ASSUME Structure, NEW r \in Reqs, pc[r] \in {"staged", "verify", "commit"},
         NEW q \in Reqs, q # r, Begin(q) \/ Progress(q)
  PROVE  inode'[temp[r]] = inode[temp[r]]
  <1> USE DEF Structure, TypeOK, fsVars, worldVars
  <1> DEFINE t == temp[r]
  <1>1. /\ t \in Inodes /\ inode[t] # None /\ None \notin Inodes
        /\ \A f \in Files : dir[f] # t
        /\ \A p \in Reqs \ {r} : temp[p] # t
    BY TempOfItsOwn
  <1>2. inode'[t] = inode[t]
    <2> HIDE DEF t
    <2>1. CASE \/ Begin(q) \/ AcquireLock(q) \/ CheckStamp(q) \/ VerifyBytes(q)
               \/ Confirm(q) \/ Publish(q) \/ LoseCreateRace(q)
      BY <2>1 DEF Begin, AcquireLock, CheckStamp, VerifyBytes, Confirm, Publish, LoseCreateRace
    <2>2. CASE StageTemp(q) \/ StageTempFails(q)
      BY <1>1, <2>2 DEF StageTemp, StageTempFails
    <2>3. CASE CheckStampFails(q) \/ VerifyBytesFails(q) \/ RenameOrLinkFails(q) \/ LinkLoses(q)
      <3>1. RemoveTemp(q)
        BY <2>3, FailuresAbandon DEF LinkLoses, Abandon
      <3> QED
        BY <1>1, <3>1 DEF RemoveTemp, KeepTemp
    <2>4. CASE Rename(q)
      <3>1. pc[q] = "commit" /\ FileOf(q) \in Files
        BY <2>4, FileTyped DEF Rename, Goto
      <3> QED
        BY <1>1, <2>4, <3>1 DEF Rename, Relinked
    <2>5. CASE Link(q) \/ UnlinkTemp(q)
      BY <1>1, <2>5 DEF Link, UnlinkTemp, RemoveTemp, KeepTemp
    <2> QED
      BY <2>1, <2>2, <2>3, <2>4, <2>5 DEF Progress
  <1> QED
    BY <1>2

LEMMA TempsUntouchedByWorld ==
  ASSUME Structure, NEW r \in Reqs, pc[r] \in {"staged", "verify", "commit"},
         External \/ Tick \/ UNCHANGED vars
  PROVE  inode'[temp[r]] = inode[temp[r]]
  <1> USE DEF Structure, TypeOK
  <1>1. /\ temp[r] \in Inodes /\ inode[temp[r]] # None /\ None \notin Inodes
        /\ \A f \in Files : dir[f] # temp[r]
    BY TempOfItsOwn
  <1>2. ASSUME NEW f \in Files, NEW c \in Contents, ExternalWrite(f, c)
        PROVE  inode'[temp[r]] = inode[temp[r]]
    BY <1>1, <1>2 DEF ExternalWrite
  <1>3. ASSUME NEW f \in Files, NEW c \in Contents, NEW s \in Time, ExternalReplace(f, c, s)
        PROVE  inode'[temp[r]] = inode[temp[r]]
    BY <1>1, <1>3 DEF ExternalReplace, Relinked
  <1>4. ASSUME NEW f \in Files, ExternalRemove(f)
        PROVE  inode'[temp[r]] = inode[temp[r]]
    BY <1>1, <1>4 DEF ExternalRemove
  <1>5. CASE External
    BY <1>2, <1>3, <1>4, <1>5 DEF External
  <1>6. CASE Tick \/ UNCHANGED vars
    BY <1>6 DEF Tick, vars
  <1> QED
    BY <1>5, <1>6

LEMMA OwnTemp ==
  ASSUME Structure, NEW q \in Reqs, Begin(q) \/ Progress(q), TempHoldsOf(q)
  PROVE  TempHoldsOf(q)'
  <1> USE DEF Structure, TypeOK, TempHoldsOf
  <1>1. CASE Begin(q)
    <2>1. PICK j \in Jobs, same \in BOOLEAN : Decide(q, j, same)
      BY <1>1 DEF Begin
    <2> QED
      BY <2>1, RefusalsFail
  <1> USE DEF Goto, Finish, fsVars, callVars, handleVars
  <1>2. ASSUME NEW code, Abandon(q, code)
        PROVE  TempHoldsOf(q)'
    BY <1>2 DEF Abandon, ReturnError, RemoveTemp, KeepTemp
  <1>3. CASE StageTemp(q)
    BY <1>3 DEF StageTemp
  <1>4. CASE AcquireLock(q) \/ StageTempFails(q) \/ CheckStamp(q) \/ VerifyBytes(q)
    BY <1>4 DEF AcquireLock, StageTempFails, CheckStamp, VerifyBytes
  <1>5. CASE CheckStampFails(q) \/ VerifyBytesFails(q) \/ RenameOrLinkFails(q)
    BY <1>2, <1>5, FailuresAbandon
  <1>6. CASE Rename(q) \/ Link(q) \/ LinkLoses(q) \/ UnlinkTemp(q)
    BY <1>6 DEF Rename, Link, LinkLoses, UnlinkTemp, RemoveTemp, KeepTemp
  <1>7. CASE Confirm(q) \/ Publish(q) \/ LoseCreateRace(q)
    BY <1>7 DEF Confirm, Publish, LoseCreateRace
  <1> QED
    BY <1>1, <1>3, <1>4, <1>5, <1>6, <1>7 DEF Progress

LEMMA TempsStep == Structure /\ TempsHold /\ [Next]_vars => TempsHold'
  <1> SUFFICES ASSUME Structure, TempsHold, [Next]_vars, NEW r \in Reqs
               PROVE  TempHoldsOf(r)'
    BY DEF TempsHold
  <1>1. TempHoldsOf(r)
    BY DEF TempsHold
  <1>2. ASSUME NEW q \in Reqs, Begin(q) \/ Progress(q)
        PROVE  TempHoldsOf(r)'
    <2>1. CASE q = r
      BY <1>1, <1>2, <2>1, OwnTemp
    <2>2. CASE q # r
      <3>1. pc'[r] = pc[r] /\ job'[r] = job[r] /\ temp'[r] = temp[r]
        BY <1>2, <2>2, OthersUnmoved, OthersKept DEF Unmoved
      <3> QED
        BY <1>1, <1>2, <2>2, <3>1, TempsUntouched DEF TempHoldsOf
    <2> QED
      BY <2>1, <2>2
  <1>3. CASE External \/ Tick \/ UNCHANGED vars
    <2>1. pc' = pc /\ job' = job /\ temp' = temp
      BY <1>3 DEF External, ExternalWrite, ExternalReplace, ExternalRemove, Tick, vars,
                  callVars, handleVars
    <2> QED
      BY <1>1, <1>3, <2>1, TempsUntouchedByWorld DEF TempHoldsOf
  <1>4. CASE CrashRestart
    BY <1>4 DEF CrashRestart, TempHoldsOf
  <1> QED
    BY <1>2, <1>3, <1>4 DEF Next

(* The history variable `touched` is never cleared, and a step of another  *)
(* program sets it for the request whose landing it may have written over. *)
LEMMA TouchedStays ==
  ASSUME Structure, [Next]_vars, NEW r \in Reqs, touched[r]
  PROVE  touched'[r]
  <1> USE DEF Structure, TypeOK, ghostVars
  <1>1. ASSUME NEW q \in Reqs, Begin(q) \/ Progress(q)
        PROVE  touched' = touched
    <2>1. CASE Begin(q)
      BY <2>1 DEF Begin
    <2>2. CASE Progress(q)
      BY <2>2 DEF Progress, AcquireLock, StageTemp, StageTempFails, CheckStamp, CheckStampFails,
                  VerifyBytes, VerifyBytesFails, Abandon, ReturnError, RemoveTemp, KeepTemp,
                  Rename, Link, LinkLoses, RenameOrLinkFails,
                  UnlinkTemp, Confirm, Publish, LoseCreateRace
    <2> QED
      BY <1>1, <2>1, <2>2
  <1>2. CASE External
    <2>1. PICK f \in Files : Disturb(f)
      BY <1>2 DEF External, ExternalWrite, ExternalReplace, ExternalRemove
    <2> QED
      BY <2>1 DEF Disturb
  <1>3. CASE Tick \/ CrashRestart \/ UNCHANGED vars
    BY <1>3 DEF Tick, CrashRestart, vars
  <1> QED
    BY <1>1, <1>2, <1>3 DEF Next

LEMMA ExternalMarks ==
  ASSUME Structure, External, NEW r \in Reqs, pc[r] \in {"unlink", "landed"}, ~touched'[r]
  PROVE  SameFile(FileOf(r))
  <1> USE DEF Structure, TypeOK
  <1> DEFINE g == FileOf(r)
  <1>1. g \in Files
    BY FileTyped
  <1>2. ASSUME NEW f \in Files, Disturb(f)
        PROVE  g # f
    BY <1>2 DEF Disturb
  <1>3. ASSUME NEW f \in Files, NEW c \in Contents, ExternalWrite(f, c)
        PROVE  SameFile(g)
    <2>1. g # f
      BY <1>2, <1>3 DEF ExternalWrite
    <2> QED
      BY <1>1, <1>3, <2>1 DEF ExternalWrite, SameFile, EntriesDistinct
  <1>4. ASSUME NEW f \in Files, NEW c \in Contents, NEW t \in Time, ExternalReplace(f, c, t)
        PROVE  SameFile(g)
    <2>1. PICK i \in Inodes :
            /\ inode[i] = None
            /\ inode' = Relinked(f, i, [data |-> c, mtime |-> t, ctime |-> now])
            /\ dir' = [dir EXCEPT ![f] = i]
            /\ Disturb(f)
      BY <1>4 DEF ExternalReplace
    <2>2. [data |-> c, mtime |-> t, ctime |-> now] \in FileState
      BY DEF FileState
    <2>3. \A h \in Files : dir[h] # i
      BY <2>1 DEF InodesLive, InUse
    <2> QED
      BY <1>1, <1>2, <2>1, <2>2, <2>3, RelinkedIsStamped
  <1>5. ASSUME NEW f \in Files, ExternalRemove(f)
        PROVE  SameFile(g)
    <2>1. g # f
      BY <1>2, <1>5 DEF ExternalRemove
    <2> QED
      BY <1>1, <1>5, <2>1 DEF ExternalRemove, SameFile, EntriesDistinct
  <1> QED
    BY <1>3, <1>4, <1>5 DEF External

(* A landing puts the temp's bytes in the destination.                     *)
LEMMA LandsItsBytes ==
  ASSUME Structure, NEW q \in Reqs, Rename(q) \/ Link(q), TempHoldsOf(q)
  PROVE  ValueAt(FileOf(q))' = job[q].new
  <1> USE DEF Structure, TypeOK
  <1> DEFINE i == temp[q]
  <1> DEFINE f == FileOf(q)
  <1>1. pc[q] = "commit" /\ job' = job
    BY DEF Rename, Link, Goto, callVars
  <1>2. i \in Inodes /\ inode[i] \in FileState /\ i # None /\ f \in Files
    BY <1>1, TempOfItsOwn, FileTyped
  <1>3. inode[i].data = job[q].new
    BY <1>1 DEF TempHoldsOf
  <1>4. dir'[f] = i
    BY <1>2 DEF Rename, Link
  <1>5. inode'[i] = [inode[i] EXCEPT !.ctime = now]
    BY <1>2 DEF Rename, Link, Relinked
  <1>6. inode'[i].data = inode[i].data
    BY <1>2, <1>5 DEF FileState
  <1> QED
    BY <1>1, <1>2, <1>3, <1>4, <1>6 DEF ValueAt, FileOf

LEMMA OwnLanded ==
  ASSUME Structure, NEW q \in Reqs, Begin(q) \/ Progress(q), TempHoldsOf(q), LandedOf(q),
         touched' = touched
  PROVE  LandedOf(q)'
  <1> USE DEF Structure, TypeOK, LandedOf
  <1>1. CASE Begin(q)
    <2>1. PICK j \in Jobs, same \in BOOLEAN : Decide(q, j, same)
      BY <1>1 DEF Begin
    <2> QED
      BY <2>1, RefusalsFail
  <1> USE DEF Goto, Finish, fsVars, callVars, handleVars
  <1>2. CASE Rename(q) \/ Link(q)
    <2>1. ValueAt(FileOf(q))' = job[q].new /\ job' = job
      BY <1>2, LandsItsBytes DEF Rename, Link
    <2> QED
      BY <2>1
  <1>3. CASE UnlinkTemp(q)
    <2>1. pc[q] = "unlink" /\ job' = job
      BY <1>3 DEF UnlinkTemp
    <2>2. FileOf(q) \in Files /\ FileOf(q)' = FileOf(q)
      BY <2>1, FileTyped DEF FileOf
    <2>3. \A f \in Files : ValueAt(f)' = ValueAt(f)
      BY <1>3, <2>1, RequestTouches DEF SameFile, ValueAt, Progress
    <2> QED
      BY <2>1, <2>2, <2>3 DEF ValueAt
  <1>4. ASSUME NEW code, Abandon(q, code)
        PROVE  LandedOf(q)'
    BY <1>4 DEF Abandon, ReturnError, RemoveTemp, KeepTemp
  <1>5. CASE AcquireLock(q) \/ StageTemp(q) \/ StageTempFails(q) \/ CheckStamp(q) \/ VerifyBytes(q)
    BY <1>5 DEF AcquireLock, StageTemp, StageTempFails, CheckStamp, VerifyBytes
  <1>6. CASE CheckStampFails(q) \/ VerifyBytesFails(q) \/ RenameOrLinkFails(q) \/ LinkLoses(q)
    BY <1>4, <1>6, FailuresAbandon DEF LinkLoses
  <1>7. CASE Confirm(q) \/ Publish(q) \/ LoseCreateRace(q)
    BY <1>7 DEF Confirm, Publish, LoseCreateRace
  <1> QED
    BY <1>1, <1>2, <1>3, <1>5, <1>6, <1>7 DEF Progress

LEMMA LandedStep ==
  /\ Structure /\ LockHeld /\ TempsHold /\ LandedStays /\ NoAliases /\ [Next]_vars
  => LandedStays'
  <1> SUFFICES ASSUME Structure, LockHeld, TempsHold, LandedStays, NoAliases, [Next]_vars,
                      NEW r \in Reqs
               PROVE  LandedOf(r)'
    BY DEF LandedStays
  <1>1. LandedOf(r) /\ TempHoldsOf(r)
    BY DEF LandedStays, TempsHold
  <1>2. ASSUME pc'[r] = pc[r], job'[r] = job[r], ~touched'[r], pc[r] \in {"unlink", "landed"},
               SameFile(FileOf(r)) \/ ValueAt(FileOf(r)) = (ValueAt(FileOf(r)))'
        PROVE  LandedOf(r)'
    BY <1>1, <1>2, TouchedStays DEF LandedOf, SameFile, ValueAt, FileOf
  <1>3. ASSUME NEW q \in Reqs, Begin(q) \/ Progress(q), q # r
        PROVE  LandedOf(r)'
    <2> SUFFICES ASSUME pc'[r] \in {"unlink", "landed"}, ~touched'[r]
                 PROVE  LandedOf(r)'
      BY DEF LandedOf
    <2>1. pc'[r] = pc[r] /\ job'[r] = job[r]
      BY <1>3, OthersUnmoved DEF Unmoved
    <2>2. FileOf(r) \in Files /\ FileOf(r)' = FileOf(r)
      BY <2>1, FileTyped DEF FileOf
    <2>3. ~(pc[q] = "commit" /\ FileOf(r) = FileOf(q))
      BY <1>3, <2>1, LockExcludes DEF SerializedWriters, Locked
    <2>4. CASE SameFile(FileOf(r))
      BY <2>1, <2>4, <1>2
    <2>5. CASE ~SameFile(FileOf(r))
      <3>1. \A f \in Files : f = FileOf(r) => ValueAt(f)' = ValueAt(f)
        BY <1>3, <2>3, <2>5, RequestTouches
      <3>2. ValueAt(FileOf(r))' = ValueAt(FileOf(r))
        BY <2>2, <3>1 DEF ValueAt
      <3> QED
        BY <2>1, <3>2, <1>2
    <2> QED
      BY <2>4, <2>5
  <1>4. CASE Begin(r) \/ Progress(r)
    <2>1. touched' = touched
      <3>1. CASE Begin(r)
        BY <3>1 DEF Begin, ghostVars
      <3>2. CASE Progress(r)
        BY <3>2 DEF Progress, AcquireLock, StageTemp, StageTempFails, CheckStamp, CheckStampFails,
                    VerifyBytes, VerifyBytesFails, Abandon, ReturnError, RemoveTemp, KeepTemp,
                    Rename, Link, LinkLoses, RenameOrLinkFails,
                    UnlinkTemp, Confirm, Publish, LoseCreateRace, ghostVars
      <3> QED
        BY <1>4, <3>1, <3>2
    <2> QED
      BY <1>1, <1>4, <2>1, OwnLanded
  <1>5. CASE External \/ Tick \/ UNCHANGED vars
    <2> SUFFICES ASSUME pc'[r] \in {"unlink", "landed"}, ~touched'[r]
                 PROVE  LandedOf(r)'
      BY DEF LandedOf
    <2>1. pc' = pc /\ job' = job
      BY <1>5 DEF External, ExternalWrite, ExternalReplace, ExternalRemove, Tick, vars, callVars
    <2>2. CASE External
      BY <1>2, <2>1, <2>2, ExternalMarks
    <2>3. CASE Tick \/ UNCHANGED vars
      <3>1. SameFile(FileOf(r))
        BY <2>3 DEF Tick, vars, SameFile
      <3> QED
        BY <1>2, <2>1, <3>1
    <2> QED
      BY <1>5, <2>2, <2>3
  <1>6. CASE CrashRestart
    BY <1>6 DEF CrashRestart, LandedOf
  <1> QED
    BY <1>3, <1>4, <1>5, <1>6 DEF Next

-----------------------------------------------------------------------------
(* Published stamps *)

(* A stamp that is not racy is older than this tick, and while it matches  *)
(* the file at f it vouches for the bytes c.                               *)
Vouches(st, f, c) ==
  ~st.racy =>
    /\ st.ctime < now
    /\ dir[f] # None /\ SameStamp(StampAt(f), st) => inode[dir[f]].data = c

(* The stamp of a confirmed landing, and of a cache entry, vouch for the   *)
(* bytes written, but for the destinations other programs wrote to.        *)
ConfirmedOf(r) ==
  pc[r] = "publish" /\ tstamp[r] # None /\ ~touched[r]
    => Vouches(tstamp[r], FileOf(r), job[r].new)

CachedOf(n) ==
  cache[n] # None /\ ~cache[n].raced
    => Vouches(cache[n].stamp, Canon[n], cache[n].data)

Trustworthy ==
  /\ \A r \in Reqs : ConfirmedOf(r)
  /\ \A n \in Names : CachedOf(n)

LEMMA VouchStep ==
  ASSUME Structure, [Next]_vars, NEW f \in Files, NEW st \in Stamp, NEW c, Vouches(st, f, c)
  PROVE  ~st.racy =>
           /\ st.ctime < now'
           /\ dir'[f] # None /\ SameStamp(StampAt(f), st)' => inode'[dir'[f]].data = c
  <1> SUFFICES ASSUME ~st.racy
               PROVE  /\ st.ctime < now'
                      /\ dir'[f] # None /\ SameStamp(StampAt(f), st)' => inode'[dir'[f]].data = c
    OBVIOUS
  <1>1. st.ctime < now
    BY DEF Vouches
  <1>2. st.ctime < now'
    BY <1>1, AnyStepTouches, StampAssumption DEF Stamp, Time
  <1>3. ASSUME dir'[f] # None, SameStamp(StampAt(f), st)'
        PROVE  inode'[dir'[f]].data = c
    BY <1>1, <1>3, MatchingStampIsOld DEF Vouches
  <1> QED
    BY <1>2, <1>3

(* The confirmation captures a new stamp of the destination, which by then *)
(* holds the bytes of the request.                                         *)
LEMMA ConfirmVouches ==
  ASSUME Structure, NEW q \in Reqs, Confirm(q), LandedOf(q)
  PROVE  ConfirmedOf(q)'
  <1> USE DEF Structure, TypeOK
  <1> DEFINE f == FileOf(q)
  <1>1. pc[q] = "landed" /\ dir' = dir /\ inode' = inode /\ now' = now
        /\ job' = job /\ touched' = touched
    BY DEF Confirm, Goto, fsVars, callVars, ghostVars
  <1>2. f \in Files /\ f' = f
    BY <1>1, FileTyped DEF FileOf
  <1> SUFFICES ASSUME tstamp'[q] # None, ~touched[q], ~tstamp'[q].racy
               PROVE  Vouches(tstamp[q], FileOf(q), job[q].new)'
    BY <1>1 DEF ConfirmedOf, Vouches
  <1>3. tstamp'[q] = StampAt(f) /\ dir[f] # None
    BY DEF Confirm
  <1>4. dir[f] \in Inodes /\ inode[dir[f]] \in FileState /\ now \in Time
    BY <1>2, <1>3 DEF InodesLive, InUse
  <1>5. tstamp'[q].ctime < now
    BY <1>3, <1>4, TrustedStampIsOld DEF StampAt
  <1>6. inode[dir[f]].data = job[q].new
    BY <1>1, <1>3 DEF LandedOf, ValueAt
  <1> QED
    BY <1>1, <1>2, <1>5, <1>6 DEF Vouches

(* How a request comes to be about to publish.                             *)
LEMMA PublishesAfterConfirm ==
  ASSUME Structure, NEW q \in Reqs, Begin(q) \/ Progress(q), pc'[q] = "publish"
  PROVE  Confirm(q)
  <1> USE DEF Structure, TypeOK
  <1>1. ~Begin(q)
    <2> SUFFICES ASSUME Begin(q)
                 PROVE  FALSE
      OBVIOUS
    <2>1. PICK j \in Jobs, same \in BOOLEAN : Decide(q, j, same)
      BY DEF Begin
    <2> QED
      BY <2>1, RefusalsFail
  <1> USE DEF Goto, Finish
  <1>2. ASSUME NEW code, Abandon(q, code)
        PROVE  FALSE
    BY <1>2 DEF Abandon, ReturnError, RemoveTemp, KeepTemp
  <1>3. ~(AcquireLock(q) \/ StageTemp(q) \/ StageTempFails(q) \/ CheckStamp(q) \/ VerifyBytes(q))
    BY DEF AcquireLock, StageTemp, StageTempFails, CheckStamp, VerifyBytes
  <1>4. ~(CheckStampFails(q) \/ VerifyBytesFails(q) \/ RenameOrLinkFails(q))
    BY <1>2, FailuresAbandon
  <1>5. ~(Rename(q) \/ Link(q) \/ LinkLoses(q) \/ UnlinkTemp(q) \/ Publish(q) \/ LoseCreateRace(q))
    BY DEF Rename, Link, LinkLoses, UnlinkTemp, RemoveTemp, KeepTemp, Publish, LoseCreateRace
  <1> QED
    BY <1>1, <1>3, <1>4, <1>5 DEF Progress

LEMMA ConfirmedStep ==
  ASSUME Structure, LandedStays, Trustworthy, [Next]_vars, NEW r \in Reqs
  PROVE  ConfirmedOf(r)'
  <1> USE DEF Structure, TypeOK
  <1>1. ASSUME pc'[r] = pc[r], job'[r] = job[r], tstamp'[r] = tstamp[r]
        PROVE  ConfirmedOf(r)'
    <2> SUFFICES ASSUME pc[r] = "publish", tstamp[r] # None, ~touched'[r]
                 PROVE  Vouches(tstamp[r], FileOf(r), job[r].new)'
      BY <1>1 DEF ConfirmedOf
    <2>1. FileOf(r) \in Files /\ FileOf(r)' = FileOf(r) /\ tstamp[r] \in Stamp
      BY <1>1, FileTyped DEF FileOf
    <2>2. Vouches(tstamp[r], FileOf(r), job[r].new)
      BY TouchedStays DEF Trustworthy, ConfirmedOf
    <2>3. ~tstamp[r].racy =>
            /\ tstamp[r].ctime < now'
            /\ dir'[FileOf(r)] # None /\ SameStamp(StampAt(FileOf(r))', tstamp[r])
                 => inode'[dir'[FileOf(r)]].data = job[r].new
      BY <2>1, <2>2, VouchStep DEF SameStamp, StampAt, StampOf
    <2> QED
      BY <1>1, <2>1, <2>3 DEF Vouches, SameStamp, StampAt, StampOf
  <1>2. ASSUME NEW q \in Reqs, Begin(q) \/ Progress(q), q # r
        PROVE  ConfirmedOf(r)'
    BY <1>1, <1>2, OthersUnmoved, OthersKept DEF Unmoved
  <1>3. CASE Begin(r) \/ Progress(r)
    <2>1. CASE pc'[r] = "publish"
      BY <1>3, <2>1, PublishesAfterConfirm, ConfirmVouches DEF LandedStays
    <2> QED
      BY <2>1 DEF ConfirmedOf
  <1>4. CASE External \/ Tick \/ UNCHANGED vars
    <2>1. pc' = pc /\ job' = job /\ tstamp' = tstamp
      BY <1>4 DEF External, ExternalWrite, ExternalReplace, ExternalRemove, Tick, vars,
                  callVars, handleVars
    <2> QED
      BY <1>1, <2>1
  <1>5. CASE CrashRestart
    BY <1>5 DEF CrashRestart, ConfirmedOf
  <1> QED
    BY <1>2, <1>3, <1>4, <1>5 DEF Next

LEMMA CachedStep ==
  ASSUME Structure, Trustworthy, [Next]_vars, NEW n \in Names
  PROVE  CachedOf(n)'
  <1> USE DEF Structure, TypeOK
  <1>1. Canon[n] \in Files
    BY WriteAssumption
  <1>2. ASSUME cache'[n] = cache[n]
        PROVE  CachedOf(n)'
    <2> SUFFICES ASSUME cache[n] # None, ~cache[n].raced
                 PROVE  Vouches(cache[n].stamp, Canon[n], cache[n].data)'
      BY <1>2 DEF CachedOf
    <2>1. cache[n].stamp \in Stamp
      BY DEF Entry
    <2>2. Vouches(cache[n].stamp, Canon[n], cache[n].data)
      BY DEF Trustworthy, CachedOf
    <2>3. ~cache[n].stamp.racy =>
            /\ cache[n].stamp.ctime < now'
            /\ dir'[Canon[n]] # None /\ SameStamp(StampAt(Canon[n])', cache[n].stamp)
                 => inode'[dir'[Canon[n]]].data = cache[n].data
      BY <1>1, <2>1, <2>2, VouchStep, ZenonT(30) DEF SameStamp, StampAt, StampOf
    <2> QED
      BY <1>2, <2>3 DEF Vouches, SameStamp, StampAt, StampOf
  <1>3. ASSUME NEW q \in Reqs, Publish(q)
        PROVE  CachedOf(n)'
    <2>1. /\ pc[q] = "publish" /\ dir' = dir /\ inode' = inode /\ now' = now
          /\ job[q] \in Jobs
      BY <1>3, FileTyped DEF Publish, fsVars
    <2>2. CASE cache'[n] = cache[n]
      BY <2>2, <1>2
    <2>3. CASE cache'[n] # cache[n]
      <3>1. /\ tstamp[q] # None /\ n = job[q].name
            /\ cache'[n] = [data |-> job[q].new, stamp |-> tstamp[q], raced |-> touched[q]]
        BY <1>3, <2>1, <2>3, JobFields DEF Publish
      <3>2. ConfirmedOf(q) /\ FileOf(q) = Canon[n]
        BY <3>1 DEF Trustworthy, FileOf
      <3> QED
        BY <2>1, <3>1, <3>2 DEF ConfirmedOf, CachedOf, Vouches, StampAt
    <2> QED
      BY <2>2, <2>3
  <1> USE DEF serverVars
  <1>4. ASSUME NEW q \in Reqs, Begin(q) \/ Progress(q), ~Publish(q)
        PROVE  cache' = cache
    <2>1. CASE Begin(q)
      BY <2>1 DEF Begin
    <2>2. CASE Progress(q)
      BY <1>4, <2>2
      DEF Progress, AcquireLock, StageTemp, StageTempFails, CheckStamp, CheckStampFails,
          VerifyBytes, VerifyBytesFails, Abandon, ReturnError, RemoveTemp, KeepTemp, Rename,
          Link, LinkLoses, RenameOrLinkFails,
          UnlinkTemp, Confirm, LoseCreateRace
    <2> QED
      BY <1>4, <2>1, <2>2
  <1>5. CASE External \/ Tick \/ UNCHANGED vars
    <2>1. cache' = cache
      BY <1>5 DEF External, ExternalWrite, ExternalReplace, ExternalRemove, Tick, vars
    <2> QED
      BY <1>2, <2>1
  <1>6. CASE CrashRestart
    BY <1>6 DEF CrashRestart, CachedOf
  <1> QED
    BY <1>2, <1>3, <1>4, <1>5, <1>6 DEF Next

(* What the tools publish in the snapshot cache can be trusted on metadata *)
(* alone outside the racy window, whatever rewrites, replaces and removes  *)
(* the file later (confirm_stamp before publish, and the racy window).     *)
THEOREM CacheCanBeTrusted ==
  ASSUME NoAliases
  PROVE  Spec => []PublishedStampsAreTruthful
  <1> DEFINE Inv == Structure /\ LockHeld /\ TempsHold /\ LandedStays /\ Trustworthy
  <1>1. Init => Inv
    <2>1. Init => TempsHold /\ LandedStays /\ Trustworthy
      BY DEF Init, TempsHold, TempHoldsOf, LandedStays, LandedOf, Trustworthy, ConfirmedOf,
             CachedOf
    <2> QED
      BY <2>1, StructureInit, LockInit
  <1>2. Inv /\ [Next]_vars => Inv'
    <2> SUFFICES ASSUME Inv, [Next]_vars
                 PROVE  Inv'
      OBVIOUS
    <2>1. Trustworthy'
      BY ConfirmedStep, CachedStep DEF Trustworthy
    <2> QED
      BY <2>1, StructureStep, LockStep, TempsStep, LandedStep
  <1>3. Inv => PublishedStampsAreTruthful
    BY DEF Trustworthy, CachedOf, Vouches, PublishedStampsAreTruthful, SameStamp
  <1> QED
    BY <1>1, <1>2, <1>3, PTL DEF Spec

-----------------------------------------------------------------------------
(* Exclusive creates *)

Creators(f) ==
  {r \in Reqs : /\ replaced[r] # None
                /\ job[r].op = "write" /\ job[r].expect = Absent
                /\ FileOf(r) = f}

(* A request that is to create is persisted by link, and no other is.      *)
PlannedOf(r) ==
  pc[r] \in Locked \cup {"wantLock"} =>
    (plan[r] = "create" <=> job[r].op = "write" /\ job[r].expect = Absent)

Planned == \A r \in Reqs : PlannedOf(r)

(* Every create landed on a file that was absent, and either the file is   *)
(* still there or it was removed since.                                    *)
CountedOf(f) ==
  /\ IsFiniteSet(Creators(f))
  /\ Cardinality(Creators(f)) <= removed[f] + (IF dir[f] = None THEN 0 ELSE 1)

Counted == \A f \in Files : CountedOf(f)

LEMMA OwnPlanned ==
  ASSUME Structure, NEW q \in Reqs, Begin(q) \/ Progress(q), PlannedOf(q)
  PROVE  PlannedOf(q)'
  <1> USE DEF Structure, TypeOK, PlannedOf
  <1>1. CASE Begin(q)
    <2>1. PICK j \in Jobs, same \in BOOLEAN :
            job' = [job EXCEPT ![q] = j] /\ Decide(q, j, same)
      BY <1>1 DEF Begin
    <2>2. job'[q] = j
      BY <2>1
    <2>3. ASSUME NEW code, NEW header, Refuse(q, code, header)
          PROVE  pc'[q] = "done"
      BY <2>3 DEF Refuse, Finish
    <2>4. CASE DecideWrite(q, j, same)
      BY <2>2, <2>3, <2>4 DEF DecideWrite, Proceed, Locked
    <2>5. CASE DecideEdit(q, j, same) \/ Refuse(q, "unreadable", None)
      BY <2>2, <2>3, <2>5 DEF DecideEdit, Proceed, Locked
    <2> QED
      BY <2>1, <2>4, <2>5 DEF Decide
  <1> USE DEF Goto, Finish, fsVars, callVars, Locked
  <1>2. ASSUME NEW code, Abandon(q, code)
        PROVE  PlannedOf(q)'
    BY <1>2 DEF Abandon, ReturnError, RemoveTemp, KeepTemp
  <1>3. CASE AcquireLock(q) \/ StageTemp(q) \/ StageTempFails(q) \/ CheckStamp(q) \/ VerifyBytes(q)
    BY <1>3 DEF AcquireLock, StageTemp, StageTempFails, CheckStamp, VerifyBytes
  <1>4. CASE CheckStampFails(q) \/ VerifyBytesFails(q) \/ RenameOrLinkFails(q)
    BY <1>2, <1>4, FailuresAbandon
  <1>5. CASE Rename(q) \/ Link(q) \/ LinkLoses(q) \/ UnlinkTemp(q)
    BY <1>5 DEF Rename, Link, LinkLoses, UnlinkTemp, RemoveTemp, KeepTemp
  <1>6. CASE Confirm(q) \/ Publish(q) \/ LoseCreateRace(q)
    BY <1>6 DEF Confirm, Publish, LoseCreateRace
  <1> QED
    BY <1>1, <1>3, <1>4, <1>5, <1>6 DEF Progress

LEMMA PlannedStep == Structure /\ Planned /\ [Next]_vars => Planned'
  <1> SUFFICES ASSUME Structure, Planned, [Next]_vars, NEW r \in Reqs
               PROVE  PlannedOf(r)'
    BY DEF Planned
  <1>1. PlannedOf(r)
    BY DEF Planned
  <1>2. ASSUME NEW q \in Reqs, Begin(q) \/ Progress(q)
        PROVE  PlannedOf(r)'
    <2>1. CASE q = r
      BY <1>1, <1>2, <2>1, OwnPlanned
    <2>2. CASE q # r
      BY <1>1, <1>2, <2>2, OthersUnmoved DEF PlannedOf, Unmoved
    <2> QED
      BY <2>1, <2>2
  <1>3. CASE External \/ Tick \/ CrashRestart \/ UNCHANGED vars
    BY <1>1, <1>3, WorldMoves DEF PlannedOf, Locked
  <1> QED
    BY <1>2, <1>3 DEF Next

(* Requests leave the removals alone, never unlink a file, and change the  *)
(* creators only by a link to a file that is absent.                       *)
LEMMA CreatorsMove ==
  ASSUME Structure, Settled, Planned, NEW q \in Reqs, Begin(q) \/ Progress(q), NEW f \in Files
  PROVE  \/ Creators(f)' = Creators(f)
         \/ /\ Creators(f)' = Creators(f) \cup {q} /\ q \notin Creators(f)
            /\ dir[f] = None /\ dir'[f] # None
  <1> USE DEF Structure, TypeOK
  <1>1. \A r \in Reqs \ {q} : r \in Creators(f)' <=> r \in Creators(f)
    BY OthersUnmoved DEF Unmoved, Creators, FileOf
  <1>2. CASE Begin(q) \/ replaced' = replaced
    <2>1. pc[q] = "idle" => replaced[q] = None
      BY DEF Settled, SettledOf
    <2>2. replaced' = replaced /\ (pc[q] = "idle" \/ job' = job)
      BY <1>2, LandingMoves DEF Begin, Rename, Link, Goto
    <2>3. q \in Creators(f)' <=> q \in Creators(f)
      BY <2>1, <2>2 DEF Creators, FileOf
    <2> QED
      BY <1>1, <2>3 DEF Creators
  <1>3. CASE Rename(q)
    <2>1. plan[q] # "create" /\ pc[q] = "commit" /\ job' = job
      BY <1>3 DEF Rename, Goto, callVars
    <2>2. ~(job[q].op = "write" /\ job[q].expect = Absent)
      BY <2>1 DEF Planned, PlannedOf, Locked
    <2>3. q \notin Creators(f)' /\ q \notin Creators(f)
      BY <2>1, <2>2 DEF Creators
    <2> QED
      BY <1>1, <2>3 DEF Creators
  <1>4. CASE Link(q)
    <2>1. /\ plan[q] = "create" /\ pc[q] = "commit" /\ job' = job
          /\ dir[FileOf(q)] = None /\ dir' = [dir EXCEPT ![FileOf(q)] = temp[q]]
          /\ replaced' = [replaced EXCEPT ![q] = Absent]
      BY <1>4 DEF Link, Goto, callVars
    <2>2. job[q].op = "write" /\ job[q].expect = Absent
      BY <2>1 DEF Planned, PlannedOf, Locked
    <2>3. replaced[q] = None /\ temp[q] # None /\ Absent # None
      BY <2>1, TempOfItsOwn, WriteAssumption DEF Settled, SettledOf
    <2>4. CASE FileOf(q) = f
      BY <1>1, <2>1, <2>2, <2>3, <2>4 DEF Creators, FileOf
    <2>5. CASE FileOf(q) # f
      BY <1>1, <2>1, <2>5 DEF Creators, FileOf
    <2> QED
      BY <2>4, <2>5
  <1> QED
    BY <1>2, <1>3, <1>4, LandingMoves

LEMMA RequestsNeverRemove ==
  ASSUME Structure, NEW q \in Reqs, Begin(q) \/ Progress(q), NEW f \in Files
  PROVE  removed' = removed /\ (dir[f] # None => dir'[f] # None)
  <1> USE DEF Structure, TypeOK, fsVars, worldVars
  <1>1. dir[f] # None => dir'[f] # None
    BY RequestTouches DEF SameFile, Stamped
  <1>2. removed' = removed
    <2>1. CASE Begin(q)
      BY <2>1 DEF Begin
    <2>2. CASE Progress(q)
      BY <2>2 DEF Progress, AcquireLock, StageTemp, StageTempFails, CheckStamp, CheckStampFails,
                  VerifyBytes, VerifyBytesFails, Abandon, ReturnError, RemoveTemp, KeepTemp,
                  Rename, Link, LinkLoses, RenameOrLinkFails,
                  UnlinkTemp, Confirm, Publish, LoseCreateRace
    <2> QED
      BY <2>1, <2>2
  <1> QED
    BY <1>1, <1>2

LEMMA CountedStep ==
  ASSUME Structure, Settled, Planned, Counted, [Next]_vars, NEW f \in Files
  PROVE  CountedOf(f)'
  <1> USE DEF Structure, TypeOK
  <1>1. /\ IsFiniteSet(Creators(f)) /\ Cardinality(Creators(f)) \in Nat
        /\ removed[f] \in Nat
        /\ Cardinality(Creators(f)) <= removed[f] + (IF dir[f] = None THEN 0 ELSE 1)
    BY FS_CardinalityType, WriteAssumption DEF Counted, CountedOf
  <1>2. ASSUME Creators(f)' = Creators(f),
               \/ removed'[f] = removed[f] /\ (dir[f] # None => dir'[f] # None)
               \/ removed'[f] = removed[f] + 1
        PROVE  CountedOf(f)'
    BY <1>1, <1>2 DEF CountedOf
  <1>3. ASSUME NEW q \in Reqs, Begin(q) \/ Progress(q)
        PROVE  CountedOf(f)'
    <2>1. removed' = removed /\ (dir[f] # None => dir'[f] # None)
      BY <1>3, RequestsNeverRemove
    <2>2. CASE Creators(f)' = Creators(f)
      BY <1>2, <2>1, <2>2
    <2>3. CASE /\ Creators(f)' = Creators(f) \cup {q} /\ q \notin Creators(f)
               /\ dir[f] = None /\ dir'[f] # None
      <3>1. /\ IsFiniteSet(Creators(f)')
            /\ Cardinality(Creators(f)') = Cardinality(Creators(f)) + 1
        BY <1>1, <2>3, FS_AddElement, SMTT(20)
      <3> QED
        BY <1>1, <2>1, <2>3, <3>1 DEF CountedOf
    <2> QED
      BY <1>3, <2>2, <2>3, CreatorsMove
  <1>4. CASE External \/ Tick \/ CrashRestart \/ UNCHANGED vars
    <2>1. Creators(f)' = Creators(f)
      BY <1>4, WorldMoves DEF Creators, FileOf
    <2>2. \/ removed'[f] = removed[f] /\ (dir[f] # None => dir'[f] # None)
          \/ removed'[f] = removed[f] + 1
      <3>1. CASE Tick \/ CrashRestart \/ UNCHANGED vars
        BY <3>1 DEF Tick, CrashRestart, fsVars, vars
      <3>2. ASSUME NEW g \in Files, NEW c \in Contents, ExternalWrite(g, c)
            PROVE  removed' = removed /\ dir' = dir
        BY <3>2 DEF ExternalWrite
      <3>3. ASSUME NEW g \in Files, NEW c \in Contents, NEW t \in Time, ExternalReplace(g, c, t)
            PROVE  removed' = removed /\ (dir[f] # None => dir'[f] # None)
        BY <3>3, StampAssumption DEF ExternalReplace
      <3>4. ASSUME NEW g \in Files, ExternalRemove(g)
            PROVE  \/ removed'[f] = removed[f] /\ dir'[f] = dir[f]
                   \/ removed'[f] = removed[f] + 1
        BY <3>4 DEF ExternalRemove
      <3> QED
        BY <1>4, <3>1, <3>2, <3>3, <3>4 DEF External
    <2> QED
      BY <1>2, <2>1, <2>2
  <1> QED
    BY <1>3, <1>4 DEF Next

(* Concurrent exclusive creates of one file have at most one winner for    *)
(* each time the file was absent, however they are spelled: link(2)        *)
(* decides, not the path lock (atomic_create).                             *)
THEOREM CreatesHaveOneWinner == Spec => []CreatesAreExclusive
  <1> DEFINE Inv == Structure /\ Settled /\ Planned /\ Counted
  <1>1. Init => Inv
    <2> SUFFICES ASSUME Init
                 PROVE  Inv
      OBVIOUS
    <2>1. Planned
      BY DEF Init, Planned, PlannedOf, Locked
    <2>2. \A f \in Files : Creators(f) = {} /\ removed[f] = 0
      BY DEF Init, Creators
    <2>3. Counted
      BY <2>2, FS_EmptySet DEF Counted, CountedOf
    <2> QED
      BY <2>1, <2>3, StructureInit, SettledInit
  <1>2. Inv /\ [Next]_vars => Inv'
    <2> SUFFICES ASSUME Inv, [Next]_vars
                 PROVE  Inv'
      OBVIOUS
    <2>1. Counted'
      BY CountedStep DEF Counted
    <2> QED
      BY <2>1, StructureStep, SettledStep, PlannedStep
  <1>3. Inv => CreatesAreExclusive
    <2> SUFFICES ASSUME Inv, NEW f \in Files
                 PROVE  Cardinality(Creators(f)) <= 1 + removed[f]
      BY DEF CreatesAreExclusive, Creators
    <2>1. Cardinality(Creators(f)) \in Nat /\ removed[f] \in Nat
      BY FS_CardinalityType, WriteAssumption DEF Counted, CountedOf, Structure, TypeOK
    <2> QED
      BY <2>1 DEF Counted, CountedOf
  <1> QED
    BY <1>1, <1>2, <1>3, PTL DEF Spec

-----------------------------------------------------------------------------
(* The promise of the mutation tools *)

(* No call is an edit of the empty file: that one creates a missing file   *)
(* by a rename nothing guards, as edit_create_overwrites shows.            *)
NoCreatingEdits == \A j \in Jobs : j.op = "edit" => j.expect # Empty

(* Then, with no other program about, no request is raced and none lands   *)
(* unguarded.                                                              *)
Alone == \A r \in Reqs : ~raced[r] /\ plan[r] # "editCreate"

LEMMA PlansNoCreatingEdit ==
  ASSUME Structure, NoCreatingEdits, NEW q \in Reqs, Begin(q), plan[q] # "editCreate"
  PROVE  plan'[q] # "editCreate"
  <1> USE DEF Structure, TypeOK
  <1>1. PICK j \in Jobs, same \in BOOLEAN : Decide(q, j, same)
    BY DEF Begin
  <1>2. ASSUME NEW code, NEW header, Refuse(q, code, header)
        PROVE  plan'[q] = plan[q]
    BY <1>2 DEF Refuse
  <1>3. ASSUME NEW p, NEW st, p # "editCreate", Proceed(q, p, st)
        PROVE  plan'[q] # "editCreate"
    BY <1>3 DEF Proceed
  <1>4. CASE DecideWrite(q, j, same) \/ Refuse(q, "unreadable", None)
    BY <1>2, <1>3, <1>4 DEF DecideWrite
  <1>5. CASE DecideEdit(q, j, same)
    BY <1>2, <1>3, <1>5 DEF DecideEdit, NoCreatingEdits
  <1> QED
    BY <1>1, <1>4, <1>5 DEF Decide

LEMMA AloneStep ==
  Structure /\ NoCreatingEdits /\ ExternalKinds = {} /\ Alone /\ [Next]_vars => Alone'
  <1> SUFFICES ASSUME Structure, NoCreatingEdits, ExternalKinds = {}, Alone, [Next]_vars,
                      NEW r \in Reqs
               PROVE  ~raced'[r] /\ plan'[r] # "editCreate"
    BY DEF Alone
  <1> USE DEF Structure, TypeOK
  <1>1. ASSUME NEW q \in Reqs, Begin(q) \/ Progress(q)
        PROVE  ~raced'[r] /\ plan'[r] # "editCreate"
    <2>1. ~raced'[r]
      BY <1>1, LandingMoves DEF Alone
    <2>2. CASE q # r
      BY <1>1, <2>1, <2>2, OthersUnmoved DEF Unmoved, Alone
    <2>3. CASE q = r /\ Begin(q)
      BY <2>1, <2>3, PlansNoCreatingEdit DEF Alone
    <2>4. CASE q = r /\ Progress(q)
      <3>1. plan' = plan
        BY <2>4 DEF Progress, AcquireLock, StageTemp, StageTempFails, CheckStamp, CheckStampFails,
                    VerifyBytes, VerifyBytesFails, Abandon, ReturnError, RemoveTemp, KeepTemp,
                    Rename, Link, LinkLoses, RenameOrLinkFails,
                    UnlinkTemp, Confirm, Publish, LoseCreateRace, callVars
      <3> QED
        BY <2>1, <3>1 DEF Alone
    <2> QED
      BY <1>1, <2>2, <2>3, <2>4
  <1>2. ~External
    BY DEF External, ExternalWrite, ExternalReplace, ExternalRemove, ExternalBudget
  <1>3. CASE Tick \/ CrashRestart \/ UNCHANGED vars
    BY <1>3 DEF Tick, CrashRestart, vars, callVars, ghostVars, Alone
  <1> QED
    BY <1>1, <1>2, <1>3 DEF Next

(* The abstract state.                                                     *)
ValueOf  == [f \in Files |-> ValueAt(f)]
LandedBy == [r \in Reqs |-> replaced[r] # None]
AnswerTo == [r \in Reqs |-> IF pc[r] # "done" THEN "none"
                            ELSE IF reply[r].code = "ok" THEN "ok" ELSE "error"]

LEMMA OthersAnswers ==
  ASSUME Structure, NEW q \in Reqs, Begin(q) \/ Progress(q), NEW r \in Reqs, r # q
  PROVE  AnswerTo'[r] = AnswerTo[r] /\ LandedBy'[r] = LandedBy[r]
BY OthersUnmoved, OthersKept DEF Unmoved, AnswerTo, LandedBy

(* A landing is the step the promise allows: on the value the call named.  *)
LEMMA LandingIsPermitted ==
  ASSUME Structure, BaseKnown, CheckedIsCurrent, Settled, TempsHold, Alone,
         NEW q \in Reqs, Rename(q) \/ Link(q)
  PROVE  Promise!Land(q)
  <1> USE DEF Structure, TypeOK
  <1> DEFINE f == FileOf(q)
  <1>1. /\ Progress(q) /\ pc[q] = "commit" /\ pc'[q] # "done"
        /\ replaced[q] = None /\ replaced'[q] # None
    <2>1. Progress(q) /\ pc[q] = "commit" /\ pc'[q] # "done"
      BY DEF Progress, Rename, Link, Goto
    <2>2. replaced[q] = None
      BY <2>1 DEF Settled, SettledOf
    <2>3. ValueAt(f) # None /\ Absent # None
      BY <2>1, FileTyped, StampAssumption, WriteAssumption
    <2> QED
      BY <2>1, <2>2, <2>3 DEF Rename, Link
  <1>2. job[q] \in Jobs /\ f \in Files /\ f = Canon[job[q].name]
    BY <1>1, FileTyped DEF FileOf
  <1>3. ValueAt(f) = job[q].expect
    <2>1. CASE Rename(q)
      BY <1>1, <2>1 DEF Rename, Alone, CheckedIsCurrent, BaseKnown, Locked
    <2>2. CASE Link(q)
      BY <1>1, <2>2 DEF Link, BaseKnown, ValueAt
    <2> QED
      BY <2>1, <2>2
  <1>4. ValueOf' = [ValueOf EXCEPT ![f] = job[q].new]
    <2>1. ValueAt(f)' = job[q].new
      BY LandsItsBytes DEF TempsHold
    <2>2. (ValueOf')[f] = job[q].new
      <3>1. (ValueOf')[f] = IF dir'[f] = None THEN Absent ELSE inode'[dir'[f]].data
        BY <1>2 DEF ValueOf, ValueAt
      <3>2. f' = f
        BY DEF FileOf, Rename, Link, callVars
      <3> QED
        BY <2>1, <3>1, <3>2 DEF ValueAt
    <2>3. ASSUME NEW g \in Files, g # f
          PROVE  (ValueOf')[g] = ValueOf[g]
      <3>1. SameFile(g)
        BY <1>1, <2>3, RequestTouches
      <3> QED
        BY <3>1 DEF SameFile, ValueOf, ValueAt
    <2> QED
      BY <1>2, <2>2, <2>3 DEF ValueOf
  <1>5. LandedBy[q] = FALSE /\ LandedBy' = [LandedBy EXCEPT ![q] = TRUE]
    <2>1. LandedBy[q] = FALSE /\ LandedBy'[q] = TRUE
      BY <1>1 DEF LandedBy
    <2>2. \A r \in Reqs \ {q} : LandedBy'[r] = LandedBy[r]
      BY <1>1, OthersAnswers
    <2> QED
      BY <2>1, <2>2, ZenonT(40) DEF LandedBy
  <1>6. AnswerTo[q] = "none" /\ AnswerTo' = AnswerTo
    <2>1. AnswerTo[q] = "none" /\ AnswerTo'[q] = "none"
      BY <1>1 DEF AnswerTo
    <2>2. \A r \in Reqs \ {q} : AnswerTo'[r] = AnswerTo[r]
      BY <1>1, OthersAnswers
    <2> QED
      BY <2>1, <2>2 DEF AnswerTo
  <1>7. ValueOf[f] = job[q].expect
    BY <1>2, <1>3 DEF ValueOf
  <1>8. job' = job /\ job[q] # None
    BY <1>2, WriteAssumption DEF Rename, Link, callVars
  <1> HIDE DEF f
  <1> QED
    BY <1>2, <1>4, <1>5, <1>6, <1>7, <1>8
    DEF Promise!Land, Promise!Permits, ValueOf, LandedBy, AnswerTo

(* Only Begin makes a call, and a request makes one.                       *)
LEMMA CallsAreMadeOnce ==
  ASSUME Structure, NEW q \in Reqs
  PROVE  /\ Progress(q) => job' = job /\ job[q] # None
         /\ Begin(q) => /\ pc[q] = "idle" /\ job[q] = None
                        /\ \E j \in Jobs : job' = [job EXCEPT ![q] = j]
  <1> USE DEF Structure, TypeOK
  <1>1. ASSUME Begin(q)
        PROVE  /\ pc[q] = "idle" /\ job[q] = None
               /\ \E j \in Jobs : job' = [job EXCEPT ![q] = j]
    BY <1>1 DEF Begin, CallsKnown
  <1>2. ASSUME Progress(q)
        PROVE  job' = job /\ pc[q] # "idle"
    <2>1. CASE CheckStampFails(q) \/ VerifyBytesFails(q) \/ RenameOrLinkFails(q)
      BY <2>1, FailuresAbandon DEF Abandon, ReturnError, callVars
    <2>2. CASE ~(CheckStampFails(q) \/ VerifyBytesFails(q) \/ RenameOrLinkFails(q))
      BY <1>2, <2>2 DEF Progress, AcquireLock, StageTemp, StageTempFails, CheckStamp, VerifyBytes,
                        Rename, Link, LinkLoses, UnlinkTemp, Confirm, Publish, LoseCreateRace,
                        Goto, callVars
    <2> QED
      BY <2>1, <2>2
  <1> QED
    BY <1>1, <1>2, WriteAssumption DEF CallsKnown

(* Every other step of a request leaves the values alone: it makes the     *)
(* call, or at most answers.                                               *)
LEMMA OtherStepsAnswer ==
  ASSUME Structure, Settled, Settled', NEW q \in Reqs, Begin(q) \/ Progress(q),
         ~(Rename(q) \/ Link(q))
  PROVE  \/ Promise!Ask(q) \/ Promise!Succeed(q) \/ Promise!Fail(q)
         \/ UNCHANGED Promise!vars
  <1> USE DEF Structure, TypeOK
  <1>1. ValueOf' = ValueOf
    <2>1. ~(pc[q] = "commit" /\ pc'[q] \in {"landed", "unlink"})
      <3> USE DEF Goto, Finish, Locked
      <3>1. ASSUME NEW code, Abandon(q, code)
            PROVE  pc'[q] = "done"
        BY <3>1 DEF Abandon, ReturnError, RemoveTemp, KeepTemp
      <3>2. CASE Begin(q)
        BY <3>2 DEF Begin
      <3>3. CASE CheckStampFails(q) \/ VerifyBytesFails(q) \/ RenameOrLinkFails(q)
        BY <3>1, <3>3, FailuresAbandon
      <3>4. CASE \/ AcquireLock(q) \/ StageTemp(q) \/ StageTempFails(q) \/ CheckStamp(q)
                 \/ VerifyBytes(q) \/ LinkLoses(q) \/ UnlinkTemp(q) \/ Confirm(q)
                 \/ Publish(q) \/ LoseCreateRace(q)
        BY <3>4 DEF AcquireLock, StageTemp, StageTempFails, CheckStamp, VerifyBytes, LinkLoses,
                    UnlinkTemp, Confirm, Publish, LoseCreateRace
      <3> QED
        BY <3>2, <3>3, <3>4 DEF Progress
    <2>2. \A f \in Files : ValueAt(f)' = ValueAt(f)
      BY <2>1, RequestTouches DEF SameFile, ValueAt
    <2> QED
      BY <2>2 DEF ValueOf, ValueAt
  <1>2. replaced' = replaced
    BY LandingMoves
  <1>3. LandedBy' = LandedBy
    BY <1>2 DEF LandedBy
  <1>4. pc[q] # "done"
    <2>1. CASE Begin(q)
      BY <2>1 DEF Begin
    <2>2. CASE Progress(q)
      BY <2>2 DEF Progress, AcquireLock, StageTemp, StageTempFails, CheckStamp, CheckStampFails,
                  VerifyBytes, VerifyBytesFails, Rename, Link, LinkLoses, RenameOrLinkFails,
                  UnlinkTemp, Confirm, Publish, LoseCreateRace, Goto
    <2> QED
      BY <2>1, <2>2
  <1>5. AnswerTo[q] = "none" /\ AnswerTo' = [AnswerTo EXCEPT ![q] = AnswerTo'[q]]
    <2>1. \A r \in Reqs \ {q} : AnswerTo'[r] = AnswerTo[r]
      BY OthersAnswers
    <2>2. AnswerTo[q] = "none"
      BY <1>4 DEF AnswerTo
    <2>3. /\ AnswerTo = [r \in Reqs |-> AnswerTo[r]]
          /\ AnswerTo' = [r \in Reqs |-> AnswerTo'[r]]
      BY DEF AnswerTo
    <2> QED
      BY <2>1, <2>2, <2>3
  <1>6. AnswerTo'[q] = "ok" => LandedBy[q]
    BY <1>2 DEF AnswerTo, LandedBy, Settled, SettledOf
  <1>7. AnswerTo'[q] = "error" => ~LandedBy[q]
    BY <1>2 DEF AnswerTo, LandedBy, Settled, SettledOf
  <1> HIDE DEF Structure, TypeOK
  <1>8. AnswerTo'[q] \in {"none", "ok", "error"}
    BY DEF AnswerTo
  <1>9. CASE Begin(q)
    <2>1. /\ job[q] = None
          /\ \E j \in Jobs : job' = [job EXCEPT ![q] = j]
          /\ ~LandedBy[q]
      BY <1>9, CallsAreMadeOnce DEF Settled, SettledOf, LandedBy
    <2>2. AnswerTo'[q] \in {"none", "error"}
      BY <1>6, <1>8, <2>1
    <2> QED
      BY <1>1, <1>3, <1>5, <2>1, <2>2 DEF Promise!Ask, ValueOf, LandedBy, AnswerTo
  <1>10. CASE Progress(q)
    <2>1. job' = job /\ job[q] # None
      BY <1>10, CallsAreMadeOnce
    <2>2. CASE AnswerTo'[q] = "ok"
      BY <1>1, <1>3, <1>5, <1>6, <2>1, <2>2 DEF Promise!Succeed, ValueOf, LandedBy, AnswerTo
    <2>3. CASE AnswerTo'[q] = "error"
      BY <1>1, <1>3, <1>5, <1>7, <2>1, <2>3 DEF Promise!Fail, ValueOf, LandedBy, AnswerTo
    <2>4. CASE AnswerTo'[q] = "none"
      <3>1. AnswerTo' = AnswerTo
        BY <1>5, <2>4 DEF AnswerTo
      <3> QED
        BY <1>1, <1>3, <2>1, <3>1 DEF Promise!vars, ValueOf, LandedBy, AnswerTo
    <2> QED
      BY <1>8, <2>2, <2>3, <2>4
  <1> QED
    BY <1>9, <1>10

LEMMA StepKeepsThePromise ==
  ASSUME Structure, BaseKnown, CheckedIsCurrent, Settled, Settled', TempsHold, Alone,
         ExternalKinds = {}, [Next]_vars
  PROVE  [Promise!Next]_(Promise!vars)
  <1>1. ASSUME NEW q \in Reqs, Begin(q) \/ Progress(q)
        PROVE  [Promise!Next]_(Promise!vars)
    <2>1. CASE Rename(q) \/ Link(q)
      BY <2>1, LandingIsPermitted DEF Promise!Next
    <2>2. CASE ~(Rename(q) \/ Link(q))
      BY <1>1, <2>2, OtherStepsAnswer DEF Promise!Next
    <2> QED
      BY <2>1, <2>2
  <1>2. ~External
    BY DEF External, ExternalWrite, ExternalReplace, ExternalRemove, ExternalBudget
  <1>3. CASE Tick \/ CrashRestart \/ UNCHANGED vars
    <2>1. /\ dir' = dir /\ inode' = inode /\ replaced' = replaced /\ reply' = reply
          /\ job' = job
          /\ \A r \in Reqs : pc'[r] = "done" <=> pc[r] = "done"
      BY <1>3 DEF Tick, CrashRestart, fsVars, callVars, vars, Structure, TypeOK
    <2>2. ValueOf' = ValueOf /\ LandedBy' = LandedBy /\ AnswerTo' = AnswerTo
      BY <2>1 DEF ValueOf, ValueAt, LandedBy, AnswerTo
    <2> QED
      BY <2>1, <2>2 DEF Promise!vars, ValueOf, LandedBy, AnswerTo
  <1> QED
    BY <1>1, <1>2, <1>3 DEF Next

(* Among the requests of one server every write and every edit of a file   *)
(* that exists is one atomic compare-and-set whose operands are those of   *)
(* its own call: it changes its file from the bytes that call named to the *)
(* bytes that call gave, in one step, or not at all; it is answered after  *)
(* that step and answered truthfully, through failures and crashes         *)
(* (edit/mod.rs, write.rs and persist.rs together).                        *)
THEOREM KeepsThePromise ==
  ASSUME NoAliases, NoCreatingEdits, ExternalKinds = {}
  PROVE  Spec => ImplementsVersionedFile
  <1> DEFINE Inv == Guarded /\ Settled /\ TempsHold /\ Alone
  <1>1. Init => Inv
    <2>1. Init => TempsHold /\ Alone
      BY DEF Init, TempsHold, TempHoldsOf, Alone
    <2> QED
      BY <2>1, GuardedInit, SettledInit
  <1>2. Inv /\ [Next]_vars => Inv'
    <2>1. Guarded /\ [Next]_vars => Guarded'
      BY StructureStep, LockStep, BookkeepingStep, BaseTruthStep, CheckedStep, LostUpdateStep
      DEF Guarded
    <2> QED
      BY <2>1, SettledStep, TempsStep, AloneStep DEF Guarded
  <1>3. Init => Promise!Init
    <2> SUFFICES ASSUME Init
                 PROVE  Promise!Init
      OBVIOUS
    <2>1. Structure
      BY StructureInit
    <2>2. ASSUME NEW f \in Files
          PROVE  ValueAt(f) \in Contents \cup {Absent}
      BY <2>1 DEF Structure, TypeOK, InodesLive, InUse, ValueAt, FileState
    <2> QED
      BY <2>2 DEF Init, Promise!Init
  <1>4. Inv /\ Inv' /\ [Next]_vars => [Promise!Next]_(Promise!vars)
    BY StepKeepsThePromise DEF Guarded
  <1> QED
    BY <1>1, <1>2, <1>3, <1>4, PTL DEF Spec, ImplementsVersionedFile, Promise!Spec

-----------------------------------------------------------------------------
(* Progress *)

(* A lock that is held is held by a request on its way to release it.      *)
LocksAreManned ==
  \A n \in Names : lock[n] # None => pc[lock[n]] \in Locked /\ job[lock[n]].name = n

(* The course of a request.                                                *)
Stage == [idle |-> 0, wantLock |-> 1, locked |-> 2, staged |-> 3, verify |-> 4, commit |-> 5,
          unlink |-> 6, landed |-> 7, lost |-> 7, publish |-> 8, done |-> 9, dead |-> 9]

Advances(r) == pc'[r] = pc[r] \/ Stage[pc'[r]] > Stage[pc[r]]

LEMMA MannedStep == Structure /\ LockHeld /\ LocksAreManned /\ [Next]_vars => LocksAreManned'
  <1> SUFFICES ASSUME Structure, LockHeld, LocksAreManned, [Next]_vars
               PROVE  LocksAreManned'
    OBVIOUS
  <1>0. /\ lock \in [Names -> Reqs \cup {None}]
        /\ \A r \in Reqs : pc[r] \in Locked \cup {"wantLock"} => job[r].name \in Names
        /\ None \notin Reqs
    BY JobFields, WriteAssumption DEF Structure, TypeOK, CallsKnown, Locked
  <1>1. ASSUME NEW q \in Reqs, Begin(q) \/ Progress(q)
        PROVE  LocksAreManned'
    <2>1. \A r \in Reqs : r # q => pc'[r] = pc[r] /\ job'[r] = job[r]
      BY <1>1, OthersUnmoved DEF Unmoved
    <2>2. CASE /\ lock' = lock /\ (pc'[q] \in Locked <=> pc[q] \in Locked)
               /\ pc[q] \in Locked => job'[q] = job[q]
      BY <1>0, <2>1, <2>2 DEF LocksAreManned
    <2>3. CASE /\ pc[q] = "wantLock" /\ pc'[q] \in Locked
               /\ lock' = [lock EXCEPT ![job[q].name] = q] /\ job'[q] = job[q]
      BY <1>0, <2>1, <2>3 DEF LocksAreManned, Locked
    <2>4. CASE pc[q] \in Locked /\ Unlock(q)
      <3>1. job[q].name \in Names /\ lock[job[q].name] = q
        BY <1>0, <2>4 DEF LockHeld
      <3> QED
        BY <1>0, <2>1, <2>4, <3>1 DEF LocksAreManned, Unlock
    <2> QED
      BY <1>1, <2>2, <2>3, <2>4, LockMoves
  <1>2. CASE External \/ Tick
    <2>1. pc' = pc /\ job' = job /\ lock' = lock
      BY <1>2 DEF External, ExternalWrite, ExternalReplace, ExternalRemove, Tick, serverVars,
                  callVars
    <2> QED
      BY <2>1 DEF LocksAreManned
  <1>3. CASE CrashRestart
    BY <1>3 DEF CrashRestart, LocksAreManned
  <1>4. CASE UNCHANGED vars
    BY <1>4 DEF vars, LocksAreManned
  <1> QED
    BY <1>1, <1>2, <1>3, <1>4 DEF Next

(* No path through the code leaves a lock behind: a request that waits in  *)
(* path_lock waits for another one that is past it and waits for nothing,  *)
(* and a crash frees what the dead requests held.                          *)
THEOREM LocksAreReleased == Spec => []LocksAreManned
  <1>1. Init => LocksAreManned
    BY DEF Init, LocksAreManned
  <1> QED
    BY <1>1, StructureInit, LockInit, StructureStep, LockStep, MannedStep, PTL DEF Spec

LEMMA RequestAdvances ==
  ASSUME Structure, NEW q \in Reqs, Begin(q) \/ Progress(q)
  PROVE  Advances(q)
  <1> USE DEF Structure, TypeOK, Advances, Stage, Goto, Finish
  <1>1. CASE Begin(q)
    <2>1. PICK j \in Jobs : pc[q] = "idle" /\ \E same \in BOOLEAN : Decide(q, j, same)
      BY <1>1 DEF Begin
    <2>2. pc'[q] \in {"wantLock", "done"}
      BY <2>1, Decisions, SMTT(20) DEF Proceed, Refuse
    <2> QED
      BY <2>1, <2>2
  <1>2. ASSUME NEW code \in Codes, Abandon(q, code)
        PROVE  pc'[q] = "done"
    BY <1>2 DEF Abandon, ReturnError, RemoveTemp, KeepTemp
  <1>3. CASE AcquireLock(q) \/ StageTemp(q) \/ StageTempFails(q) \/ CheckStamp(q) \/ VerifyBytes(q)
    BY <1>3 DEF AcquireLock, StageTemp, StageTempFails, CheckStamp, VerifyBytes
  <1>4. CASE CheckStampFails(q) \/ VerifyBytesFails(q) \/ RenameOrLinkFails(q)
    <2>1. pc'[q] = "done" /\ pc[q] \in {"staged", "verify", "commit"}
      BY <1>2, <1>4, FailuresAbandon DEF Codes
    <2> QED
      BY <2>1
  <1>5. CASE Rename(q) \/ Link(q) \/ LinkLoses(q) \/ UnlinkTemp(q)
    BY <1>5 DEF Rename, Link, LinkLoses, UnlinkTemp, RemoveTemp, KeepTemp
  <1>6. CASE Confirm(q) \/ Publish(q) \/ LoseCreateRace(q)
    BY <1>6 DEF Confirm, Publish, LoseCreateRace
  <1> QED
    BY <1>1, <1>3, <1>4, <1>5, <1>6 DEF Progress

(* No request goes round in a circle: whatever step is taken, each request *)
(* stays where it is or gets nearer to its answer.  Nothing on the way     *)
(* (path_lock, write_unique_temp, publish_staged, the re-load after a lost *)
(* create race) sends a request back to try again.                         *)
THEOREM RequestsAdvance == Spec => [][\A r \in Reqs : Advances(r)]_vars
  <1>1. Structure /\ [Next]_vars => [\A r \in Reqs : Advances(r)]_vars
    <2> SUFFICES ASSUME Structure, Next, NEW r \in Reqs
                 PROVE  Advances(r)
      OBVIOUS
    <2>1. ASSUME NEW q \in Reqs, Begin(q) \/ Progress(q)
          PROVE  Advances(r)
      BY <2>1, OthersUnmoved, RequestAdvances DEF Unmoved, Advances
    <2>2. CASE External \/ Tick
      BY <2>2 DEF External, ExternalWrite, ExternalReplace, ExternalRemove, Tick, Advances
    <2>3. CASE CrashRestart
      <3>1. pc'[r] = pc[r] \/ (pc[r] \notin {"idle", "done", "dead"} /\ pc'[r] = "dead")
        BY <2>3 DEF CrashRestart
      <3> QED
        BY <3>1 DEF Advances, Stage, Structure, TypeOK, Locked
    <2> QED
      BY <2>1, <2>2, <2>3 DEF Next
  <1> QED
    BY <1>1, StructureInit, StructureStep, PTL DEF Spec

=============================================================================
