------------------------------- MODULE StableRead -------------------------------
(***************************************************************************)
(* Snapshot::load (src/src/snapshot.rs, load_with_observer and             *)
(* read_candidate): reading a file in blocks while other programs rewrite  *)
(* it in place, replace it or remove it, and the stamp the bytes are kept  *)
(* under.  A file is a sequence of blocks; a step is one system call.      *)
(***************************************************************************)
EXTENDS FileStamps, Sequences

CONSTANTS
  Blocks,       \* what one read(2) returns
  MaxAttempts,  \* MAX_READ_ATTEMPTS
  Kinds,        \* what other programs do: "block", "append", "truncate",
                \* "replace", "remove"
  MaxChanges,   \* bound on their steps
  MaxStall      \* bound on the ticks one attempt takes

ASSUME ReadAssumption ==
  /\ Contents \subseteq Seq(Blocks)
  /\ <<>> \in Contents
  /\ \A c \in Contents : Length[c] = Len(c)
  /\ MaxAttempts \in Nat \ {0}
  /\ Kinds \subseteq {"block", "append", "truncate", "replace", "remove"}
  /\ MaxChanges \in Nat
  /\ MaxStall \in Nat

VARIABLES
  now,      \* the clock
  entry,    \* the inode linked at the path, or None
  file,     \* file[i]: the FileState of inode i
  pc,       \* where the reader is
  attempt,  \* the number of this attempt
  since,    \* when it began
  fd,       \* the inode the attempt has open, or None
  bytes,    \* the blocks read so far
  before,   \* first stamp of the descriptor, or None
  after,    \* second stamp of the descriptor, or None
  fd2,      \* the inode open for the second reading, or None
  reread,   \* the blocks of the second reading
  reply,    \* the result: code, bytes and stamp
  seen,     \* history: what the path held since the call began
  changes,  \* number of steps other programs took
  began     \* history: changes when the call began

fsVars     == <<now, entry, file, changes>>
firstVars  == <<fd, bytes, before, after>>
secondVars == <<fd2, reread>>
callVars   == <<attempt, since, seen, began>>
vars == <<now, entry, file, pc, attempt, since, fd, bytes, before, after, fd2,
          reread, reply, seen, changes, began>>

Absent == None

ValueAtPath == IF entry = None THEN Absent ELSE file[entry].data
DescriptorStamp(i) == StampOf(i, file[i], now)

Goto(from, to) == pc = from /\ pc' = to

Reading == {"open", "read", "fstat", "stat", "reopen", "reread"}

CloseAll ==
  /\ fd' = None /\ bytes' = <<>> /\ before' = None /\ after' = None
  /\ fd2' = None /\ reread' = <<>>

Return(code, data, stamp) ==
  /\ pc' = "done"
  /\ reply' = [code |-> code, data |-> data, stamp |-> stamp]
  /\ CloseAll
  /\ UNCHANGED <<fsVars, callVars>>

(* read_candidate returned Ok(None): once more, or ConcurrentModification  *)
(* after the last of `most` attempts.                                      *)
RetryUpTo(most) ==
  \/ /\ attempt >= most
     /\ Return("concurrent", None, None)
  \/ /\ attempt < most
     /\ pc' = "open"
     /\ attempt' = attempt + 1
     /\ since' = now
     /\ CloseAll
     /\ UNCHANGED <<fsVars, seen, began, reply>>

(* Mutant: one attempt too many.                                           *)
TryTooOften == RetryUpTo(MaxAttempts + 1)

(* Mutant: no retry.                                                       *)
TryOnce == RetryUpTo(1)

TryAgain == RetryUpTo(MaxAttempts)

-----------------------------------------------------------------------------
(* The reader *)

Call ==
  /\ Goto("idle", "open")
  /\ attempt' = 1
  /\ since' = now
  /\ seen' = {ValueAtPath}
  /\ began' = changes
  /\ UNCHANGED <<fsVars, firstVars, secondVars, reply>>

(* File::open and the first fstat.                                         *)
Open ==
  /\ pc = "open"
  /\ \/ /\ entry = None
        /\ Return("not_found", None, None)
     \/ /\ entry # None
        /\ pc' = "read"
        /\ fd' = entry
        /\ before' = DescriptorStamp(entry)
        /\ UNCHANGED <<fsVars, callVars, secondVars, bytes, after, reply>>

(* file.read: the next block, or end of file.                              *)
ReadBlock ==
  LET data == file[fd].data
      eof == Len(bytes) >= Len(data)
  IN
  /\ Goto("read", IF eof THEN "fstat" ELSE "read")
  /\ bytes' = IF eof THEN bytes ELSE Append(bytes, data[Len(bytes) + 1])
  /\ UNCHANGED <<fsVars, callVars, secondVars, fd, before, after, reply>>

(* The second fstat of the descriptor.                                     *)
Fstat ==
  /\ Goto("fstat", "stat")
  /\ after' = DescriptorStamp(fd)
  /\ UNCHANGED <<fsVars, callVars, secondVars, fd, bytes, before, reply>>

(* Descriptor, path and length agree on one stamp.                         *)
Stable ==
  /\ SameStamp(before, after)
  /\ entry # None /\ SameStamp(DescriptorStamp(entry), after)
  /\ Len(bytes) = after.len

(* Mutant: the bytes are returned although the stamp is racy.              *)
StatTrustsRacy ==
  /\ pc = "stat"
  /\ \/ ~Stable /\ TryAgain
     \/ Stable /\ Return("ok", bytes, after)

(* The stat of the path and the decision.                                  *)
Stat ==
  /\ pc = "stat"
  /\ \/ ~Stable /\ TryAgain
     \/ Stable /\ ~after.racy /\ Return("ok", bytes, after)
     \/ /\ Stable /\ after.racy
        /\ pc' = "reopen"
        /\ UNCHANGED <<fsVars, callVars, firstVars, secondVars, reply>>

(* std::fs::read opens the path anew ...                                   *)
Reopen ==
  /\ pc = "reopen"
  /\ \/ entry = None /\ TryAgain
     \/ /\ entry # None
        /\ pc' = "reread"
        /\ fd2' = entry
        /\ UNCHANGED <<fsVars, callVars, firstVars, reread, reply>>

(* ... and reads it to its end; the two readings must agree.               *)
Reread ==
  LET data == file[fd2].data
      eof == Len(reread) >= Len(data)
  IN
  /\ pc = "reread"
  /\ \/ /\ ~eof
        /\ reread' = Append(reread, data[Len(reread) + 1])
        /\ UNCHANGED <<fsVars, callVars, firstVars, pc, fd2, reply>>
     \/ eof /\ reread = bytes /\ Return("ok", bytes, after)
     \/ eof /\ reread # bytes /\ TryAgain

(* Any of these calls may fail.                                            *)
IoError ==
  /\ pc \in Reading
  /\ Return("io", None, None)

-----------------------------------------------------------------------------
(* Other programs and time *)

readerVars == <<pc, attempt, since, began, firstVars, secondVars, reply>>

Change(kind, value) ==
  /\ kind \in Kinds
  /\ changes < MaxChanges
  /\ changes' = changes + 1
  /\ seen' = IF pc \in Reading THEN seen \cup {value} ELSE seen
  /\ UNCHANGED <<now, readerVars>>

(* One write(2) or ftruncate(2) into the file that is there.               *)
Overwrite(kind, data) ==
  /\ Change(kind, data)
  /\ file' = [file EXCEPT ![entry] = [data |-> data, mtime |-> now, ctime |-> now]]
  /\ UNCHANGED entry

WriteInPlace ==
  /\ entry # None
  /\ \/ \E c \in Contents :
          LET old == ValueAtPath IN
          \/ /\ Len(c) = Len(old)
             /\ \E k \in DOMAIN c : c = [old EXCEPT ![k] = c[k]]
             /\ Overwrite("block", c)
          \/ /\ c # <<>> /\ SubSeq(c, 1, Len(c) - 1) = old
             /\ Overwrite("append", c)
     \/ Overwrite("truncate", <<>>)

Replace ==
  \E i \in Inodes \ {entry, fd, fd2}, c \in Contents :
    /\ Change("replace", c)
    /\ entry' = i
    /\ file' = [k \in Inodes |->
                  CASE k = i -> [data |-> c, mtime |-> now, ctime |-> now]
                    [] k # i /\ k = entry -> [file[k] EXCEPT !.ctime = now]
                    [] OTHER -> file[k]]

Unlink ==
  /\ entry # None
  /\ Change("remove", Absent)
  /\ entry' = None
  /\ file' = [file EXCEPT ![entry].ctime = now]

(* An attempt takes at most MaxStall.                                      *)
Tick ==
  /\ now < MaxTime
  /\ pc \in Reading => now < since + MaxStall
  /\ now' = now + 1
  /\ UNCHANGED <<readerVars, entry, file, seen, changes>>

-----------------------------------------------------------------------------

Init ==
  /\ now = 0
  /\ entry \in Inodes \cup {None}
  /\ \E c \in Contents : file = [i \in Inodes |-> [data |-> c, mtime |-> 0, ctime |-> 0]]
  /\ pc = "idle"
  /\ attempt = 0
  /\ since = 0
  /\ fd = None
  /\ bytes = <<>>
  /\ before = None
  /\ after = None
  /\ fd2 = None
  /\ reread = <<>>
  /\ reply = None
  /\ seen = {}
  /\ changes = 0
  /\ began = 0

Next ==
  \/ Call \/ Open \/ ReadBlock \/ Fstat \/ Stat \/ Reopen \/ Reread \/ IoError
  \/ WriteInPlace \/ Replace \/ Unlink
  \/ Tick

Spec == Init /\ [][Next]_vars

-----------------------------------------------------------------------------
(* Properties *)

(* Types of the variables: the file, the attempt, the result.              *)
TypeOK ==
  /\ now \in Time
  /\ entry \in Inodes \cup {None}
  /\ file \in [Inodes -> FileState]
  /\ pc \in Reading \cup {"idle", "done"}
  /\ attempt \in 0 .. MaxAttempts
  /\ since \in Time
  /\ fd \in Inodes \cup {None}
  /\ bytes \in Seq(Blocks)
  /\ before \in Stamp \cup {None}
  /\ after \in Stamp \cup {None}
  /\ fd2 \in Inodes \cup {None}
  /\ reread \in Seq(Blocks)
  /\ changes \in 0 .. MaxChanges
  /\ began \in 0 .. changes

Loaded == pc = "done" /\ reply.code = "ok"

(* A load returns bytes the path held, all at once, at some moment of the  *)
(* call: blocks of two versions are never glued together.  The second      *)
(* reading of a racy file can only confirm a mixture that is made again,   *)
(* which takes four changes during the call.                               *)
BytesWereTheFile == Loaded /\ changes - began < 4 => reply.data \in seen

(* The stamp a load returns is good for metadata-only revalidation: while  *)
(* it is not racy and equals the path's, the path holds the bytes.         *)
StampDescribesBytes ==
  Loaded /\ ~reply.stamp.racy /\ entry # None
         /\ SameStamp(reply.stamp, DescriptorStamp(entry))
    => reply.data = ValueAtPath

(* "Failure to obtain stable bytes after one concurrent-read retry" takes  *)
(* as many changes during the call as there were attempts: no quiet file   *)
(* is refused, and one change costs one attempt.  Changes are counted over *)
(* the whole call, not attempt by attempt.                                 *)
EveryFailedAttemptWasDisturbed ==
  pc = "done" /\ reply.code = "concurrent" => changes - began >= MaxAttempts

=============================================================================
