------------------------------ MODULE FileStamps ------------------------------
(***************************************************************************)
(* Files, inodes and the metadata stamp hashline keeps beside every        *)
(* snapshot (src/src/snapshot.rs, FileStamp).                              *)
(*                                                                         *)
(* Time is counted in ticks of the file system's timestamp granularity:    *)
(* two writes in one tick leave the same timestamp, which is exactly what  *)
(* the racy window of the code is about.                                   *)
(***************************************************************************)
EXTENDS Integers

CONSTANTS
  Contents,    \* exact byte strings a file may hold
  Length,      \* Length[c] is the byte length of content c
  Inodes,      \* inode numbers; a number is reused once its file is gone
  MaxTime,     \* bound on the clock
  RacyWindow,  \* RACY_WINDOW, in ticks
  None         \* "no value" (Option::None)

Time == 0 .. MaxTime

(* What the file system stores for one inode.                              *)
FileState == [data : Contents, mtime : Time, ctime : Time]

(* `racy` is computed once, when the stamp is captured, and then stored.   *)
Stamp == [ino : Inodes, len : Nat, mtime : Time, ctime : Time, racy : BOOLEAN]

ASSUME StampAssumption ==
  /\ Length \in [Contents -> Nat]
  /\ MaxTime \in Nat
  /\ RacyWindow \in Nat
  /\ None \notin Inodes
  /\ None \notin Contents
  /\ None \notin FileState \cup Stamp

(* Mutant: `age < RACY_WINDOW`.                                           *)
WithinRacyWindowStrict(capturedAt, timestamp) ==
  capturedAt < timestamp + RacyWindow

(* within_racy_window: `age <= RACY_WINDOW`; a timestamp in the future of  *)
(* the capture is racy too.                                                *)
WithinRacyWindow(capturedAt, timestamp) ==
  capturedAt <= timestamp + RacyWindow

(* FileStamp::from_metadata on inode i whose state is st.                  *)
StampOf(i, st, capturedAt) ==
  [ ino   |-> i,
    len   |-> Length[st.data],
    mtime |-> st.mtime,
    ctime |-> st.ctime,
    racy  |-> \/ WithinRacyWindow(capturedAt, st.mtime)
              \/ WithinRacyWindow(capturedAt, st.ctime) ]

(* FileStamp's PartialEq: every field but `racy`.                          *)
SameStamp(s, t) ==
  /\ s.ino = t.ino
  /\ s.len = t.len
  /\ s.mtime = t.mtime
  /\ s.ctime = t.ctime

(* FileStamp::confirmed_after_rename: rename and link keep inode, length   *)
(* and mtime but move ctime, so only those three are compared.             *)
ConfirmedAfterRename(tempStamp, current) ==
  /\ tempStamp.ino = current.ino
  /\ tempStamp.len = current.len
  /\ tempStamp.mtime = current.mtime

=============================================================================
