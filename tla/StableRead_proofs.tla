--------------------------- MODULE StableRead_proofs ---------------------------
(***************************************************************************)
(* Proofs about StableRead, for files of any blocks and any number of      *)
(* changes by other programs: what a load returns, what its stamp is good  *)
(* for, and when it may give up.                                           *)
(***************************************************************************)
EXTENDS StableRead, SequenceTheorems, TLAPS

(* Where the reader holds which descriptor and stamp.                      *)
Sound ==
  /\ TypeOK
  /\ pc \in Reading => attempt >= 1 /\ since <= now /\ now <= since + MaxStall
  /\ pc \in {"idle", "open"} => bytes = <<>>
  /\ pc # "reread" => reread = <<>>
  /\ pc \in Reading \ {"open"} => fd # None /\ before # None
  /\ pc \in {"stat", "reopen", "reread"} => after # None
  /\ pc = "reread" => fd2 # None

(* s is what a reading of d has returned so far, block by block.           *)
Begins(s, d) == Len(s) <= Len(d) /\ \A k \in 1 .. Len(s) : s[k] = d[k]

(* What an attempt sees of a file that nobody changes meanwhile.           *)
Quiet ==
  /\ pc # "open" => /\ entry = fd
                    /\ SameStamp(before, DescriptorStamp(fd))
                    /\ Begins(bytes, file[fd].data)
  /\ pc \in {"fstat", "stat", "reopen", "reread"} => bytes = file[fd].data
  /\ pc \in {"stat", "reopen", "reread"} => SameStamp(after, DescriptorStamp(fd))
  /\ pc = "reread" => fd2 = fd /\ Begins(reread, file[fd].data)

(* Every earlier attempt saw a change, and without one since this attempt  *)
(* is a quiet one.                                                         *)
Disturbed ==
  /\ pc \in Reading => /\ changes >= began + attempt - 1
                       /\ changes = began + attempt - 1 => Quiet
  /\ EveryFailedAttemptWasDisturbed

(* A descriptor whose ctime is older than the attempt was read whole, and  *)
(* a stamp that is not racy was old already when the attempt began.        *)
Aged ==
  /\ pc \in {"read", "fstat"} /\ file[fd].ctime < since => Begins(bytes, file[fd].data)
  /\ pc = "fstat" /\ file[fd].ctime < since => bytes = file[fd].data
  /\ pc = "stat" /\ ~after.racy =>
       /\ after.ino = fd /\ after.ctime < since
       /\ file[fd].ctime = after.ctime => bytes = file[fd].data
  /\ pc \in {"reopen", "reread"} => after.racy

(* What a load returned under such a stamp was the file, and still is      *)
(* wherever the stamp matches.                                             *)
Described ==
  Loaded /\ ~reply.stamp.racy =>
    /\ reply.data \in seen
    /\ reply.stamp.ctime \in Nat /\ reply.stamp.ctime < now
    /\ \A i \in Inodes :
         i = reply.stamp.ino /\ file[i].ctime = reply.stamp.ctime => file[i].data = reply.data

SeesThePath == pc \in Reading => ValueAtPath \in seen

-----------------------------------------------------------------------------
(* Steps *)

LEMMA StampTyped ==
  ASSUME NEW i \in Inodes, NEW st \in FileState, NEW t \in Time
  PROVE  /\ StampOf(i, st, t) \in Stamp
         /\ StampOf(i, st, t).ino = i
         /\ StampOf(i, st, t).ctime = st.ctime
         /\ ~StampOf(i, st, t).racy => st.ctime + RacyWindow < t
BY StampAssumption DEF StampOf, Stamp, FileState, Time, WithinRacyWindow

LEMMA Numbers ==
  /\ MaxTime \in Nat /\ RacyWindow \in Nat /\ MaxStall \in Nat
  /\ MaxAttempts \in Nat /\ MaxAttempts >= 1 /\ MaxChanges \in Nat
  /\ None \notin Inodes /\ None \notin Stamp
BY StampAssumption, ReadAssumption

(* Whatever another program does, it does at the current time and marks    *)
(* with it every inode it touches; the reader moves only on its own.       *)
LEMMA ChangeEffect ==
  ASSUME TypeOK, WriteInPlace \/ Replace \/ Unlink
  PROVE  /\ UNCHANGED <<now, readerVars>>
         /\ changes \in Nat /\ changes' = changes + 1 /\ changes' <= MaxChanges
         /\ entry' \in Inodes \cup {None}
         /\ file' \in [Inodes -> FileState]
         /\ \A i \in Inodes : file'[i] = file[i] \/ file'[i].ctime = now
         /\ seen \subseteq seen'
         /\ pc \in Reading => ValueAtPath' \in seen'
  <1> USE Numbers DEF TypeOK, Change
  <1>1. ASSUME NEW kind, NEW c \in Contents, entry # None, Overwrite(kind, c)
        PROVE  /\ UNCHANGED <<now, readerVars, entry>>
               /\ changes' = changes + 1 /\ changes' <= MaxChanges
               /\ file' \in [Inodes -> FileState]
               /\ \A i \in Inodes : file'[i] = file[i] \/ file'[i].ctime = now
               /\ seen \subseteq seen'
               /\ pc \in Reading => ValueAtPath' \in seen'
    <2> DEFINE st == [data |-> c, mtime |-> now, ctime |-> now]
    <2>1. st \in FileState /\ st.ctime = now /\ st.data = c
      BY DEF FileState
    <2>2. file' = [file EXCEPT ![entry] = st] /\ entry' = entry /\ Change(kind, c)
      BY <1>1 DEF Overwrite
    <2> HIDE DEF st
    <2>3. ValueAtPath' = c
      BY <1>1, <2>1, <2>2 DEF ValueAtPath
    <2> QED
      BY <1>1, <2>1, <2>2, <2>3
  <1>2. CASE WriteInPlace
    <2>1. PICK kind \in Kinds, c \in Contents : entry # None /\ Overwrite(kind, c)
      BY <1>2, ReadAssumption DEF WriteInPlace, Overwrite
    <2> QED
      BY <1>1, <2>1
  <1>3. CASE Replace
    <2>1. PICK i \in Inodes \ {entry, fd, fd2}, c \in Contents :
            /\ Change("replace", c)
            /\ entry' = i
            /\ file' = [k \in Inodes |->
                          CASE k = i -> [data |-> c, mtime |-> now, ctime |-> now]
                            [] k # i /\ k = entry -> [file[k] EXCEPT !.ctime = now]
                            [] OTHER -> file[k]]
      BY <1>3 DEF Replace
    <2> DEFINE st == [data |-> c, mtime |-> now, ctime |-> now]
    <2> DEFINE Kept(k) == [file[k] EXCEPT !.ctime = now]
    <2>2. st \in FileState /\ st.ctime = now /\ st.data = c
      BY DEF FileState
    <2>3. \A k \in Inodes : Kept(k) \in FileState /\ Kept(k).ctime = now
      BY DEF FileState
    <2>4. /\ file'[i] = st
          /\ \A k \in Inodes \ {i} : file'[k] = IF k = entry THEN Kept(k) ELSE file[k]
          /\ DOMAIN file' = Inodes
          /\ file' = [k \in Inodes |-> file'[k]]
      BY <2>1
    <2> HIDE DEF st, Kept
    <2>5. \A k \in Inodes : file'[k] \in FileState /\ (file'[k] = file[k] \/ file'[k].ctime = now)
      BY <2>2, <2>3, <2>4
    <2>6. ValueAtPath' = c
      BY <2>1, <2>2, <2>4 DEF ValueAtPath
    <2> QED
      BY <2>1, <2>4, <2>5, <2>6
  <1>4. CASE Unlink
    <2> DEFINE st == [file[entry] EXCEPT !.ctime = now]
    <2>1. entry \in Inodes /\ entry' = None /\ Change("remove", Absent)
      BY <1>4 DEF Unlink
    <2>2. st \in FileState /\ st.ctime = now
      BY <2>1 DEF FileState
    <2>3. file' = [file EXCEPT ![entry] = st]
      BY <1>4 DEF Unlink
    <2> HIDE DEF st
    <2>4. ValueAtPath' = Absent
      BY <2>1 DEF ValueAtPath
    <2> QED
      BY <2>1, <2>2, <2>3, <2>4
  <1> QED
    BY <1>2, <1>3, <1>4

(* The end of an attempt.                                                  *)
LEMMA AttemptEnds ==
  ASSUME Sound, pc \in Reading,
         TryAgain \/ \E code, data, stamp : Return(code, data, stamp)
  PROVE  Sound'
  <1> USE Numbers DEF Sound, TypeOK, Reading, CloseAll, fsVars, callVars
  <1>1. <<>> \in Seq(Blocks)
    BY EmptySeq
  <1>2. ASSUME NEW code, NEW data, NEW stamp, Return(code, data, stamp)
        PROVE  Sound'
    BY <1>1, <1>2 DEF Return
  <1>3. CASE TryAgain /\ attempt < MaxAttempts /\ pc' = "open"
    BY <1>1, <1>3 DEF TryAgain, RetryUpTo, Time, Return
  <1> QED
    BY <1>2, <1>3 DEF TryAgain, RetryUpTo

LEMMA SoundStep == Sound /\ [Next]_vars => Sound'
  <1> SUFFICES ASSUME Sound, [Next]_vars
               PROVE  Sound'
    OBVIOUS
  <1> USE Numbers DEF Reading, fsVars, firstVars, secondVars, callVars, Goto
  <1>1. CASE Call
    BY <1>1 DEF Sound, TypeOK, Call, Time
  <1>2. CASE Open
    <2>1. CASE entry = None
      BY <1>2, <2>1, AttemptEnds DEF Open
    <2>2. CASE entry # None
      <3>1. DescriptorStamp(entry) \in Stamp
        BY <2>2, StampTyped DEF Sound, TypeOK, DescriptorStamp
      <3> QED
        BY <1>2, <2>2, <3>1 DEF Sound, TypeOK, Open
    <2> QED
      BY <2>1, <2>2
  <1>3. ASSUME NEW i \in Inodes, NEW s \in Seq(Blocks), Len(s) < Len(file[i].data), TypeOK
        PROVE  /\ Append(s, file[i].data[Len(s) + 1]) \in Seq(Blocks)
    <2>1. file[i].data \in Seq(Blocks)
      BY <1>3, ReadAssumption DEF TypeOK, FileState
    <2>2. Len(s) + 1 \in 1 .. Len(file[i].data)
      BY <1>3, <2>1, LenProperties
    <2> QED
      BY <2>1, <2>2, ElementOfSeq, AppendProperties
  <1>4. CASE ReadBlock
    <2>1. fd \in Inodes /\ bytes \in Seq(Blocks) /\ Len(bytes) \in Nat
      BY <1>4, LenProperties DEF Sound, TypeOK, ReadBlock
    <2>2. file[fd].data \in Seq(Blocks)
      BY <2>1, ReadAssumption DEF Sound, TypeOK, FileState
    <2>3. bytes' \in Seq(Blocks)
      BY <1>3, <1>4, <2>1, <2>2, LenProperties DEF Sound, ReadBlock
    <2>4. /\ pc = "read" /\ pc' \in {"read", "fstat"}
          /\ UNCHANGED <<fsVars, callVars, secondVars, fd, before, after, reply>>
      BY <1>4 DEF ReadBlock
    <2> QED
      BY <2>3, <2>4 DEF Sound, TypeOK
  <1>5. CASE Fstat
    <2>1. DescriptorStamp(fd) \in Stamp
      BY <1>5, StampTyped DEF Sound, TypeOK, DescriptorStamp, Fstat
    <2> QED
      BY <1>5, <2>1 DEF Sound, TypeOK, Fstat
  <1>6. CASE Stat
    <2>1. CASE pc' = "reopen" /\ UNCHANGED <<fsVars, callVars, firstVars, secondVars, reply>>
      BY <1>6, <2>1 DEF Sound, TypeOK, Stat
    <2> QED
      BY <1>6, <2>1, AttemptEnds DEF Stat
  <1>7. CASE Reopen
    <2>1. CASE entry # None /\ pc' = "reread" /\ fd2' = entry
               /\ UNCHANGED <<fsVars, callVars, firstVars, reread, reply>>
      BY <1>7, <2>1 DEF Sound, TypeOK, Reopen
    <2> QED
      BY <1>7, <2>1, AttemptEnds DEF Reopen
  <1>8. CASE Reread
    <2>1. CASE TryAgain \/ Return("ok", bytes, after)
      BY <1>8, <2>1, AttemptEnds DEF Reread
    <2>2. CASE /\ ~(Len(reread) >= Len(file[fd2].data))
               /\ reread' = Append(reread, file[fd2].data[Len(reread) + 1])
               /\ UNCHANGED <<fsVars, callVars, firstVars, pc, fd2, reply>>
      <3>1. fd2 \in Inodes /\ reread \in Seq(Blocks) /\ Len(reread) \in Nat /\ pc = "reread"
        BY <1>8, LenProperties DEF Sound, TypeOK, Reread
      <3>2. file[fd2].data \in Seq(Blocks)
        BY <3>1, ReadAssumption DEF Sound, TypeOK, FileState
      <3>3. reread' \in Seq(Blocks)
        BY <1>3, <2>2, <3>1, <3>2, LenProperties DEF Sound
      <3> QED
        BY <2>2, <3>1, <3>3 DEF Sound, TypeOK
    <2> QED
      BY <1>8, <2>1, <2>2 DEF Reread
  <1>9. CASE IoError
    BY <1>9, AttemptEnds DEF IoError
  <1>10. CASE WriteInPlace \/ Replace \/ Unlink
    <2>1. /\ UNCHANGED <<now, readerVars>> /\ changes \in Nat
          /\ changes' = changes + 1 /\ changes' <= MaxChanges
          /\ entry' \in Inodes \cup {None} /\ file' \in [Inodes -> FileState]
      BY <1>10, ChangeEffect DEF Sound
    <2> QED
      BY <2>1 DEF Sound, TypeOK, readerVars
  <1>11. CASE Tick
    BY <1>11 DEF Sound, TypeOK, Tick, Time, readerVars
  <1>12. CASE UNCHANGED vars
    BY <1>12 DEF Sound, TypeOK, vars
  <1> QED
    BY <1>1, <1>2, <1>4, <1>5, <1>6, <1>7, <1>8, <1>9, <1>10, <1>11, <1>12 DEF Next

LEMMA SoundInit == Init => Sound
  <1> SUFFICES ASSUME Init
               PROVE  Sound
    OBVIOUS
  <1>1. file \in [Inodes -> FileState]
    <2>1. PICK c \in Contents : file = [i \in Inodes |-> [data |-> c, mtime |-> 0, ctime |-> 0]]
      BY DEF Init
    <2> QED
      BY <2>1, Numbers DEF FileState, Time
  <1> QED
    BY <1>1, EmptySeq, Numbers DEF Init, Sound, TypeOK, Reading, Time

(* Every reachable state of a load is well typed.                          *)
THEOREM LoadIsTyped == Spec => []TypeOK
  <1>1. Sound => TypeOK
    BY DEF Sound
  <1> QED
    BY <1>1, SoundInit, SoundStep, PTL DEF Spec

-----------------------------------------------------------------------------
(* Giving up *)

LEMMA BeginsEmpty ==
  ASSUME NEW d \in Seq(Blocks)
  PROVE  Begins(<<>>, d)
BY EmptySeq, LenProperties DEF Begins

LEMMA BeginsAppend ==
  ASSUME NEW s \in Seq(Blocks), NEW d \in Seq(Blocks), Begins(s, d), Len(s) < Len(d)
  PROVE  Begins(Append(s, d[Len(s) + 1]), d)
  <1> DEFINE b == d[Len(s) + 1]
  <1>1. Len(s) \in Nat /\ Len(d) \in Nat
    BY LenProperties
  <1>2. b \in Blocks
    BY <1>1, ElementOfSeq
  <1> HIDE DEF b
  <1>3. /\ Len(Append(s, b)) = Len(s) + 1
        /\ \A k \in 1 .. Len(s) : Append(s, b)[k] = s[k]
        /\ Append(s, b)[Len(s) + 1] = b
    BY <1>2, AppendProperties
  <1>4. \A k \in 1 .. Len(s) + 1 : Append(s, b)[k] = d[k]
    BY <1>1, <1>3 DEF Begins, b
  <1>5. Begins(Append(s, b), d)
    BY <1>1, <1>3, <1>4 DEF Begins
  <1> QED
    BY <1>5 DEF b

LEMMA BeginsWhole ==
  ASSUME NEW s \in Seq(Blocks), NEW d \in Seq(Blocks), Begins(s, d), Len(s) >= Len(d)
  PROVE  s = d
BY LenProperties, SeqEqual DEF Begins

(* The file a descriptor is open on, as data.                              *)
LEMMA FileData ==
  ASSUME TypeOK, NEW i \in Inodes
  PROVE  /\ file[i] \in FileState
         /\ file[i].data \in Seq(Blocks)
         /\ Length[file[i].data] = Len(file[i].data)
         /\ Len(file[i].data) \in Nat
         /\ DescriptorStamp(i) = StampOf(i, file[i], now)
         /\ DescriptorStamp(i).len = Len(file[i].data)
  <1>1. file[i] \in FileState /\ file[i].data \in Contents
    BY DEF TypeOK, FileState
  <1>2. file[i].data \in Seq(Blocks) /\ Length[file[i].data] = Len(file[i].data)
    BY <1>1, ReadAssumption
  <1> QED
    BY <1>1, <1>2, LenProperties DEF DescriptorStamp, StampOf

LEMMA RetryIsDisturbed ==
  ASSUME Sound, pc \in Reading, changes >= began + attempt, TryAgain
  PROVE  Disturbed'
  <1> USE Numbers DEF Sound, TypeOK, Disturbed, EveryFailedAttemptWasDisturbed, Reading,
                      fsVars, callVars
  <1>1. CASE attempt >= MaxAttempts /\ Return("concurrent", None, None)
    BY <1>1 DEF Return
  <1>2. CASE attempt < MaxAttempts /\ pc' = "open" /\ attempt' = attempt + 1
             /\ UNCHANGED <<fsVars, seen, began, reply>>
    BY <1>2 DEF Quiet
  <1> QED
    BY <1>1, <1>2 DEF TryAgain, RetryUpTo

LEMMA AnswerIsNotGivingUp ==
  ASSUME NEW code, code # "concurrent", NEW data, NEW stamp, Return(code, data, stamp)
  PROVE  Disturbed'
BY DEF Return, Disturbed, EveryFailedAttemptWasDisturbed, Reading

LEMMA DisturbedStep == Sound /\ Disturbed /\ [Next]_vars => Disturbed'
  <1> SUFFICES ASSUME Sound, Disturbed, [Next]_vars
               PROVE  Disturbed'
    OBVIOUS
  <1> USE DEF Reading, fsVars, firstVars, secondVars, callVars, Goto
  <1>1. CASE Call
    BY <1>1, Numbers DEF Sound, TypeOK, Call, Disturbed, Quiet, EveryFailedAttemptWasDisturbed
  <1>0. TypeOK /\ changes \in Nat /\ began \in Nat /\ attempt \in Nat
    BY Numbers DEF Sound, TypeOK
  <1>2. CASE Open
    <2>1. CASE entry = None
      BY <1>2, <2>1, AnswerIsNotGivingUp DEF Open
    <2>2. CASE entry # None
      <3>1. entry \in Inodes /\ bytes = <<>> /\ pc = "open"
        BY <1>2, <2>2 DEF Open, Sound, TypeOK
      <3>2. Begins(<<>>, file[entry].data)
        BY <1>0, <3>1, FileData, BeginsEmpty
      <3>3. Quiet'
        BY <1>2, <2>2, <3>1, <3>2 DEF Open, Quiet, SameStamp, DescriptorStamp
      <3> QED
        BY <1>2, <2>2, <3>1, <3>3 DEF Open, Disturbed, EveryFailedAttemptWasDisturbed
    <2> QED
      BY <2>1, <2>2
  <1>3. ASSUME pc \in Reading, pc' \in Reading, Quiet => Quiet',
               UNCHANGED <<changes, began, attempt, reply>>
        PROVE  Disturbed'
    BY <1>3 DEF Disturbed, EveryFailedAttemptWasDisturbed
  <1>4. ASSUME pc \in Reading, ~Quiet
        PROVE  changes >= began + attempt
    BY <1>0, <1>4 DEF Disturbed
  <1>5. CASE ReadBlock
    <2> DEFINE data == file[fd].data
    <2>1. /\ pc = "read" /\ fd \in Inodes /\ bytes \in Seq(Blocks)
          /\ Len(bytes) \in Nat
      BY <1>5, LenProperties DEF Sound, TypeOK, ReadBlock
    <2>2. data \in Seq(Blocks) /\ Len(data) \in Nat
      BY <1>0, <2>1, FileData
    <2>3. CASE Len(bytes) >= Len(data)
      <3>1. pc' = "fstat" /\ bytes' = bytes
        BY <1>5, <2>3 DEF ReadBlock
      <3>2. Quiet => bytes = data
        BY <2>1, <2>2, <2>3, BeginsWhole DEF Quiet
      <3> QED
        BY <1>3, <1>5, <2>1, <3>1, <3>2 DEF ReadBlock, Quiet, DescriptorStamp
    <2>4. CASE Len(bytes) < Len(data)
      <3>1. pc' = "read" /\ bytes' = Append(bytes, data[Len(bytes) + 1])
        BY <1>5, <2>1, <2>2, <2>4 DEF ReadBlock
      <3>2. Quiet => Begins(bytes', data)
        BY <2>1, <2>2, <2>4, <3>1, BeginsAppend DEF Quiet
      <3> QED
        BY <1>3, <1>5, <2>1, <3>1, <3>2 DEF ReadBlock, Quiet, DescriptorStamp
    <2> QED
      BY <2>1, <2>2, <2>3, <2>4
  <1>6. CASE Fstat
    BY <1>3, <1>6 DEF Fstat, Quiet, DescriptorStamp, SameStamp
  <1>7. CASE Stat
    <2>1. CASE ~Stable /\ TryAgain
      <3>1. ~Quiet
        <4> SUFFICES ASSUME Quiet
                     PROVE  Stable
          BY <2>1
        <4>1. /\ fd \in Inodes /\ entry = fd /\ entry # None /\ bytes = file[fd].data
              /\ SameStamp(before, DescriptorStamp(fd)) /\ SameStamp(after, DescriptorStamp(fd))
          BY <1>7, Numbers DEF Stat, Quiet, Sound, TypeOK
        <4>2. DescriptorStamp(fd).len = Len(bytes)
          BY <1>0, <4>1, FileData
        <4> QED
          BY <4>1, <4>2 DEF Stable, SameStamp
      <3> QED
        BY <1>4, <1>7, <2>1, <3>1, RetryIsDisturbed DEF Stat
    <2>2. CASE Return("ok", bytes, after)
      BY <2>2, AnswerIsNotGivingUp
    <2>3. CASE pc' = "reopen" /\ UNCHANGED <<fsVars, callVars, firstVars, secondVars, reply>>
      BY <1>3, <1>7, <2>3 DEF Stat, Quiet, DescriptorStamp
    <2> QED
      BY <1>7, <2>1, <2>2, <2>3 DEF Stat
  <1>8. CASE Reopen
    <2>1. CASE entry = None /\ TryAgain
      <3>1. ~Quiet
        BY <1>8, <2>1 DEF Reopen, Quiet, Sound
      <3> QED
        BY <1>4, <1>8, <2>1, <3>1, RetryIsDisturbed DEF Reopen
    <2>2. CASE /\ entry # None /\ pc' = "reread" /\ fd2' = entry
               /\ UNCHANGED <<fsVars, callVars, firstVars, reread, reply>>
      <3>1. pc = "reopen" /\ reread = <<>> /\ entry \in Inodes
        BY <1>8, <2>2 DEF Reopen, Sound, TypeOK
      <3>2. Begins(reread, file[entry].data)
        BY <1>0, <3>1, FileData, BeginsEmpty
      <3> QED
        BY <1>3, <2>2, <3>1, <3>2 DEF Quiet, DescriptorStamp
    <2> QED
      BY <1>8, <2>1, <2>2 DEF Reopen
  <1>9. CASE Reread
    <2> DEFINE data == file[fd2].data
    <2>1. /\ pc = "reread" /\ fd2 \in Inodes /\ reread \in Seq(Blocks)
          /\ Len(reread) \in Nat
      BY <1>9, LenProperties DEF Sound, TypeOK, Reread
    <2>2. data \in Seq(Blocks) /\ Len(data) \in Nat
      BY <1>0, <2>1, FileData
    <2>3. CASE Return("ok", bytes, after)
      BY <2>3, AnswerIsNotGivingUp
    <2>4. CASE Len(reread) >= Len(data) /\ reread # bytes /\ TryAgain
      <3>1. ~Quiet
        BY <2>1, <2>2, <2>4, BeginsWhole DEF Quiet
      <3> QED
        BY <1>4, <2>1, <2>4, <3>1, RetryIsDisturbed
    <2>5. CASE /\ ~(Len(reread) >= Len(data))
               /\ reread' = Append(reread, data[Len(reread) + 1])
               /\ UNCHANGED <<fsVars, callVars, firstVars, pc, fd2, reply>>
      <3>1. Quiet => Begins(reread', data)
        BY <2>1, <2>2, <2>5, BeginsAppend DEF Quiet
      <3> QED
        BY <1>3, <2>1, <2>5, <3>1 DEF Quiet, DescriptorStamp
    <2> QED
      BY <1>9, <2>3, <2>4, <2>5 DEF Reread
  <1>10. CASE IoError
    BY <1>10, AnswerIsNotGivingUp DEF IoError
  <1>11. CASE WriteInPlace \/ Replace \/ Unlink
    <2>1. UNCHANGED <<now, readerVars>> /\ changes' = changes + 1
      BY <1>0, <1>11, ChangeEffect
    <2> QED
      BY <1>0, <2>1, Numbers DEF readerVars, Disturbed, EveryFailedAttemptWasDisturbed
  <1>12. CASE Tick \/ UNCHANGED vars
    <2>1. UNCHANGED <<readerVars, entry, file, changes>>
      BY <1>12 DEF Tick, vars, readerVars
    <2>2. Quiet => Quiet'
      BY <2>1 DEF Quiet, readerVars, DescriptorStamp, StampOf, SameStamp
    <2> QED
      BY <2>1, <2>2 DEF readerVars, Disturbed, EveryFailedAttemptWasDisturbed
  <1> QED
    BY <1>1, <1>2, <1>5, <1>6, <1>7, <1>8, <1>9, <1>10, <1>11, <1>12 DEF Next

(* A load gives up only on a file that changed during every one of its     *)
(* attempts: no quiet file is ever refused (load_with_observer).           *)
THEOREM QuietFilesAreRead == Spec => []EveryFailedAttemptWasDisturbed
  <1>1. Init => Sound /\ Disturbed
    BY SoundInit DEF Init, Disturbed, EveryFailedAttemptWasDisturbed, Reading
  <1>2. Sound /\ Disturbed /\ [Next]_vars => (Sound /\ Disturbed)'
    BY SoundStep, DisturbedStep
  <1>3. Disturbed => EveryFailedAttemptWasDisturbed
    BY DEF Disturbed
  <1> QED
    BY <1>1, <1>2, <1>3, PTL DEF Spec

-----------------------------------------------------------------------------
(* Stamps outside the racy window *)

(* An attempt takes no longer than the racy window.                        *)
Timely == MaxStall <= RacyWindow

(* What a step leaves alone, or leaves stamped with the current time.      *)
LEMMA FilesAge ==
  ASSUME Sound, [Next]_vars
  PROVE  /\ now \in Nat /\ now' \in Nat /\ now <= now'
         /\ file' = file \/ now' = now
         /\ \A i \in Inodes : file'[i] = file[i] \/ file'[i].ctime = now
  <1> USE Numbers DEF Sound, TypeOK, Time, fsVars
  <1>1. ASSUME UNCHANGED <<now, file>>
        PROVE  /\ now \in Nat /\ now' \in Nat /\ now <= now'
               /\ file' = file \/ now' = now
               /\ \A i \in Inodes : file'[i] = file[i] \/ file'[i].ctime = now
    BY <1>1
  <1>2. ASSUME TryAgain \/ \E code, data, stamp : Return(code, data, stamp)
        PROVE  UNCHANGED <<now, file>>
    BY <1>2 DEF TryAgain, RetryUpTo, Return
  <1>3. CASE Call \/ Open \/ ReadBlock \/ Fstat
    BY <1>1, <1>2, <1>3 DEF Call, Open, ReadBlock, Fstat
  <1>4. CASE Stat \/ Reopen \/ Reread \/ IoError
    BY <1>1, <1>2, <1>4 DEF Stat, Reopen, Reread, IoError
  <1>5. CASE WriteInPlace \/ Replace \/ Unlink
    BY <1>5, ChangeEffect
  <1>6. CASE Tick
    BY <1>6 DEF Tick
  <1>7. CASE UNCHANGED vars
    BY <1>1, <1>7 DEF vars
  <1> QED
    BY <1>3, <1>4, <1>5, <1>6, <1>7 DEF Next

LEMMA EndIsAged ==
  ASSUME pc' \notin {"read", "fstat", "stat", "reopen", "reread"}
  PROVE  Aged'
BY DEF Aged

LEMMA AgedStep == Timely /\ Sound /\ Sound' /\ Aged /\ [Next]_vars => Aged'
  <1> SUFFICES ASSUME Timely, Sound, Sound', Aged, [Next]_vars
               PROVE  Aged'
    OBVIOUS
  <1> USE DEF fsVars, firstVars, secondVars, callVars, Goto
  <1>0. /\ TypeOK /\ now \in Nat /\ since \in Nat
        /\ pc \in Reading => since <= now /\ now <= since + MaxStall
    BY Numbers DEF Sound, TypeOK, Time
  <1>1. ASSUME TryAgain \/ \E code, data, stamp : Return(code, data, stamp)
        PROVE  Aged'
    BY <1>1, EndIsAged DEF TryAgain, RetryUpTo, Return
  <1>2. CASE Call \/ IoError
    BY <1>1, <1>2, EndIsAged DEF Call, IoError
  <1>3. CASE Open
    <2>1. CASE entry = None
      BY <1>1, <1>3, <2>1 DEF Open
    <2>2. CASE entry # None
      <3>1. entry \in Inodes /\ bytes = <<>> /\ pc' = "read" /\ fd' = entry
            /\ bytes' = bytes /\ file' = file
        BY <1>3, <2>2 DEF Open, Sound, TypeOK
      <3>2. Begins(<<>>, file[entry].data)
        BY <1>0, <3>1, FileData, BeginsEmpty
      <3> QED
        BY <3>1, <3>2 DEF Aged
    <2> QED
      BY <2>1, <2>2
  <1>4. CASE ReadBlock
    <2> DEFINE data == file[fd].data
    <2>1. /\ pc = "read" /\ fd \in Inodes /\ bytes \in Seq(Blocks)
          /\ Len(bytes) \in Nat /\ UNCHANGED <<file, fd, since>>
      BY <1>4, LenProperties DEF Sound, TypeOK, ReadBlock, Reading
    <2>2. data \in Seq(Blocks) /\ Len(data) \in Nat
      BY <1>0, <2>1, FileData
    <2>3. CASE Len(bytes) >= Len(data)
      <3>1. pc' = "fstat" /\ bytes' = bytes
        BY <1>4, <2>3 DEF ReadBlock
      <3>2. file[fd].ctime < since => bytes = data
        BY <2>1, <2>2, <2>3, BeginsWhole DEF Aged
      <3> QED
        BY <2>1, <3>1, <3>2 DEF Aged
    <2>4. CASE Len(bytes) < Len(data)
      <3>1. pc' = "read" /\ bytes' = Append(bytes, data[Len(bytes) + 1])
        BY <1>4, <2>1, <2>2, <2>4 DEF ReadBlock
      <3>2. file[fd].ctime < since => Begins(bytes', data)
        BY <2>1, <2>2, <2>4, <3>1, BeginsAppend DEF Aged
      <3> QED
        BY <2>1, <3>1, <3>2 DEF Aged
    <2> QED
      BY <2>1, <2>2, <2>3, <2>4
  <1>5. CASE Fstat
    <2>1. /\ pc = "fstat" /\ pc' = "stat" /\ fd \in Inodes /\ after' = DescriptorStamp(fd)
          /\ UNCHANGED <<file, fd, since, bytes, now>>
      BY <1>5 DEF Fstat, Sound, TypeOK, Reading
    <2>2. /\ after' = StampOf(fd, file[fd], now)
          /\ after'.ino = fd /\ after'.ctime = file[fd].ctime
          /\ ~after'.racy => file[fd].ctime + RacyWindow < now
      BY <1>0, <2>1, FileData, StampTyped DEF TypeOK
    <2>3. file[fd].ctime \in Nat
      BY <1>0, <2>1, FileData, Numbers DEF FileState, Time
    <2>4. ~after'.racy => file[fd].ctime < since
      BY <1>0, <2>1, <2>2, <2>3, Numbers DEF Timely, Reading
    <2> QED
      BY <2>1, <2>2, <2>4 DEF Aged
  <1>6. CASE Stat
    <2>1. CASE /\ Stable /\ after.racy /\ pc' = "reopen"
               /\ UNCHANGED <<fsVars, callVars, firstVars, secondVars, reply>>
      BY <2>1 DEF Aged
    <2> QED
      BY <1>1, <1>6, <2>1 DEF Stat
  <1>7. CASE Reopen
    <2>1. CASE pc' = "reread" /\ UNCHANGED <<fsVars, callVars, firstVars, reread, reply>>
      BY <1>7, <2>1 DEF Reopen, Aged
    <2> QED
      BY <1>1, <1>7, <2>1 DEF Reopen
  <1>8. CASE Reread
    <2>1. CASE UNCHANGED <<fsVars, callVars, firstVars, pc, fd2, reply>>
      BY <1>8, <2>1 DEF Reread, Aged
    <2> QED
      BY <1>1, <1>8, <2>1 DEF Reread
  <1>9. CASE WriteInPlace \/ Replace \/ Unlink
    <2>1. UNCHANGED readerVars
      BY <1>0, <1>9, ChangeEffect
    <2>2. ASSUME pc \in {"read", "fstat", "stat"}
          PROVE  file'[fd] = file[fd] \/ file'[fd].ctime = now
      BY <1>0, <1>9, <2>2, ChangeEffect DEF Sound, TypeOK, Reading
    <2>3. pc \in {"read", "fstat"} => file'[fd] = file[fd] \/ ~(file'[fd].ctime < since)
      BY <1>0, <2>2 DEF Reading
    <2>4. pc = "stat" /\ ~after.racy /\ after.ctime < since =>
            file'[fd] = file[fd] \/ file'[fd].ctime # after.ctime
      <3>1. pc = "stat" => after \in Stamp
        BY DEF Sound, TypeOK
      <3> QED
        BY <1>0, <2>2, <3>1, Numbers DEF Reading, Stamp, Time
    <2> QED
      BY <2>1, <2>3, <2>4 DEF readerVars, Aged
  <1>10. CASE Tick \/ UNCHANGED vars
    <2>1. UNCHANGED <<readerVars, file>>
      BY <1>10 DEF Tick, vars, readerVars
    <2> QED
      BY <2>1 DEF readerVars, Aged
  <1> QED
    BY <1>2, <1>3, <1>4, <1>5, <1>6, <1>7, <1>8, <1>9, <1>10 DEF Next

LEMMA SeesStep == Sound /\ SeesThePath /\ [Next]_vars => SeesThePath'
  <1> SUFFICES ASSUME Sound, SeesThePath, [Next]_vars, pc' \in Reading
               PROVE  ValueAtPath' \in seen'
    BY DEF SeesThePath
  <1>1. CASE WriteInPlace \/ Replace \/ Unlink
    BY <1>1, ChangeEffect DEF Sound, readerVars
  <1>2. CASE Call
    BY <1>2 DEF Call, fsVars, ValueAtPath
  <1>3. ASSUME pc \in Reading, UNCHANGED <<entry, file, seen>>
        PROVE  ValueAtPath' \in seen'
    BY <1>3 DEF SeesThePath, ValueAtPath
  <1> USE DEF Reading, fsVars, callVars, Goto
  <1>4. ASSUME TryAgain \/ \E code, data, stamp : Return(code, data, stamp)
        PROVE  UNCHANGED <<entry, file, seen>>
    BY <1>4 DEF TryAgain, RetryUpTo, Return
  <1>5. CASE Open \/ ReadBlock \/ Fstat \/ Stat \/ Reopen \/ Reread \/ IoError
    BY <1>3, <1>4, <1>5 DEF Open, ReadBlock, Fstat, Stat, Reopen, Reread, IoError
  <1>6. CASE Tick \/ UNCHANGED vars
    BY <1>3, <1>6 DEF Tick, vars, readerVars
  <1> QED
    BY <1>1, <1>2, <1>5, <1>6 DEF Next

(* A load that ends well under a stamp that is not racy ends at the stat   *)
(* of the path, with what the path holds at that moment.                   *)
LEMMA StatDescribes ==
  ASSUME Sound, Aged, SeesThePath, pc = "stat", Stable, ~after.racy, Return("ok", bytes, after)
  PROVE  Described'
  <1>1. /\ reply'.data = bytes /\ reply'.stamp = after
        /\ UNCHANGED <<now, entry, file, seen>>
    BY DEF Return, fsVars, callVars
  <1>2. /\ TypeOK /\ entry \in Inodes /\ after \in Stamp /\ since <= now
        /\ now \in Nat /\ since \in Nat /\ after.ctime \in Nat
    BY Numbers DEF Sound, TypeOK, Stable, Reading, Stamp, Time
  <1>3. after.ino = fd /\ after.ctime < since /\ (file[fd].ctime = after.ctime => bytes = file[fd].data)
    BY DEF Aged
  <1>4. entry = after.ino /\ file[entry].ctime = after.ctime
    BY <1>2, FileData, StampTyped DEF Stable, SameStamp, TypeOK
  <1>5. bytes = ValueAtPath
    BY <1>2, <1>3, <1>4, Numbers DEF ValueAtPath
  <1>6. bytes \in seen
    BY <1>5 DEF SeesThePath, Reading
  <1> QED
    BY <1>1, <1>2, <1>3, <1>6 DEF Described

LEMMA DescribedStep ==
  Sound /\ Sound' /\ Aged /\ SeesThePath /\ Described /\ [Next]_vars => Described'
  <1> SUFFICES ASSUME Sound, Sound', Aged, SeesThePath, Described, [Next]_vars
               PROVE  Described'
    OBVIOUS
  <1> USE DEF Goto
  <1>1. CASE pc' # "done"
    BY <1>1 DEF Described, Loaded
  <1>2. ASSUME NEW code, code # "ok", NEW data, NEW stamp, Return(code, data, stamp)
        PROVE  Described'
    BY <1>2 DEF Return, Described, Loaded
  <1>3. ASSUME TryAgain
        PROVE  Described'
    BY <1>1, <1>2, <1>3 DEF TryAgain, RetryUpTo
  <1>4. CASE Call \/ Open \/ ReadBlock \/ Fstat \/ Reopen \/ IoError
    BY <1>1, <1>2, <1>3, <1>4 DEF Call, Open, ReadBlock, Fstat, Reopen, IoError
  <1>5. CASE Stat
    BY <1>1, <1>3, <1>5, StatDescribes DEF Stat
  <1>6. CASE Reread
    <2>1. CASE Return("ok", bytes, after)
      BY <1>6, <2>1 DEF Reread, Return, Aged, Described
    <2>2. CASE UNCHANGED pc
      BY <1>1, <1>6, <2>2 DEF Reread
    <2> QED
      BY <1>3, <1>6, <2>1, <2>2 DEF Reread
  <1>7. CASE WriteInPlace \/ Replace \/ Unlink \/ Tick \/ UNCHANGED vars
    <2> SUFFICES ASSUME Loaded', ~reply'.stamp.racy
                 PROVE  /\ reply'.data \in seen'
                        /\ reply'.stamp.ctime \in Nat /\ reply'.stamp.ctime < now'
                        /\ \A i \in Inodes :
                             i = reply'.stamp.ino /\ file'[i].ctime = reply'.stamp.ctime
                               => file'[i].data = reply'.data
      BY DEF Described
    <2>1. UNCHANGED <<pc, reply>> /\ seen \subseteq seen'
      BY <1>7, ChangeEffect DEF Sound, Tick, vars, readerVars
    <2>2. /\ reply.data \in seen /\ reply.stamp.ctime \in Nat /\ reply.stamp.ctime < now
          /\ \A i \in Inodes :
               i = reply.stamp.ino /\ file[i].ctime = reply.stamp.ctime => file[i].data = reply.data
      BY <2>1 DEF Described, Loaded
    <2>3. /\ now \in Nat /\ now' \in Nat /\ now <= now'
          /\ \A i \in Inodes : file'[i] = file[i] \/ file'[i].ctime = now
      BY FilesAge
    <2> QED
      BY <2>1, <2>2, <2>3
  <1> QED
    BY <1>4, <1>5, <1>6, <1>7 DEF Next

(* While attempts take no longer than the racy window.                     *)
Aging == Sound /\ Aged /\ SeesThePath /\ Described

LEMMA AgingHolds ==
  ASSUME Timely
  PROVE  Spec => []Aging
  <1>1. Init => Aging
    BY SoundInit DEF Init, Aging, Aged, SeesThePath, Described, Loaded, Reading
  <1>2. Aging /\ [Next]_vars => Aging'
    BY SoundStep, AgedStep, SeesStep, DescribedStep DEF Aging
  <1> QED
    BY <1>1, <1>2, PTL DEF Spec

(* A stamp outside the racy window may be trusted without reading the file *)
(* again: while the path has that stamp, it holds those bytes              *)
(* (SnapshotCache::load, `observed == snapshot.stamp`).                    *)
THEOREM OldStampsDescribeTheBytes ==
  ASSUME Timely
  PROVE  Spec => []StampDescribesBytes
  <1>1. Aging => StampDescribesBytes
    <2> SUFFICES ASSUME Aging, Loaded, ~reply.stamp.racy, entry # None,
                        SameStamp(reply.stamp, DescriptorStamp(entry))
                 PROVE  reply.data = ValueAtPath
      BY DEF StampDescribesBytes
    <2>1. TypeOK /\ entry \in Inodes
      BY DEF Aging, Sound, TypeOK
    <2>2. reply.stamp.ino = entry /\ reply.stamp.ctime = file[entry].ctime
      BY <2>1, FileData, StampTyped DEF SameStamp, TypeOK
    <2> QED
      BY <2>1, <2>2 DEF Aging, Described, ValueAtPath
  <1> QED
    BY <1>1, AgingHolds, PTL

(* A load under such a stamp returns one version of the file, which the    *)
(* path held during the call: nothing is glued together (load_with_        *)
(* observer).  It is BytesWereTheFile for the stamps that are trusted.     *)
THEOREM OldStampsAreWholeFiles ==
  ASSUME Timely
  PROVE  Spec => [](Loaded /\ ~reply.stamp.racy => reply.data \in seen)
  <1>1. Aging => (Loaded /\ ~reply.stamp.racy => reply.data \in seen)
    BY DEF Aging, Described
  <1> QED
    BY <1>1, AgingHolds, PTL

-----------------------------------------------------------------------------
(* Mixtures *)

(* How often the file has changed since the call began.                    *)
Writes == changes - began

(* What a reading of d that has returned p so far ends with, if d stays.   *)
Ends(s, p, d) ==
  /\ s \in Seq(Blocks)
  /\ Len(s) = IF Len(p) >= Len(d) THEN Len(p) ELSE Len(d)
  /\ \A k \in 1 .. Len(s) : s[k] = IF k <= Len(p) THEN p[k] ELSE d[k]

OneVersion(p, d) == \E s \in seen : Ends(s, p, d)

(* What one write leaves of a file d: a block less alike, a block more, or *)
(* nothing.                                                                *)
Written(d, e) ==
  \/ Len(e) = Len(d) /\ \E k \in 1 .. Len(e) : \A j \in 1 .. Len(e) : j # k => e[j] = d[j]
  \/ Len(e) = Len(d) + 1 /\ Begins(d, e)
  \/ e = <<>>

(* What the descriptors are open on was at the path during the call.       *)
Held ==
  /\ pc \in Reading \ {"open"} => file[fd].data \in seen
  /\ pc = "reread" => file[fd2].data \in seen

(* One change leaves each reading with one version, or short of the length *)
(* it is compared with; the second is compared with the first, which took  *)
(* two changes to be mixed.                                                *)
Unmixed ==
  /\ pc = "read" =>
       /\ Writes = 0 => Begins(bytes, file[fd].data)
       /\ Writes = 1 => OneVersion(bytes, file[fd].data) \/ Len(bytes) > Len(file[fd].data)
  /\ pc = "fstat" =>
       /\ Writes = 0 => bytes = file[fd].data
       /\ Writes = 1 => bytes \in seen \/ Len(bytes) > Len(file[fd].data)
  /\ pc = "stat" => bytes \in seen \/ Writes >= 2 \/ Len(bytes) > after.len
  /\ pc = "reopen" =>
       \/ bytes \in seen
       \/ Writes >= 3
       \/ Writes = 2 /\ entry # None /\ Len(ValueAtPath) = Len(bytes)
  /\ pc = "reread" =>
       \/ bytes \in seen
       \/ Writes >= 4
       \/ /\ Writes = 2
          /\ Begins(reread, file[fd2].data) /\ Len(file[fd2].data) = Len(bytes)
       \/ /\ Writes = 3
          /\ \/ OneVersion(reread, file[fd2].data)
             \/ Len(reread) < Len(bytes) /\ Len(file[fd2].data) <= Len(reread)
  /\ Loaded =>
       \/ reply.data \in seen
       \/ Writes >= 2 /\ (reply.stamp.racy => Writes >= 4)

LEMMA EndsOfPrefix ==
  ASSUME NEW p \in Seq(Blocks), NEW d \in Seq(Blocks), Begins(p, d)
  PROVE  Ends(d, p, d)
BY LenProperties DEF Begins, Ends

LEMMA EndsWhole ==
  ASSUME NEW p \in Seq(Blocks), NEW d \in Seq(Blocks), NEW s, Ends(s, p, d), Len(p) >= Len(d)
  PROVE  s = p
BY LenProperties, SeqEqual DEF Ends

LEMMA EndsAppend ==
  ASSUME NEW p \in Seq(Blocks), NEW d \in Seq(Blocks), NEW s, Ends(s, p, d), Len(p) < Len(d)
  PROVE  Ends(s, Append(p, d[Len(p) + 1]), d)
  <1> DEFINE b == d[Len(p) + 1]
  <1>1. Len(p) \in Nat /\ Len(d) \in Nat
    BY LenProperties
  <1>2. b \in Blocks
    BY <1>1, ElementOfSeq
  <1> HIDE DEF b
  <1>3. /\ Len(Append(p, b)) = Len(p) + 1
        /\ \A k \in 1 .. Len(p) : Append(p, b)[k] = p[k]
        /\ Append(p, b)[Len(p) + 1] = b
    BY <1>2, AppendProperties
  <1>4. s \in Seq(Blocks) /\ Len(s) = Len(d)
    BY <1>1 DEF Ends
  <1>5. ASSUME NEW k \in 1 .. Len(s)
        PROVE  s[k] = IF k <= Len(p) + 1 THEN Append(p, b)[k] ELSE d[k]
    <2>1. s[k] = IF k <= Len(p) THEN p[k] ELSE d[k]
      BY DEF Ends
    <2>2. CASE k <= Len(p)
      BY <1>1, <1>3, <1>4, <2>1, <2>2
    <2>3. CASE k = Len(p) + 1
      BY <1>1, <1>3, <1>4, <2>1, <2>3 DEF b
    <2>4. CASE k > Len(p) + 1
      BY <1>1, <1>4, <2>1, <2>4
    <2> QED
      BY <1>1, <1>4, <2>2, <2>3, <2>4
  <1>6. Ends(s, Append(p, b), d)
    BY <1>1, <1>3, <1>4, <1>5 DEF Ends
  <1> QED
    BY <1>6 DEF b

(* One write under a reading that has seen one version.                    *)
LEMMA EndsAfterWrite ==
  ASSUME NEW p \in Seq(Blocks), NEW d \in Seq(Blocks), NEW e \in Seq(Blocks),
         Begins(p, d), Written(d, e)
  PROVE  \/ Ends(d, p, e)
         \/ Ends(e, p, e)
         \/ Len(e) < Len(p) /\ Len(p) < Len(d)
  <1>1. Len(p) \in Nat /\ Len(d) \in Nat /\ Len(e) \in Nat
    BY LenProperties
  <1>2. ASSUME NEW k \in 1 .. Len(e), Len(e) = Len(d), \A j \in 1 .. Len(e) : j # k => e[j] = d[j]
        PROVE  Ends(d, p, e) \/ Ends(e, p, e)
    <2>1. CASE k <= Len(p)
      BY <1>1, <1>2, <2>1 DEF Ends, Begins
    <2>2. CASE k > Len(p)
      BY <1>1, <1>2, <2>2 DEF Ends, Begins
    <2> QED
      BY <1>1, <2>1, <2>2
  <1>3. CASE Len(e) = Len(d) + 1 /\ Begins(d, e)
    <2>1. Begins(p, e)
      BY <1>1, <1>3 DEF Begins
    <2> QED
      BY <2>1, EndsOfPrefix
  <1>4. CASE e = <<>>
    <2>1. Len(e) = 0
      BY <1>4
    <2>2. CASE Len(p) = 0
      BY <1>1, <2>1, <2>2 DEF Ends
    <2>3. CASE Len(p) > 0 /\ Len(p) = Len(d)
      BY <1>1, <2>1, <2>3 DEF Ends, Begins
    <2>4. CASE Len(p) > 0 /\ Len(p) < Len(d)
      BY <1>1, <2>1, <2>4
    <2> QED
      BY <1>1, <2>2, <2>3, <2>4 DEF Begins
  <1> QED
    BY <1>2, <1>3, <1>4 DEF Written

(* What another program's step does to a file the reader has open.         *)
LEMMA OpenFileEffect ==
  ASSUME TypeOK, WriteInPlace \/ Replace \/ Unlink, NEW i \in Inodes, i = fd \/ i = fd2
  PROVE  \/ file'[i].data = file[i].data
         \/ /\ entry = i /\ entry' = i
            /\ Written(file[i].data, file'[i].data)
  <1>1. file \in [Inodes -> FileState] /\ entry \in Inodes \cup {None} /\ file[i] \in FileState
        /\ file[i].data \in Seq(Blocks) /\ Len(file[i].data) \in Nat
    BY FileData DEF TypeOK
  <1>2. ASSUME NEW kind, NEW c, entry # None, Overwrite(kind, c), Written(file[entry].data, c)
        PROVE  \/ file'[i].data = file[i].data
               \/ /\ entry = i /\ entry' = i
                  /\ Written(file[i].data, file'[i].data)
    <2> DEFINE st == [data |-> c, mtime |-> now, ctime |-> now]
    <2>1. st.data = c
      OBVIOUS
    <2>2. file' = [file EXCEPT ![entry] = st] /\ entry' = entry
      BY <1>2 DEF Overwrite
    <2> HIDE DEF st
    <2> QED
      BY <1>1, <1>2, <2>1, <2>2
  <1>3. CASE WriteInPlace
    <2>1. entry \in Inodes /\ entry # None /\ ValueAtPath = file[entry].data
      BY <1>1, <1>3 DEF WriteInPlace, ValueAtPath
    <2>2. file[entry].data \in Seq(Blocks) /\ Len(file[entry].data) \in Nat
      BY <2>1, FileData
    <2> DEFINE old == file[entry].data
    <2>3. ASSUME NEW c \in Contents, Len(c) = Len(old), NEW k \in DOMAIN c,
                 c = [old EXCEPT ![k] = c[k]]
          PROVE  Written(old, c)
      <3>1. c \in Seq(Blocks)
        BY ReadAssumption
      <3>2. DOMAIN c = 1 .. Len(c) /\ DOMAIN old = 1 .. Len(c)
        BY <2>2, <2>3, <3>1, LenProperties
      <3> HIDE DEF old
      <3>3. \A j \in 1 .. Len(c) : j # k => c[j] = old[j]
        BY <2>3, <3>2
      <3> QED
        BY <2>3, <3>2, <3>3 DEF Written
    <2>4. ASSUME NEW c \in Contents, c # <<>>, SubSeq(c, 1, Len(c) - 1) = old
          PROVE  Written(old, c)
      <3>1. c \in Seq(Blocks) /\ Len(c) \in Nat /\ Len(c) # 0
        BY <2>4, ReadAssumption, LenProperties, EmptySeq
      <3> DEFINE n == Len(c) - 1
      <3>2. n \in Nat /\ \A j \in 1 .. n : c[j] \in Blocks
        BY <3>1, ElementOfSeq
      <3> HIDE DEF n, old
      <3>3. /\ Len(SubSeq(c, 1, n)) = n
            /\ \A j \in 1 .. n : SubSeq(c, 1, n)[j] = c[j]
        BY <3>2, SubSeqProperties
      <3>4. SubSeq(c, 1, n) = old
        BY <2>4 DEF n
      <3>5. Len(old) = n /\ \A j \in 1 .. n : old[j] = c[j]
        BY <3>3, <3>4
      <3>6. Len(c) = Len(old) + 1 /\ Begins(old, c)
        BY <3>1, <3>5 DEF Begins, n
      <3> QED
        BY <3>6 DEF Written
    <2>5. Written(old, <<>>)
      BY DEF Written
    <2> QED
      BY <1>2, <1>3, <2>1, <2>3, <2>4, <2>5 DEF WriteInPlace
  <1>4. CASE Replace
    <2>1. PICK j \in Inodes \ {entry, fd, fd2}, c \in Contents :
            file' = [k \in Inodes |->
                       CASE k = j -> [data |-> c, mtime |-> now, ctime |-> now]
                         [] k # j /\ k = entry -> [file[k] EXCEPT !.ctime = now]
                         [] OTHER -> file[k]]
      BY <1>4 DEF Replace
    <2> DEFINE kept == [file[i] EXCEPT !.ctime = now]
    <2>2. kept.data = file[i].data
      BY <1>1 DEF FileState
    <2>3. file'[i] = IF i = entry THEN kept ELSE file[i]
      BY <2>1
    <2> HIDE DEF kept
    <2> QED
      BY <2>2, <2>3
  <1>5. CASE Unlink
    <2> DEFINE kept == [file[entry] EXCEPT !.ctime = now]
    <2>1. entry \in Inodes /\ file[entry] \in FileState
      BY <1>1, <1>5 DEF Unlink
    <2>2. kept.data = file[entry].data
      BY <2>1 DEF FileState
    <2>3. file' = [file EXCEPT ![entry] = kept]
      BY <1>5 DEF Unlink
    <2> HIDE DEF kept
    <2> QED
      BY <1>1, <2>1, <2>2, <2>3
  <1> QED
    BY <1>3, <1>4, <1>5

LEMMA HeldStep == Sound /\ SeesThePath /\ Held /\ [Next]_vars => Held'
  <1> SUFFICES ASSUME Sound, SeesThePath, Held, [Next]_vars
               PROVE  Held'
    OBVIOUS
  <1> USE DEF Reading, fsVars, firstVars, secondVars, callVars, Goto
  <1>1. ASSUME pc' \notin Reading \ {"open"}
        PROVE  Held'
    BY <1>1 DEF Held
  <1>2. ASSUME TryAgain \/ \E code, data, stamp : Return(code, data, stamp)
        PROVE  Held'
    BY <1>1, <1>2 DEF TryAgain, RetryUpTo, Return
  <1>3. ASSUME pc \in Reading \ {"open"}, pc' = "reread" => pc = "reread",
               UNCHANGED <<file, seen, fd, fd2>>
        PROVE  Held'
    BY <1>3 DEF Held
  <1>4. CASE Call \/ IoError
    BY <1>1, <1>2, <1>4 DEF Call, IoError
  <1>5. CASE Open
    <2>1. CASE entry # None /\ pc = "open" /\ pc' = "read" /\ fd' = entry /\ UNCHANGED <<file, seen>>
      BY <2>1 DEF Held, SeesThePath, ValueAtPath
    <2> QED
      BY <1>2, <1>5, <2>1 DEF Open
  <1>6. CASE ReadBlock \/ Fstat \/ Stat
    BY <1>2, <1>3, <1>6 DEF ReadBlock, Fstat, Stat
  <1>7. CASE Reopen
    <2>1. CASE /\ pc = "reopen" /\ entry # None /\ pc' = "reread" /\ fd2' = entry
               /\ UNCHANGED <<file, seen, fd>>
      BY <2>1 DEF Held, SeesThePath, ValueAtPath
    <2> QED
      BY <1>2, <1>7, <2>1 DEF Reopen
  <1>8. CASE Reread
    BY <1>2, <1>3, <1>8 DEF Reread
  <1>9. CASE WriteInPlace \/ Replace \/ Unlink
    <2>1. /\ UNCHANGED readerVars /\ seen \subseteq seen' /\ TypeOK
          /\ pc \in Reading => ValueAtPath' \in seen'
      BY <1>9, ChangeEffect DEF Sound
    <2>2. ASSUME pc \in Reading, NEW i \in Inodes, i = fd \/ i = fd2, file[i].data \in seen
          PROVE  file'[i].data \in seen'
      <3>1. CASE file'[i].data = file[i].data
        BY <2>1, <2>2, <3>1
      <3>2. CASE entry' = i
        BY <2>1, <2>2, <3>2, Numbers DEF ValueAtPath
      <3> QED
        BY <1>9, <2>1, <2>2, <3>1, <3>2, OpenFileEffect
    <2>3. /\ pc \in Reading \ {"open"} => fd \in Inodes
          /\ pc = "reread" => fd2 \in Inodes
      BY DEF Sound, TypeOK
    <2> QED
      BY <2>1, <2>2, <2>3 DEF Held, readerVars
  <1>10. CASE Tick \/ UNCHANGED vars
    BY <1>10 DEF Tick, vars, readerVars, Held
  <1> QED
    BY <1>4, <1>5, <1>6, <1>7, <1>8, <1>9, <1>10 DEF Next

(* Another program's step.                                                 *)
LEMMA UnmixedChange ==
  ASSUME Sound, SeesThePath, Held, Unmixed, WriteInPlace \/ Replace \/ Unlink
  PROVE  Unmixed'
  <1>1. /\ TypeOK /\ UNCHANGED readerVars /\ Writes \in Nat /\ Writes' = Writes + 1
        /\ seen \subseteq seen'
        /\ pc \in Reading => ValueAtPath \in seen /\ ValueAtPath' \in seen'
        /\ file' \in [Inodes -> FileState] /\ bytes \in Seq(Blocks) /\ reread \in Seq(Blocks)
    <2>1. TypeOK /\ began \in Nat /\ changes \in Nat /\ began <= changes
      BY Numbers DEF Sound, TypeOK
    <2>2. /\ UNCHANGED readerVars /\ changes' = changes + 1 /\ seen \subseteq seen'
          /\ pc \in Reading => ValueAtPath' \in seen'
          /\ file' \in [Inodes -> FileState]
      BY <2>1, ChangeEffect
    <2>3. began' = began
      BY <2>2 DEF readerVars
    <2> QED
      BY <2>1, <2>2, <2>3 DEF Writes, SeesThePath, TypeOK
  (* A reading that saw one version so far and is written under once.      *)
  <1>2. ASSUME pc \in Reading, NEW i \in Inodes, i = fd \/ i = fd2, file[i].data \in seen,
               NEW p \in Seq(Blocks), Begins(p, file[i].data)
        PROVE  \/ \E s \in seen' : Ends(s, p, file'[i].data)
               \/ Len(file'[i].data) < Len(p) /\ Len(p) < Len(file[i].data)
    <2>1. file[i].data \in Seq(Blocks) /\ file'[i].data \in Seq(Blocks)
      BY <1>1, ReadAssumption DEF TypeOK, FileState
    <2>2. CASE file'[i].data = file[i].data
      BY <1>1, <1>2, <2>1, <2>2, EndsOfPrefix
    <2>3. CASE entry = i /\ entry' = i /\ Written(file[i].data, file'[i].data)
      <3>1. file[i].data \in seen' /\ file'[i].data \in seen'
        BY <1>1, <1>2, <2>3, Numbers DEF ValueAtPath
      <3> QED
        BY <1>2, <2>1, <2>3, <3>1, EndsAfterWrite
    <2> QED
      BY <1>1, <1>2, <2>2, <2>3, OpenFileEffect
  <1>3. /\ pc \in Reading \ {"open"} => fd \in Inodes /\ file[fd].data \in seen
        /\ pc = "reread" => fd2 \in Inodes /\ file[fd2].data \in seen
    BY DEF Sound, TypeOK, Held, Reading
  <1> USE DEF readerVars, firstVars, secondVars
  <1>4. ASSUME pc = "read", Writes' = 1
        PROVE  (OneVersion(bytes, file[fd].data) \/ Len(bytes) > Len(file[fd].data))'
    <2>1. Begins(bytes, file[fd].data) /\ fd \in Inodes /\ file[fd].data \in seen
      BY <1>1, <1>3, <1>4 DEF Unmixed, Reading
    <2>2. \/ \E s \in seen' : Ends(s, bytes, file'[fd].data)
          \/ Len(file'[fd].data) < Len(bytes)
      BY <1>1, <1>2, <1>4, <2>1 DEF Reading
    <2>3. bytes' = bytes /\ fd' = fd
      BY <1>1
    <2>4. Len(bytes) \in Nat /\ Len(file'[fd].data) \in Nat
      BY <1>1, <2>1, ReadAssumption, LenProperties DEF FileState
    <2> QED
      BY <2>2, <2>3, <2>4 DEF OneVersion
  <1>5. ASSUME pc = "fstat", Writes' = 1
        PROVE  bytes' \in seen'
    BY <1>1, <1>3, <1>5 DEF Unmixed, Reading
  <1>6. ASSUME pc = "reread", bytes \notin seen, Writes' < 4
        PROVE  /\ Writes' = 3
               /\ (\/ OneVersion(reread, file[fd2].data)
                   \/ Len(reread) < Len(bytes) /\ Len(file[fd2].data) <= Len(reread))'
    <2>1. /\ Writes = 2 /\ Begins(reread, file[fd2].data)
          /\ Len(file[fd2].data) = Len(bytes)
      BY <1>1, <1>6 DEF Unmixed
    <2>2. fd2 \in Inodes /\ file[fd2].data \in seen
      BY <1>3, <1>6
    <2>3. \/ \E s \in seen' : Ends(s, reread, file'[fd2].data)
          \/ Len(file'[fd2].data) < Len(reread) /\ Len(reread) < Len(bytes)
      BY <1>1, <1>2, <1>6, <2>1, <2>2 DEF Reading
    <2>4. bytes' = bytes /\ reread' = reread /\ fd2' = fd2
      BY <1>1
    <2>5. Len(reread) \in Nat /\ Len(file'[fd2].data) \in Nat
      BY <1>1, <2>2, ReadAssumption, LenProperties DEF FileState
    <2> QED
      BY <1>1, <2>1, <2>3, <2>4, <2>5 DEF OneVersion
  <1>7. ASSUME pc = "stat"
        PROVE  bytes' \in seen' \/ Writes' >= 2 \/ Len(bytes') > after'.len
    BY <1>1, <1>7 DEF Unmixed
  <1>8. ASSUME pc = "reopen"
        PROVE  bytes' \in seen' \/ Writes' >= 3
    BY <1>1, <1>8 DEF Unmixed
  <1>9. ASSUME Loaded
        PROVE  \/ reply'.data \in seen'
               \/ Writes' >= 2 /\ (reply'.stamp.racy => Writes' >= 4)
    <2>1. \/ reply.data \in seen
          \/ Writes >= 2 /\ (reply.stamp.racy => Writes >= 4)
      BY <1>9 DEF Unmixed
    <2>2. reply' = reply
      BY <1>1
    <2>3. Writes >= 2 => Writes' >= 2
      BY <1>1
    <2>4. Writes >= 4 => Writes' >= 4
      BY <1>1
    <2> QED
      BY <1>1, <2>1, <2>2, <2>3, <2>4
  <1>10. UNCHANGED <<pc, bytes, reply>> /\ Writes' # 0
    BY <1>1
  <1> QED
    BY <1>1, <1>4, <1>5, <1>6, <1>7, <1>8, <1>9, <1>10 DEF Unmixed, Loaded

LEMMA UnmixedStep ==
  Sound /\ SeesThePath /\ Held /\ Unmixed /\ [Next]_vars => Unmixed'
  <1> SUFFICES ASSUME Sound, SeesThePath, Held, Unmixed, [Next]_vars
               PROVE  Unmixed'
    OBVIOUS
  <1> USE DEF fsVars, firstVars, secondVars, callVars, Goto
  <1>0. /\ TypeOK /\ Writes \in Nat /\ bytes \in Seq(Blocks) /\ reread \in Seq(Blocks)
        /\ Len(bytes) \in Nat /\ Len(reread) \in Nat
    BY Numbers, LenProperties DEF Sound, TypeOK, Writes
  <1>1. ASSUME pc' \in {"idle", "open"}
        PROVE  Unmixed'
    BY <1>1 DEF Unmixed, Loaded
  <1>2. ASSUME NEW code, code # "ok", NEW data, NEW stamp, Return(code, data, stamp)
        PROVE  Unmixed'
    BY <1>2 DEF Return, Unmixed, Loaded
  <1>3. ASSUME TryAgain
        PROVE  Unmixed'
    BY <1>1, <1>2, <1>3 DEF TryAgain, RetryUpTo
  <1>4. CASE Call \/ IoError
    BY <1>1, <1>2, <1>4 DEF Call, IoError
  <1>5. CASE Open
    <2>1. CASE entry # None
      <3>1. /\ entry \in Inodes /\ bytes = <<>> /\ pc = "open" /\ pc' = "read" /\ fd' = entry
            /\ UNCHANGED <<changes, began, seen, file, bytes>>
        BY <1>5, <2>1 DEF Open, Sound, TypeOK
      <3>2. file[entry].data \in Seq(Blocks)
        BY <1>0, <3>1, FileData
      <3>3. Begins(bytes, file[entry].data) /\ Ends(file[entry].data, bytes, file[entry].data)
        BY <3>1, <3>2, BeginsEmpty, EndsOfPrefix, EmptySeq
      <3>4. file[entry].data \in seen
        BY <2>1, <3>1 DEF SeesThePath, ValueAtPath, Reading
      <3> QED
        BY <3>1, <3>3, <3>4 DEF Unmixed, OneVersion, Loaded
    <2> QED
      BY <1>2, <1>5, <2>1 DEF Open
  <1>6. CASE ReadBlock
    <2> DEFINE data == file[fd].data
    <2>1. /\ pc = "read" /\ fd \in Inodes
          /\ UNCHANGED <<changes, began, seen, file, fd, Writes>>
      BY <1>6 DEF Sound, TypeOK, ReadBlock, Reading, Writes
    <2>2. data \in Seq(Blocks) /\ Len(data) \in Nat /\ data \in seen
      BY <1>0, <2>1, FileData DEF Held, Reading
    <2>3. CASE Len(bytes) >= Len(data)
      <3>1. pc' = "fstat" /\ bytes' = bytes
        BY <1>6, <2>3 DEF ReadBlock
      <3>2. Writes = 0 => bytes = data
        BY <1>0, <2>1, <2>2, <2>3, BeginsWhole DEF Unmixed
      <3>3. Writes = 1 => bytes \in seen \/ Len(bytes) > Len(data)
        BY <1>0, <2>1, <2>2, <2>3, EndsWhole DEF Unmixed, OneVersion
      <3> QED
        BY <2>1, <3>1, <3>2, <3>3 DEF Unmixed, Loaded
    <2>4. CASE Len(bytes) < Len(data)
      <3>1. pc' = "read" /\ bytes' = Append(bytes, data[Len(bytes) + 1])
        BY <1>0, <1>6, <2>1, <2>2, <2>4 DEF ReadBlock
      <3>2. Writes = 0 => Begins(bytes', data)
        BY <1>0, <2>1, <2>2, <2>4, <3>1, BeginsAppend DEF Unmixed
      <3>3. Writes = 1 => \E s \in seen : Ends(s, bytes', data)
        BY <1>0, <2>1, <2>2, <2>4, <3>1, EndsAppend DEF Unmixed, OneVersion
      <3> QED
        BY <2>1, <3>1, <3>2, <3>3 DEF Unmixed, OneVersion, Loaded
    <2> QED
      BY <1>0, <2>2, <2>3, <2>4
  <1>7. CASE Fstat
    <2>1. /\ pc = "fstat" /\ pc' = "stat" /\ fd \in Inodes /\ after' = DescriptorStamp(fd)
          /\ UNCHANGED <<seen, bytes, Writes>>
      BY <1>7 DEF Fstat, Sound, TypeOK, Reading, Writes
    <2>2. after'.len = Len(file[fd].data) /\ file[fd].data \in seen
      BY <1>0, <2>1, FileData DEF Held, Reading
    <2>3. bytes \in seen \/ Writes >= 2 \/ Len(bytes) > after'.len
      BY <1>0, <2>1, <2>2 DEF Unmixed
    <2> QED
      BY <2>1, <2>3 DEF Unmixed, Loaded
  <1>8. CASE Stat
    <2>1. pc = "stat"
      BY <1>8 DEF Stat
    <2>2. ASSUME Stable
          PROVE  /\ bytes \in seen \/ Writes >= 2
                 /\ entry # None /\ Len(ValueAtPath) = Len(bytes)
      <3>1. /\ Len(bytes) = after.len /\ entry \in Inodes /\ entry # None
            /\ DescriptorStamp(entry).len = after.len
        BY <1>0, <2>2 DEF Stable, SameStamp, TypeOK
      <3>2. Len(ValueAtPath) = Len(bytes)
        BY <1>0, <3>1, FileData DEF ValueAtPath
      <3> QED
        BY <1>0, <2>1, <3>1, <3>2 DEF Unmixed
    <2>3. CASE Stable /\ ~after.racy /\ Return("ok", bytes, after)
      <3>1. /\ pc' = "done" /\ reply'.data = bytes /\ reply'.stamp = after
            /\ UNCHANGED <<seen, Writes>>
        BY <2>3 DEF Return, Writes
      <3> QED
        BY <2>2, <2>3, <3>1 DEF Unmixed
    <2>4. CASE Stable /\ pc' = "reopen" /\ UNCHANGED <<fsVars, callVars, firstVars, secondVars, reply>>
      <3>1. UNCHANGED <<seen, Writes, bytes, entry, ValueAtPath>>
        BY <2>4 DEF Writes, ValueAtPath
      <3>2. \/ bytes \in seen
            \/ Writes >= 3
            \/ Writes = 2 /\ entry # None /\ Len(ValueAtPath) = Len(bytes)
        BY <1>0, <2>2, <2>4
      <3> QED
        BY <2>4, <3>1, <3>2 DEF Unmixed, Loaded
    <2> QED
      BY <1>3, <1>8, <2>3, <2>4 DEF Stat
  <1>9. CASE Reopen
    <2>1. CASE /\ entry # None /\ pc' = "reread" /\ fd2' = entry
               /\ UNCHANGED <<fsVars, callVars, firstVars, reread, reply>>
      <3>1. /\ pc = "reopen" /\ entry \in Inodes /\ reread = <<>>
            /\ UNCHANGED <<seen, Writes, bytes, file, reread>>
        BY <1>9, <2>1 DEF Reopen, Sound, TypeOK, Writes
      <3>2. ValueAtPath = file[entry].data /\ file[entry].data \in Seq(Blocks)
            /\ file[entry].data \in seen
        BY <1>0, <2>1, <3>1, FileData DEF ValueAtPath, SeesThePath, Reading
      <3>3. Begins(reread, file[entry].data) /\ Ends(file[entry].data, reread, file[entry].data)
        BY <3>1, <3>2, BeginsEmpty, EndsOfPrefix, EmptySeq
      <3>4. \/ bytes \in seen
            \/ Writes >= 4
            \/ Writes = 2 /\ Begins(reread, file[entry].data) /\ Len(file[entry].data) = Len(bytes)
            \/ Writes = 3 /\ OneVersion(reread, file[entry].data)
        BY <1>0, <3>1, <3>2, <3>3 DEF Unmixed, OneVersion
      <3> QED
        BY <2>1, <3>1, <3>4 DEF Unmixed, Loaded, OneVersion
    <2> QED
      BY <1>3, <1>9, <2>1 DEF Reopen
  <1>10. CASE Reread
    <2> DEFINE data == file[fd2].data
    <2>1. pc = "reread" /\ fd2 \in Inodes
      BY <1>10 DEF Sound, TypeOK, Reread
    <2>2. data \in Seq(Blocks) /\ Len(data) \in Nat /\ data \in seen
      BY <1>0, <2>1, FileData DEF Held
    <2>3. CASE Len(reread) >= Len(data) /\ reread = bytes /\ Return("ok", bytes, after)
      <3>1. /\ pc' = "done" /\ reply'.data = bytes /\ UNCHANGED <<seen, Writes>>
        BY <2>3 DEF Return, Writes
      <3>2. Begins(reread, data) => bytes \in seen
        BY <1>0, <2>2, <2>3, BeginsWhole
      <3>3. OneVersion(reread, data) => bytes \in seen
        BY <1>0, <2>2, <2>3, EndsWhole DEF OneVersion
      <3>4. bytes \in seen \/ Writes >= 4
        BY <1>0, <2>1, <2>3, <3>2, <3>3 DEF Unmixed
      <3> QED
        BY <1>0, <3>1, <3>4 DEF Unmixed
    <2>4. CASE /\ Len(reread) < Len(data)
               /\ reread' = Append(reread, data[Len(reread) + 1])
               /\ UNCHANGED <<fsVars, callVars, firstVars, pc, fd2, reply>>
      <3>1. UNCHANGED <<seen, Writes, bytes, file, fd2, pc>>
        BY <2>4 DEF Writes
      <3>2. Begins(reread, data) => Begins(reread', data)
        BY <1>0, <2>2, <2>4, BeginsAppend
      <3>3. OneVersion(reread, data) => OneVersion(reread', data)
        BY <1>0, <2>2, <2>4, EndsAppend DEF OneVersion
      <3>4. \/ bytes \in seen
            \/ Writes >= 4
            \/ Writes = 2 /\ Begins(reread', data) /\ Len(data) = Len(bytes)
            \/ Writes = 3 /\ OneVersion(reread', data)
        BY <1>0, <2>1, <2>2, <2>4, <3>2, <3>3 DEF Unmixed
      <3> QED
        BY <2>1, <3>1, <3>4 DEF Unmixed, Loaded, OneVersion
    <2> QED
      BY <1>0, <1>3, <1>10, <2>2, <2>3, <2>4 DEF Reread
  <1>11. CASE WriteInPlace \/ Replace \/ Unlink
    BY <1>11, UnmixedChange
  <1>12. CASE Tick \/ UNCHANGED vars
    BY <1>12 DEF Tick, vars, readerVars, Unmixed, Loaded, OneVersion, Writes, ValueAtPath
  <1> QED
    BY <1>4, <1>5, <1>6, <1>7, <1>8, <1>9, <1>10, <1>11, <1>12 DEF Next

LEMMA UnmixedHolds == Spec => []Unmixed
  <1> DEFINE Inv == Sound /\ SeesThePath /\ Held /\ Unmixed
  <1>1. Init => Inv
    BY SoundInit DEF Init, SeesThePath, Held, Unmixed, Loaded, Reading
  <1>2. Inv /\ [Next]_vars => Inv'
    BY SoundStep, SeesStep, HeldStep, UnmixedStep
  <1> QED
    BY <1>1, <1>2, PTL DEF Spec

(* However long it takes, a load returns bytes the path held all at once   *)
(* unless the file changed twice during the call, and unless it changed    *)
(* four times if it was read twice (read_candidate).                       *)
THEOREM MixturesTakeChanges ==
  Spec => [](Loaded /\ reply.data \notin seen =>
               changes - began >= IF reply.stamp.racy THEN 4 ELSE 2)
  <1>1. Unmixed /\ TypeOK => (Loaded /\ reply.data \notin seen =>
                    changes - began >= IF reply.stamp.racy THEN 4 ELSE 2)
    BY DEF Unmixed, Writes
  <1> QED
    BY <1>1, UnmixedHolds, LoadIsTyped, PTL

(* BytesWereTheFile: nothing is glued together, in a racy file because     *)
(* the second reading does not confirm a mixture (snapshot.rs, `reread ==  *)
(* bytes`), elsewhere because nothing changed while the file was read.     *)
THEOREM LoadsAreWholeFiles ==
  ASSUME Timely
  PROVE  Spec => []BytesWereTheFile
  <1>1. /\ Loaded /\ ~reply.stamp.racy => reply.data \in seen
        /\ Loaded /\ reply.data \notin seen => changes - began >= IF reply.stamp.racy THEN 4 ELSE 2
        /\ TypeOK
        => BytesWereTheFile
    <2>1. TypeOK => changes - began \in Int
      BY Numbers DEF TypeOK
    <2> QED
      BY <2>1 DEF BytesWereTheFile
  <1> QED
    BY <1>1, OldStampsAreWholeFiles, MixturesTakeChanges, LoadIsTyped, PTL

=============================================================================
