--------------------------- MODULE Durability_proofs ---------------------------
(***************************************************************************)
(* Proofs about Durability, for any number of requests, kills and power    *)
(* losses, on every platform and either kind of file system.               *)
(***************************************************************************)
EXTENDS Durability, SequenceTheorems, TLAPS

(* Where a request stands and how much of its file is written.             *)
Staged ==
  /\ \A i \in Inodes : disk[i] <= mem[i]
  /\ \A r \in Reqs :
       /\ pc[r] \in Running => job[r] # None
       /\ pc[r] \in {"idle", "lock"} => mem[r] = 0
       /\ pc[r] = "write" => mem[r] < Whole
       /\ pc[r] \in {"flush", "check", "install"} => mem[r] = Whole

(* A request is answered last, and lands between "install" and "sync".     *)
Orderly ==
  \A r \in Reqs :
    /\ pc[r] # "done" => reply[r] = "none" /\ r \notin durable
    /\ pc[r] \in {"idle", "lock", "write", "flush", "check", "install"} => ~Among(r, Len(landed))
    /\ pc[r] \in {"sync", "confirm"} => Among(r, Len(landed))

(* What `full` promised, or is about to, is on the medium.                 *)
Kept ==
  \A r \in Reqs :
    /\ pc[r] = "confirm" /\ Synced(r) => Among(r, committed)
    /\ r \in durable => parent = "stable" /\ Among(r, committed)

(* From its flush on, a protected file is whole, and on the medium unless  *)
(* its entry has to wait for it; so its committed entries name whole files. *)
Guarded(i) == Protected(i) => mem[i] = Whole /\ (Ordered(i) \/ disk[i] = Whole)

Bytes ==
  /\ \A r \in Reqs : pc[r] \in {"check", "install"} => Guarded(r)
  /\ \A k \in 1 .. Len(landed) : Guarded(landed[k])
  /\ \A k \in 1 .. committed : Protected(landed[k]) => disk[landed[k]] = Whole

DurInv == TypeOK /\ Staged /\ Orderly /\ Kept /\ Bytes

-----------------------------------------------------------------------------

LEMMA DurInit == Init => DurInv
  <1> SUFFICES ASSUME Init PROVE DurInv
    OBVIOUS
  <1> USE DEF Init
  <1>0. landed = <<>> \/ landed = <<Old>>
    OBVIOUS
  <1>1. /\ Len(landed) \in Nat
        /\ landed \in Seq(Inodes)
        /\ \A k \in 1 .. Len(landed) : landed[k] = Old
    <2>1. CASE landed = <<>>
      BY <2>1
    <2>2. CASE landed = <<Old>>
      <3>1. Old \in Inodes
        BY DEF Inodes
      <3>2. landed \in Seq(Inodes) /\ Len(landed) = 1 /\ landed[1] = Old
        BY <2>2, <3>1
      <3> QED
        BY <3>2
    <2> QED
      BY <1>0, <2>1, <2>2
  <1>2. TypeOK
    BY <1>1, DurabilityAssumption DEF TypeOK, Inodes, Whole
  <1>3. Staged
    BY DurabilityAssumption DEF Staged, Running, Inodes, Whole
  <1>4. Orderly
    BY <1>1, DurabilityAssumption DEF Orderly, Among
  <1>5. Kept
    <2>1. durable = {} /\ \A r \in Reqs : pc[r] = "idle"
      OBVIOUS
    <2> QED
      BY <2>1 DEF Kept
  <1>6. Bytes
    BY <1>1, DurabilityAssumption DEF Bytes, Guarded, Inodes, Whole
  <1> QED
    BY <1>2, <1>3, <1>4, <1>5, <1>6 DEF DurInv

(* What an entry added to the directory changes about what landed.         *)
LEMMA Landing ==
  ASSUME TypeOK, NEW r \in Reqs, landed' = Append(landed, r)
  PROVE  /\ landed' \in Seq(Inodes)
         /\ Len(landed') = Len(landed) + 1
         /\ Len(landed) \in Nat
         /\ \A k \in 1 .. Len(landed) : landed'[k] = landed[k]
         /\ landed'[Len(landed')] = r
  <1>1. r \in Inodes /\ landed \in Seq(Inodes)
    BY DEF TypeOK, Inodes
  <1> QED
    BY <1>1, AppendProperties

(* What a power loss leaves of them.                                       *)
LEMMA Losing ==
  ASSUME TypeOK, landed' = SubSeq(landed, 1, committed)
  PROVE  /\ landed' \in Seq(Inodes)
         /\ Len(landed') = committed
         /\ \A k \in 1 .. committed : landed'[k] = landed[k]
  <1>1. /\ committed \in Int /\ committed >= 0
        /\ \A k \in 1 .. committed : landed[k] \in Inodes
    BY DEF TypeOK
  <1> QED
    BY <1>1, SubSeqProperties

(* Every step keeps the types.                                             *)
LEMMA TypeStep == TypeOK /\ Staged /\ [Next]_vars => TypeOK'
  <1> SUFFICES ASSUME TypeOK, Staged, [Next]_vars PROVE TypeOK'
    OBVIOUS
  <1> USE DurabilityAssumption DEF fixedVars, dataVars, entryVars, answerVars, Running
  <1>0. Len(landed) \in Nat /\ \A r \in Reqs : r \in Inodes
    BY DEF TypeOK, Inodes
  <1>1. ASSUME NEW r \in Reqs, Begin(r) PROVE TypeOK'
    <2>1. Current \in Inodes \cup {None}
      BY <1>0 DEF TypeOK, Current
    <2> QED
      BY <1>1, <2>1 DEF TypeOK, Begin, Goto
  <1>2. ASSUME NEW r \in Reqs, Stage(r) PROVE TypeOK'
    BY <1>2 DEF TypeOK, Stage, Goto
  <1>3. ASSUME NEW r \in Reqs, Write(r) PROVE TypeOK'
    <2>1. mem[r] + 1 \in 0 .. Whole
      BY <1>0, <1>3 DEF TypeOK, Staged, Write, Goto, Whole
    <2> QED
      BY <1>3, <2>1 DEF TypeOK, Write, Goto
  <1>4. ASSUME NEW r \in Reqs, Flush(r) PROVE TypeOK'
    <2>1. mem[r] \in 0 .. Whole
      BY <1>0 DEF TypeOK
    <2> QED
      BY <1>4, <2>1 DEF TypeOK, Flush, Goto
  <1>5. ASSUME NEW r \in Reqs, Refuse(r) PROVE TypeOK'
    BY <1>5 DEF TypeOK, Refuse
  <1>6. ASSUME NEW r \in Reqs, Check(r) PROVE TypeOK'
    BY <1>5, <1>6 DEF TypeOK, Check, Goto
  <1>7. ASSUME NEW r \in Reqs, Install(r) PROVE TypeOK'
    <2>1. landed' \in Seq(Inodes) /\ Len(landed') = Len(landed) + 1
      BY <1>7, Landing DEF Install
    <2>2. committed' \in 0 .. Len(landed')
      BY <1>0, <1>7, <2>1 DEF TypeOK, Install
    <2> QED
      BY <1>7, <2>1, <2>2 DEF TypeOK, Install, Goto
  <1>8. ASSUME NEW r \in Reqs, SyncParent(r) PROVE TypeOK'
    <2>1. committed' \in 0 .. Len(landed')
      BY <1>0, <1>8 DEF TypeOK, SyncParent
    <2>2. disk' \in [Inodes -> 0 .. Whole]
      BY <1>8 DEF TypeOK, SyncParent
    <2> QED
      BY <1>8, <2>1, <2>2 DEF TypeOK, SyncParent, Goto
  <1>9. ASSUME NEW r \in Reqs, Answer(r) PROVE TypeOK'
    BY <1>9 DEF TypeOK, Answer, Goto
  <1>10. ASSUME NEW i \in Inodes, WriteBack(i) PROVE TypeOK'
    <2>1. disk[i] + 1 \in 0 .. Whole
      BY <1>10 DEF TypeOK, WriteBack, Whole
    <2> QED
      BY <1>10, <2>1 DEF TypeOK, WriteBack, requestVars
  <1>11. ASSUME CommitEntry PROVE TypeOK'
    <2>1. committed' \in 0 .. Len(landed')
      BY <1>0, <1>11 DEF TypeOK, CommitEntry
    <2> QED
      BY <1>11, <2>1 DEF TypeOK, CommitEntry, requestVars
  <1>12. CASE CommitParent
    BY <1>12 DEF TypeOK, CommitParent, requestVars
  <1>13. ASSUME Die PROVE /\ pc' \in [Reqs -> Running \cup {"idle", "done", "dead"}]
                          /\ crashes' \in 0 .. MaxCrashes
    BY <1>13 DEF TypeOK, Die
  <1>14. CASE Kill
    BY <1>13, <1>14 DEF TypeOK, Kill, Die
  <1>15. CASE PowerLoss
    <2>1. CASE parent = "stable" /\ landed' = SubSeq(landed, 1, committed)
                 /\ UNCHANGED <<parent, committed>>
      BY <1>13, <1>15, <2>1, Losing DEF TypeOK, PowerLoss, Die
    <2>2. CASE landed' = <<>> /\ committed' = 0 /\ parent' = "missing"
      BY <1>13, <1>15, <2>2 DEF TypeOK, PowerLoss, Die
    <2> QED
      BY <1>15, <2>1, <2>2 DEF PowerLoss
  <1>16. CASE UNCHANGED vars
    BY <1>16 DEF TypeOK, vars
  <1> QED
    BY <1>1, <1>2, <1>3, <1>4, <1>5, <1>6, <1>7, <1>8, <1>9, <1>10, <1>11, <1>12,
       <1>14, <1>15, <1>16 DEF Next, Step, LinkLoses, Fail

(* Every step keeps requests in order.                                     *)
LEMMA StagedStep == TypeOK /\ TypeOK' /\ Staged /\ [Next]_vars => Staged'
  <1> SUFFICES ASSUME TypeOK, TypeOK', Staged, [Next]_vars PROVE Staged'
    OBVIOUS
  <1> USE DurabilityAssumption
      DEF fixedVars, dataVars, entryVars, answerVars, requestVars, Running, Staged, TypeOK, Whole
  <1>0. \A r \in Reqs : r \in Inodes
    BY DEF Inodes
  <1>1. ASSUME NEW r \in Reqs, Begin(r) PROVE Staged'
    BY <1>0, <1>1 DEF Begin, Goto
  <1>2. ASSUME NEW r \in Reqs, Stage(r) PROVE Staged'
    BY <1>0, <1>2 DEF Stage, Goto
  <1>3. ASSUME NEW r \in Reqs, Write(r) PROVE Staged'
    BY <1>0, <1>3, SMTT(30) DEF Write, Goto
  <1>4. ASSUME NEW r \in Reqs, Flush(r) PROVE Staged'
    BY <1>0, <1>4 DEF Flush, Goto
  <1>5. ASSUME NEW r \in Reqs, Refuse(r) PROVE Staged'
    BY <1>0, <1>5 DEF Refuse
  <1>6. ASSUME NEW r \in Reqs, Check(r) PROVE Staged'
    BY <1>0, <1>5, <1>6 DEF Check, Goto
  <1>7. ASSUME NEW r \in Reqs, Install(r) PROVE Staged'
    BY <1>0, <1>7 DEF Install, Goto
  <1>8. ASSUME NEW r \in Reqs, SyncParent(r) PROVE Staged'
    BY <1>0, <1>8 DEF SyncParent, Goto
  <1>9. ASSUME NEW r \in Reqs, Answer(r) PROVE Staged'
    BY <1>0, <1>9 DEF Answer, Goto
  <1>10. ASSUME NEW i \in Inodes, WriteBack(i) PROVE Staged'
    BY <1>0, <1>10 DEF WriteBack
  <1>11. CASE CommitEntry \/ CommitParent
    BY <1>11 DEF CommitEntry, CommitParent
  <1>12. CASE Kill
    BY <1>12 DEF Kill, Die
  <1>13. CASE PowerLoss
    BY <1>0, <1>13 DEF PowerLoss, Die
  <1>14. CASE UNCHANGED vars
    BY <1>14 DEF vars
  <1> QED
    BY <1>1, <1>2, <1>3, <1>4, <1>5, <1>6, <1>7, <1>8, <1>9, <1>10, <1>11, <1>12,
       <1>13, <1>14 DEF Next, Step, LinkLoses, Fail

(* Every step answers requests in order, and after they landed.            *)
LEMMA OrderlyStep == TypeOK /\ TypeOK' /\ Orderly /\ [Next]_vars => Orderly'
  <1> SUFFICES ASSUME TypeOK, TypeOK', Orderly, [Next]_vars PROVE Orderly'
    OBVIOUS
  <1> USE DurabilityAssumption DEF fixedVars, dataVars, entryVars, answerVars, requestVars, Running
  <1>0. Len(landed) \in Nat /\ pc \in [Reqs -> Running \cup {"idle", "done", "dead"}]
        /\ reply \in [Reqs -> {"none", "ok", "error"}]
    BY DEF TypeOK
  <1>1. ASSUME UNCHANGED landed PROVE \A s \in Reqs : Among(s, Len(landed))' <=> Among(s, Len(landed))
    BY <1>1 DEF Among
  <1>2. ASSUME NEW r \in Reqs, Begin(r) PROVE Orderly'
    BY <1>0, <1>1, <1>2 DEF Begin, Goto, Orderly
  <1>3. ASSUME NEW r \in Reqs, Stage(r) PROVE Orderly'
    BY <1>0, <1>1, <1>3 DEF Stage, Goto, Orderly
  <1>4. ASSUME NEW r \in Reqs, Write(r) PROVE Orderly'
    BY <1>0, <1>1, <1>4 DEF Write, Goto, Orderly
  <1>5. ASSUME NEW r \in Reqs, Flush(r) PROVE Orderly'
    BY <1>0, <1>1, <1>5 DEF Flush, Goto, Orderly
  <1>6. ASSUME NEW r \in Reqs, Refuse(r) PROVE Orderly'
    BY <1>0, <1>1, <1>6 DEF Refuse, Orderly
  <1>7. ASSUME NEW r \in Reqs, Check(r) PROVE Orderly'
    BY <1>0, <1>1, <1>6, <1>7 DEF Check, Goto, Orderly
  <1>8. ASSUME NEW r \in Reqs, Install(r) PROVE Orderly'
    <2>1. /\ Len(landed') = Len(landed) + 1
          /\ \A k \in 1 .. Len(landed) : landed'[k] = landed[k]
          /\ landed'[Len(landed')] = r
      BY <1>8, Landing DEF Install
    <2>2. Among(r, Len(landed))'
      BY <1>0, <2>1 DEF Among
    <2>3. \A s \in Reqs \ {r} : Among(s, Len(landed))' <=> Among(s, Len(landed))
      BY <1>0, <2>1 DEF Among
    <2> QED
      BY <1>0, <1>8, <2>2, <2>3 DEF Install, Goto, Orderly
  <1>9. ASSUME NEW r \in Reqs, SyncParent(r) PROVE Orderly'
    BY <1>0, <1>1, <1>9 DEF SyncParent, Goto, Orderly
  <1>10. ASSUME NEW r \in Reqs, Answer(r) PROVE Orderly'
    BY <1>0, <1>1, <1>10 DEF Answer, Goto, Orderly
  <1>11. CASE (\E i \in Inodes : WriteBack(i)) \/ CommitEntry \/ CommitParent
    BY <1>0, <1>1, <1>11 DEF WriteBack, CommitEntry, CommitParent, Orderly
  <1>12. CASE Kill
    BY <1>0, <1>1, <1>12 DEF Kill, Die, Orderly
  <1>13. CASE PowerLoss
    <2>1. \A s \in Reqs : Among(s, Len(landed))' => Among(s, Len(landed))
      <3>1. CASE landed' = <<>>
        BY <3>1 DEF Among
      <3>2. CASE landed' = SubSeq(landed, 1, committed)
        <4>1. Len(landed') = committed /\ \A k \in 1 .. committed : landed'[k] = landed[k]
          BY <3>2, Losing
        <4>2. committed \in 0 .. Len(landed)
          BY DEF TypeOK
        <4> QED
          BY <1>0, <4>1, <4>2 DEF Among
      <3> QED
        BY <1>13, <3>1, <3>2 DEF PowerLoss
    <2> QED
      BY <1>0, <1>13, <2>1 DEF PowerLoss, Die, Orderly
  <1>14. CASE UNCHANGED vars
    BY <1>1, <1>14 DEF vars, Orderly
  <1> QED
    BY <1>2, <1>3, <1>4, <1>5, <1>6, <1>7, <1>8, <1>9, <1>10, <1>11, <1>12,
       <1>13, <1>14 DEF Next, Step, LinkLoses, Fail

(* Every step keeps what was promised on the medium.                       *)
LEMMA KeptStep == TypeOK /\ TypeOK' /\ Orderly /\ Kept /\ [Next]_vars => Kept'
  <1> SUFFICES ASSUME TypeOK, TypeOK', Orderly, Kept, [Next]_vars PROVE Kept'
    OBVIOUS
  <1> USE DurabilityAssumption DEF fixedVars, dataVars, entryVars, answerVars, requestVars, Running
  <1>0. /\ Len(landed) \in Nat /\ committed \in 0 .. Len(landed)
        /\ pc \in [Reqs -> Running \cup {"idle", "done", "dead"}]
        /\ job \in [Reqs -> Jobs \cup {None}]
    BY DEF TypeOK
  <1>1. ASSUME UNCHANGED <<landed, committed>>
        PROVE \A s \in Reqs : Among(s, committed)' <=> Among(s, committed)
    BY <1>1 DEF Among
  <1>2. ASSUME NEW r \in Reqs, Begin(r) PROVE Kept'
    BY <1>0, <1>1, <1>2 DEF Begin, Goto, Kept, Synced
  <1>3. ASSUME NEW r \in Reqs, Stage(r) PROVE Kept'
    BY <1>0, <1>1, <1>3 DEF Stage, Goto, Kept, Synced
  <1>4. ASSUME NEW r \in Reqs, Write(r) PROVE Kept'
    BY <1>0, <1>1, <1>4 DEF Write, Goto, Kept, Synced
  <1>5. ASSUME NEW r \in Reqs, Flush(r) PROVE Kept'
    BY <1>0, <1>1, <1>5 DEF Flush, Goto, Kept, Synced
  <1>6. ASSUME NEW r \in Reqs, Refuse(r) PROVE Kept'
    BY <1>0, <1>1, <1>6 DEF Refuse, Kept, Synced
  <1>7. ASSUME NEW r \in Reqs, Check(r) PROVE Kept'
    BY <1>0, <1>1, <1>6, <1>7 DEF Check, Goto, Kept, Synced
  <1>8. ASSUME NEW r \in Reqs, Install(r) PROVE Kept'
    <2>1. \A k \in 1 .. Len(landed) : landed'[k] = landed[k]
      BY <1>8, Landing DEF Install
    <2>2. \A s \in Reqs : Among(s, committed)' <=> Among(s, committed)
      BY <1>0, <1>8, <2>1 DEF Among, Install
    <2> QED
      BY <1>0, <1>8, <2>2 DEF Install, Goto, Kept, Synced
  <1>9. ASSUME NEW r \in Reqs, SyncParent(r) PROVE Kept'
    <2>1. \A s \in Reqs : Among(s, committed) => Among(s, committed)'
      BY <1>0, <1>9 DEF Among, SyncParent
    <2>2. Synced(r)' => Among(r, committed)'
      <3>1. Among(r, Len(landed))
        BY <1>9 DEF Orderly, SyncParent, Goto
      <3> QED
        BY <1>9, <3>1 DEF SyncParent, Synced, Among
    <2>3. \A s \in Reqs \ {r} : Synced(s)' => Synced(s)
      BY <1>9 DEF SyncParent, Synced
    <2> QED
      BY <1>0, <1>9, <2>1, <2>2, <2>3 DEF SyncParent, Goto, Kept
  <1>10. ASSUME NEW r \in Reqs, Answer(r) PROVE Kept'
    <2>1. Synced(r) => Among(r, committed)
      BY <1>10 DEF Kept, Synced, Answer, Goto
    <2> QED
      BY <1>0, <1>1, <1>10, <2>1 DEF Answer, Goto, Kept, Synced
  <1>11. CASE \E i \in Inodes : WriteBack(i)
    BY <1>0, <1>1, <1>11 DEF WriteBack, Kept, Synced
  <1>12. CASE CommitEntry
    <2>1. \A s \in Reqs : Among(s, committed) => Among(s, committed)'
      BY <1>0, <1>12 DEF Among, CommitEntry
    <2> QED
      BY <1>0, <1>12, <2>1 DEF CommitEntry, Kept, Synced
  <1>13. CASE CommitParent
    BY <1>0, <1>1, <1>13 DEF CommitParent, Kept, Synced
  <1>14. CASE Kill
    BY <1>0, <1>1, <1>14 DEF Kill, Die, Kept, Synced
  <1>15. CASE PowerLoss
    <2>1. \A s \in Reqs : s \in durable => Among(s, committed)'
      <3>1. CASE durable = {}
        BY <3>1
      <3>2. CASE parent = "stable"
        <4>1. landed' = SubSeq(landed, 1, committed) /\ committed' = committed
          BY <1>15, <3>2 DEF PowerLoss
        <4>2. \A k \in 1 .. committed : landed'[k] = landed[k]
          BY <4>1, Losing
        <4> QED
          BY <1>0, <4>1, <4>2 DEF Kept, Among
      <3> QED
        BY <3>1, <3>2 DEF Kept, TypeOK
    <2>2. \A s \in Reqs : s \in durable => parent' = "stable"
      BY <1>15 DEF PowerLoss, Kept
    <2> QED
      BY <1>0, <1>15, <2>1, <2>2 DEF PowerLoss, Die, Kept
  <1>16. CASE UNCHANGED vars
    BY <1>1, <1>16 DEF vars, Kept, Synced
  <1> QED
    BY <1>2, <1>3, <1>4, <1>5, <1>6, <1>7, <1>8, <1>9, <1>10, <1>11, <1>12,
       <1>13, <1>14, <1>15, <1>16 DEF Next, Step, LinkLoses, Fail

(* Every step keeps the bytes of protected files behind their entries.     *)
LEMMA BytesStep == DurInv /\ TypeOK' /\ [Next]_vars => Bytes'
  <1> SUFFICES ASSUME DurInv, TypeOK', [Next]_vars PROVE Bytes'
    OBVIOUS
  <1> USE DurabilityAssumption DEF fixedVars, dataVars, entryVars, answerVars, requestVars, Running
  <1>0. TypeOK /\ Staged /\ Orderly /\ Bytes
    BY DEF DurInv
  <1>1. /\ Len(landed) \in Nat /\ committed \in 0 .. Len(landed)
        /\ pc \in [Reqs -> Running \cup {"idle", "done", "dead"}]
        /\ job \in [Reqs -> Jobs \cup {None}]
        /\ mem \in [Inodes -> 0 .. 2]
        /\ disk \in [Inodes -> 0 .. 2]
        /\ \A k \in 1 .. Len(landed) : landed[k] \in Inodes
        /\ \A r \in Reqs : r \in Inodes
    BY <1>0 DEF TypeOK, Whole, Inodes
  <1>2. ASSUME UNCHANGED <<ordered, mem, disk, barred, landed, committed>>,
               \A i \in Inodes :
                 \/ Protected(i)' <=> Protected(i)
                 \/ \A k \in 1 .. Len(landed) : landed[k] # i,
               \A r \in Reqs : pc'[r] \in {"check", "install"} =>
                 pc[r] \in {"check", "install"} /\ (Protected(r)' <=> Protected(r))
        PROVE  Bytes'
    <2>1. \A i \in Inodes : (Protected(i)' <=> Protected(i)) => (Guarded(i) => Guarded(i)')
      BY <1>2 DEF Guarded, Ordered
    <2>2. \A k \in 1 .. Len(landed) : Protected(landed[k])' <=> Protected(landed[k])
      BY <1>1, <1>2
    <2>3. \A k \in 1 .. Len(landed) : Guarded(landed[k])'
      BY <1>0, <1>1, <1>2, <2>1 DEF Bytes
    <2>4. \A r \in Reqs : pc'[r] \in {"check", "install"} => Guarded(r)'
      BY <1>0, <1>1, <1>2, <2>1 DEF Bytes
    <2>5. (\A k \in 1 .. committed : Protected(landed[k]) => disk[landed[k]] = Whole)'
      BY <1>0, <1>1, <1>2, <2>2 DEF Bytes
    <2> QED
      BY <1>2, <2>3, <2>4, <2>5 DEF Bytes
  <1>3. ASSUME NEW r \in Reqs, Begin(r) PROVE Bytes'
    <2>1. \A k \in 1 .. Len(landed) : landed[k] # r
      BY <1>0, <1>3 DEF Orderly, Begin, Goto, Among
    <2> QED
      BY <1>1, <1>2, <1>3, <2>1 DEF Begin, Goto, Protected
  <1>4. ASSUME NEW r \in Reqs, Stage(r) PROVE Bytes'
    BY <1>1, <1>2, <1>4 DEF Stage, Goto, Protected
  <1>5. ASSUME NEW r \in Reqs, Write(r) PROVE Bytes'
    <2>1. \A k \in 1 .. Len(landed) : landed[k] # r
      BY <1>0, <1>5 DEF Orderly, Write, Goto, Among
    <2>2. \A i \in Inodes \ {r} : Guarded(i)' <=> Guarded(i)
      BY <1>1, <1>5 DEF Write, Guarded, Ordered, Protected
    <2>3. \A k \in 1 .. Len(landed) : Guarded(landed[k])'
      BY <1>0, <1>1, <1>5, <2>1, <2>2 DEF Bytes, Write
    <2>4. \A s \in Reqs : pc'[s] \in {"check", "install"} => Guarded(s)'
      BY <1>0, <1>1, <1>5, <2>2 DEF Bytes, Write, Goto
    <2> QED
      BY <1>0, <1>5, <2>3, <2>4 DEF Bytes, Write, Protected
  <1>6. ASSUME NEW r \in Reqs, Flush(r) PROVE Bytes'
    <2>1. \A k \in 1 .. Len(landed) : landed[k] # r
      BY <1>0, <1>6 DEF Orderly, Flush, Goto, Among
    <2>2. \A i \in Inodes \ {r} : Guarded(i)' <=> Guarded(i)
      BY <1>1, <1>6 DEF Flush, Guarded, Ordered, Protected
    <2>3. Guarded(r)'
      <3>1. mem[r] = Whole /\ job[r] \in Jobs
        BY <1>0, <1>1, <1>6 DEF Staged, Flush, Goto
      <3>2. job[r].mode \in {"full", "barrier", "none"}
        BY <3>1 DEF Jobs
      <3> QED
        BY <1>1, <1>6, <3>1, <3>2 DEF Flush, Guarded, Ordered, Protected
    <2>4. \A k \in 1 .. Len(landed) : Guarded(landed[k])'
      BY <1>0, <1>1, <1>6, <2>1, <2>2 DEF Bytes, Flush
    <2>5. \A s \in Reqs : pc'[s] \in {"check", "install"} => Guarded(s)'
      BY <1>0, <1>1, <1>6, <2>2, <2>3 DEF Bytes, Flush, Goto
    <2>6. \A i \in Inodes \ {r} : disk'[i] = disk[i] /\ (Protected(i)' <=> Protected(i))
      BY <1>1, <1>6 DEF Flush, Protected
    <2> QED
      BY <1>0, <1>1, <1>6, <2>1, <2>4, <2>5, <2>6 DEF Bytes, Flush
  <1>7. ASSUME NEW r \in Reqs, Refuse(r) PROVE Bytes'
    BY <1>1, <1>2, <1>7 DEF Refuse, Protected
  <1>8. ASSUME NEW r \in Reqs, Check(r) PROVE Bytes'
    BY <1>1, <1>2, <1>7, <1>8 DEF Check, Goto, Protected
  <1>9. ASSUME NEW r \in Reqs, Install(r) PROVE Bytes'
    <2>1. /\ Len(landed') = Len(landed) + 1
          /\ \A k \in 1 .. Len(landed) : landed'[k] = landed[k]
          /\ landed'[Len(landed')] = r
      BY <1>0, <1>9, Landing DEF Install
    <2>2. \A i \in Inodes : (Guarded(i)' <=> Guarded(i)) /\ (Protected(i)' <=> Protected(i))
      BY <1>9 DEF Install, Guarded, Ordered, Protected
    <2>3. Guarded(r)
      BY <1>0, <1>9 DEF Bytes, Install, Goto
    <2>4. \A k \in 1 .. Len(landed)' : landed'[k] \in Inodes /\ Guarded(landed'[k])
      BY <1>0, <1>1, <2>1, <2>3 DEF Bytes
    <2>5. \A s \in Reqs : pc'[s] \in {"check", "install"} => Guarded(s)'
      BY <1>0, <1>1, <1>9, <2>2 DEF Bytes, Install, Goto
    <2> QED
      BY <1>0, <1>1, <1>9, <2>1, <2>2, <2>4, <2>5 DEF Bytes, Install
  <1>10. ASSUME NEW r \in Reqs, SyncParent(r) PROVE Bytes'
    <2>1. \A i \in Inodes : (Protected(i)' <=> Protected(i)) /\ (Ordered(i)' <=> Ordered(i))
      BY <1>10 DEF SyncParent, Ordered, Protected
    <2>2. \A i \in Inodes : disk'[i] = disk[i] \/ disk'[i] = mem[i]
      BY <1>1, <1>10 DEF SyncParent
    <2>3. \A i \in Inodes : Guarded(i) => Guarded(i)'
      BY <1>1, <1>10, <2>1, <2>2 DEF Guarded, SyncParent, Whole
    <2>4. \A k \in 1 .. committed' : Protected(landed[k]) => disk'[landed[k]] = Whole
      <3> SUFFICES ASSUME NEW k \in 1 .. committed', Protected(landed[k])
                   PROVE  disk'[landed[k]] = Whole
        OBVIOUS
      <3>1. k \in 1 .. Len(landed) /\ landed[k] \in Inodes /\ Guarded(landed[k])
        BY <1>0, <1>1, <1>10 DEF SyncParent, Bytes
      <3>2. Among(landed[k], Len(landed))
        BY <3>1 DEF Among
      <3>3. CASE committed' = committed /\ disk' = disk
        BY <1>0, <3>3 DEF Bytes
      <3>4. CASE disk' = [i \in Inodes |->
                   IF Ordered(i) /\ Among(i, Len(landed)) THEN mem[i] ELSE disk[i]]
        BY <3>1, <3>2, <3>4 DEF Guarded
      <3> QED
        BY <1>10, <3>3, <3>4 DEF SyncParent
    <2>5. \A s \in Reqs : pc'[s] \in {"check", "install"} => pc[s] \in {"check", "install"}
      BY <1>1, <1>10 DEF SyncParent, Goto
    <2> QED
      BY <1>0, <1>1, <1>10, <2>1, <2>3, <2>4, <2>5 DEF Bytes, SyncParent
  <1>11. ASSUME NEW r \in Reqs, Answer(r) PROVE Bytes'
    BY <1>1, <1>2, <1>11 DEF Answer, Goto, Protected
  <1>12. ASSUME NEW i \in Inodes, WriteBack(i) PROVE Bytes'
    <2>1. mem[i] \in 0 .. 2 /\ disk[i] # Whole
      BY <1>1, <1>12 DEF WriteBack, Whole
    <2>2. \A j \in Inodes : disk[j] = Whole => disk'[j] = Whole
      BY <1>1, <1>12, <2>1 DEF WriteBack
    <2>3. \A j \in Inodes : Protected(j)' <=> Protected(j)
      BY <1>12 DEF WriteBack, Protected
    <2>4. \A j \in Inodes : Guarded(j) => Guarded(j)'
      BY <1>12, <2>2, <2>3 DEF WriteBack, Guarded, Ordered
    <2> QED
      BY <1>0, <1>1, <1>12, <2>2, <2>3, <2>4 DEF Bytes, WriteBack
  <1>13. CASE CommitEntry
    <2>1. \A j \in Inodes : (Protected(j)' <=> Protected(j)) /\ (Guarded(j)' <=> Guarded(j))
      BY <1>13 DEF CommitEntry, Protected, Guarded, Ordered
    <2>2. Protected(landed[committed']) => disk[landed[committed']] = Whole
      <3>1. committed' \in 1 .. Len(landed) /\ committed' = committed + 1
        BY <1>1, <1>13 DEF CommitEntry
      <3>2. Guarded(landed[committed'])
        BY <1>0, <3>1 DEF Bytes
      <3> QED
        BY <1>13, <3>1, <3>2 DEF CommitEntry, Guarded
    <2>3. \A k \in 1 .. committed' : Protected(landed[k]) => disk[landed[k]] = Whole
      <3>1. committed' = committed + 1
        BY <1>13 DEF CommitEntry
      <3>2. \A k \in 1 .. committed : Protected(landed[k]) => disk[landed[k]] = Whole
        BY <1>0 DEF Bytes
      <3>3. \A k \in 1 .. committed' : k \in 1 .. committed \/ k = committed'
        BY <1>1, <3>1
      <3> QED
        BY <2>2, <3>2, <3>3
    <2>4. committed' \in 1 .. Len(landed)
      BY <1>1, <1>13 DEF CommitEntry
    <2>5. \A k \in 1 .. Len(landed) : Guarded(landed[k])'
      BY <1>0, <1>1, <1>13, <2>1 DEF Bytes, CommitEntry
    <2>6. (\A k \in 1 .. committed : Protected(landed[k]) => disk[landed[k]] = Whole)'
      BY <1>1, <1>13, <2>1, <2>3, <2>4 DEF CommitEntry
    <2>7. \A r \in Reqs : pc[r] \in {"check", "install"} => Guarded(r)'
      BY <1>0, <1>1, <2>1 DEF Bytes
    <2> QED
      BY <1>13, <2>5, <2>6, <2>7 DEF CommitEntry, Bytes
  <1>14. CASE CommitParent
    BY <1>1, <1>2, <1>14 DEF CommitParent, Protected
  <1>15. CASE Kill
    BY <1>1, <1>2, <1>15 DEF Kill, Die, Protected
  <1>16. CASE PowerLoss
    <2>1. \A j \in Inodes : Protected(j)' <=> Protected(j)
      BY <1>16 DEF PowerLoss, Die, Protected
    <2>2. \A r \in Reqs : pc'[r] \notin {"check", "install"}
      BY <1>1, <1>16 DEF PowerLoss, Die
    <2>3. CASE landed' = <<>> /\ committed' = 0
      <3>1. Len(landed') = 0
        BY <2>3
      <3>2. \A k \in 1 .. 0 : FALSE
        OBVIOUS
      <3> QED
        BY <2>2, <2>3, <3>1, <3>2 DEF Bytes
    <2>4. CASE landed' = SubSeq(landed, 1, committed) /\ committed' = committed
      <3>1. Len(landed') = committed /\ \A k \in 1 .. committed : landed'[k] = landed[k]
        BY <1>0, <2>4, Losing
      <3>2. \A k \in 1 .. committed : landed[k] \in Inodes
        BY <1>1
      <3>3. mem' = disk /\ disk' = disk
        BY <1>16 DEF PowerLoss
      <3>4. \A j \in Inodes : (Protected(j) => disk[j] = Whole) => Guarded(j)'
        BY <2>1, <3>3 DEF Guarded
      <3>5. \A k \in 1 .. committed : Protected(landed[k]) => disk[landed[k]] = Whole
        BY <1>0 DEF Bytes
      <3>6. (\A k \in 1 .. Len(landed) : Guarded(landed[k]))'
        BY <3>1, <3>2, <3>4, <3>5
      <3>7. (\A k \in 1 .. committed : Protected(landed[k]) => disk[landed[k]] = Whole)'
        BY <2>1, <2>4, <3>1, <3>2, <3>3, <3>5
      <3> QED
        BY <2>2, <3>6, <3>7 DEF Bytes
    <2> QED
      BY <1>16, <2>3, <2>4 DEF PowerLoss
  <1>17. CASE UNCHANGED vars
    BY <1>1, <1>2, <1>17 DEF vars, Protected
  <1> QED
    BY <1>3, <1>4, <1>5, <1>6, <1>7, <1>8, <1>9, <1>10, <1>11, <1>12,
       <1>13, <1>14, <1>15, <1>16, <1>17 DEF Next, Step, LinkLoses, Fail

LEMMA DurInvHolds == Spec => []DurInv
  <1>1. DurInv /\ [Next]_vars => DurInv'
    BY TypeStep, StagedStep, OrderlyStep, KeptStep, BytesStep DEF DurInv
  <1> QED
    BY DurInit, <1>1, PTL DEF Spec

-----------------------------------------------------------------------------

(* Variables have their types (every variable of Durability).              *)
THEOREM DurabilityTypes == Spec => []TypeOK
  <1>1. DurInv => TypeOK
    BY DEF DurInv
  <1> QED
    BY <1>1, DurInvHolds, PTL

(* Whatever the power loss, platform and file system, a protected          *)
(* destination is never torn (the flush before rename or link).            *)
THEOREM NeverTorn == Spec => []DestinationIsWhole
  <1>1. ASSUME DurInv, Current # None, Protected(Current) PROVE mem[Current] = Whole
    <2>1. Len(landed) \in Nat /\ landed # <<>> /\ landed \in Seq(Inodes)
      BY <1>1 DEF DurInv, TypeOK, Current
    <2>2. Len(landed) \in 1 .. Len(landed)
      BY <2>1, EmptySeq
    <2> QED
      BY <1>1, <2>1, <2>2 DEF DurInv, Bytes, Guarded, Current
  <1>2. DurInv => DestinationIsWhole
    BY <1>1 DEF DestinationIsWhole
  <1> QED
    BY <1>2, DurInvHolds, PTL

(* What `full` promised survives (sync of the file, then of its parent).   *)
THEOREM FullSurvives == Spec => []FullSurvivesPowerLoss
  <1>1. ASSUME DurInv, NEW r \in durable PROVE Among(r, Len(landed))
    <2>1. r \in Reqs /\ Len(landed) \in Nat /\ committed \in 0 .. Len(landed)
      BY <1>1 DEF DurInv, TypeOK
    <2>2. Among(r, committed)
      BY <1>1, <2>1 DEF DurInv, Kept
    <2> QED
      BY <2>1, <2>2 DEF Among
  <1>2. DurInv => FullSurvivesPowerLoss
    BY <1>1 DEF FullSurvivesPowerLoss
  <1> QED
    BY <1>2, DurInvHolds, PTL

(* The state the log is seen through.                                      *)
Safe == IF parent = "stable" THEN committed ELSE 0

Answered == [r \in Reqs |-> IF r \in durable THEN "durable" ELSE reply[r]]

(* Every step is a step of the log, or none.                               *)
LEMMA StepIsLogged == DurInv /\ DurInv' /\ [Next]_vars => [Register!Next]_(Register!vars)
  <1> SUFFICES ASSUME DurInv, DurInv', [Next]_vars PROVE [Register!Next]_(Register!vars)
    OBVIOUS
  <1> USE DEF fixedVars, dataVars, entryVars, answerVars, requestVars, Running
  <1>0. /\ TypeOK /\ TypeOK' /\ Orderly /\ Kept
        /\ Len(landed) \in Nat /\ committed \in 0 .. Len(landed)
        /\ Len(landed') \in Nat /\ committed' \in 0 .. Len(landed')
        /\ reply \in [Reqs -> {"none", "ok", "error"}]
    <2>1. TypeOK /\ TypeOK' /\ Orderly /\ Kept
      BY DEF DurInv
    <2>2. landed \in Seq(Inodes) /\ landed' \in Seq(Inodes)
      BY <2>1 DEF TypeOK
    <2> QED
      BY <2>1, <2>2, SMTT(30) DEF TypeOK
  <1>1. \A r \in Reqs, n \in Nat : Register!Among(r, n) <=> Among(r, n)
    BY DEF Among, Register!Among
  <1>2. ASSUME UNCHANGED <<landed, committed, parent, reply, durable>>
        PROVE  UNCHANGED Register!vars
    BY <1>2 DEF Register!vars
  <1>3. ASSUME NEW r \in Reqs, NEW a \in {"error", "ok", "durable"},
               UNCHANGED <<landed, committed, parent>>,
               Answered[r] = "none",
               Answered' = [Answered EXCEPT ![r] = a],
               a = "ok"      => Among(r, Len(landed)),
               a = "durable" => Among(r, Safe),
               a = "error"   => ~Among(r, Len(landed))
        PROVE  Register!Next
    <2>1. Safe \in Nat
      BY <1>0 DEF Safe
    <2>2. Register!Answer(r, a)
      BY <1>0, <1>1, <1>3, <2>1 DEF Register!Answer, Answered, Safe
    <2> QED
      BY <2>2 DEF Register!Next
  <1>4. ASSUME UNCHANGED <<landed, reply, durable>>,
               IF parent' = "stable" THEN Safe <= committed' /\ committed' <= Len(landed) ELSE Safe = 0
        PROVE  [Register!Next]_(Register!vars)
    <2>1. Safe' \in Safe .. Len(landed)
      BY <1>0, <1>4 DEF Safe
    <2>2. Register!Harden
      BY <1>4, <2>1 DEF Register!Harden, Safe
    <2> QED
      BY <2>2 DEF Register!Next
  <1>5. ASSUME NEW r \in Reqs, Refuse(r),
               pc[r] \in {"lock", "check", "write", "flush", "install"}
        PROVE  Register!Next
    <2>1. reply[r] = "none" /\ r \notin durable /\ ~Among(r, Len(landed))
      BY <1>0, <1>5 DEF Orderly
    <2>2. Answered[r] = "none" /\ Answered' = [Answered EXCEPT ![r] = "error"]
      BY <1>0, <1>5, <2>1 DEF Refuse, Answered
    <2> QED
      BY <1>3, <1>5, <2>1, <2>2 DEF Refuse
  <1>6. ASSUME NEW r \in Reqs, Answer(r) PROVE Register!Next
    <2>1. reply[r] = "none" /\ r \notin durable /\ Among(r, Len(landed))
      BY <1>0, <1>6 DEF Orderly, Answer, Goto
    <2>2. CASE Synced(r) /\ parent = "stable"
      <3>1. Among(r, Safe)
        BY <1>0, <1>6, <2>2 DEF Kept, Answer, Goto, Safe
      <3>2. Answered[r] = "none" /\ Answered' = [Answered EXCEPT ![r] = "durable"]
        BY <1>0, <1>6, <2>1, <2>2 DEF Answer, Answered
      <3> QED
        BY <1>3, <1>6, <3>1, <3>2 DEF Answer
    <2>3. CASE ~(Synced(r) /\ parent = "stable")
      <3>1. Answered[r] = "none" /\ Answered' = [Answered EXCEPT ![r] = "ok"]
        BY <1>0, <1>6, <2>1, <2>3 DEF Answer, Answered
      <3> QED
        BY <1>3, <1>6, <2>1, <3>1 DEF Answer
    <2> QED
      BY <2>2, <2>3
  <1>7. ASSUME NEW r \in Reqs, Install(r) PROVE Register!Next
    <2>1. reply[r] = "none" /\ r \notin durable
      BY <1>0, <1>7 DEF Orderly, Install, Goto
    <2>2. Register!Land(r)
      BY <1>7, <2>1 DEF Register!Land, Install
    <2> QED
      BY <2>2 DEF Register!Next
  <1>8. ASSUME NEW r \in Reqs, SyncParent(r) PROVE [Register!Next]_(Register!vars)
    BY <1>0, <1>4, <1>8 DEF SyncParent, Safe
  <1>9. CASE CommitEntry
    BY <1>0, <1>4, <1>9 DEF CommitEntry, Safe
  <1>10. CASE CommitParent
    BY <1>0, <1>4, <1>10 DEF CommitParent, Safe
  <1>11. CASE PowerLoss
    <2>1. landed' = SubSeq(landed, 1, Safe) /\ Safe' = Safe
      <3>1. SubSeq(landed, 1, 0) = <<>>
        BY SubSeqEmpty
      <3> QED
        BY <1>11, <3>1 DEF PowerLoss, Safe
    <2>2. Register!PowerLoss
      BY <1>11, <2>1 DEF Register!PowerLoss, PowerLoss, Die, Safe
    <2> QED
      BY <2>2 DEF Register!Next
  <1>12. CASE Kill
    BY <1>2, <1>12 DEF Kill, Die
  <1>13. CASE \E i \in Inodes : WriteBack(i)
    BY <1>2, <1>13 DEF WriteBack
  <1>14. ASSUME NEW r \in Reqs, Begin(r) \/ Stage(r) \/ Write(r) \/ Flush(r)
         PROVE  [Register!Next]_(Register!vars)
    <2>1. CASE Stage(r)
      BY <1>0, <1>4, <2>1 DEF Stage, Safe
    <2> QED
      BY <1>2, <1>14, <2>1 DEF Begin, Write, Flush
  <1>15. ASSUME NEW r \in Reqs, Check(r) \/ LinkLoses(r) \/ Fail(r)
         PROVE  [Register!Next]_(Register!vars)
    BY <1>2, <1>5, <1>15 DEF Check, LinkLoses, Fail
  <1>16. CASE UNCHANGED vars
    BY <1>2, <1>16 DEF vars
  <1> QED
    BY <1>6, <1>7, <1>8, <1>9, <1>10, <1>11, <1>12, <1>13, <1>14, <1>15, <1>16 DEF Next, Step

(* The destination is a log of which a power loss cuts what is not safe    *)
(* (persist.rs against docs/protocol.md R019).                             *)
THEOREM IsADurableRegister == Spec => ImplementsDurableRegister
  <1>1. Init => Register!Init
    <2> SUFFICES ASSUME Init PROVE Register!Init
      OBVIOUS
    <2>1. landed \in {<<>>, <<Old>>} /\ committed = Len(landed)
      BY DEF Init
    <2>2. Safe = Len(landed)
      BY <2>1 DEF Init, Safe
    <2> QED
      BY <2>1, <2>2 DEF Init, Register!Init, Safe
  <1> QED
    BY <1>1, StepIsLogged, DurInvHolds, PTL DEF Spec, ImplementsDurableRegister, Register!Spec

===============================================================================
