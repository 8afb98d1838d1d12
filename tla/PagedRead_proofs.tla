---------------------------- MODULE PagedRead_proofs ----------------------------
(***************************************************************************)
(* Proofs about PagedRead, for any contents, page limits and interference. *)
(***************************************************************************)
EXTENDS PagedRead, SequenceTheorems, TLAPS

(* The two parts of PagesAreOneSnapshot.                                   *)
LinesAreConsecutive ==
  \A k \in 1 .. Len(collected) : collected[k] = <<header.version, first + k - 1>>

FooterIsTheNextLine ==
  collected # <<>> =>
    LET t == TextOf[header.version] last == first + Len(collected) - 1 IN
    IF footer = None THEN last = LineCount(t)
    ELSE /\ footer.snapshot = header
         /\ last < LineCount(t)
         /\ footer.next = PositionOf(t, last)

ReadInv ==
  /\ version \in Versions \cup {Gone}
  /\ seed \in 0 .. MaxRestarts
  /\ collected # <<>> => header \in Identity
  /\ collected \in Seq(Versions \X Nat)
  /\ first \in Nat
  /\ footer # None => collected # <<>> /\ footer.snapshot = header
  /\ LinesAreConsecutive
  /\ FooterIsTheNextLine

(* What the pager promises of a page r that starts at line `start`: its    *)
(* lines are consecutive, and its footer names the line after the last.    *)
IsPageFrom(r, start) ==
  /\ r.from = start
  /\ r.to \in start .. LineCount(Text)
  /\ r.footer = NextCursor(r.to)
  /\ Lines(r) \in Seq(Versions \X Nat)
  /\ Len(Lines(r)) = r.to - start + 1
  /\ \A k \in 1 .. Len(Lines(r)) : Lines(r)[k] = <<version, start + k - 1>>

(* render_snapshot_page keeps that promise.                                *)
LEMMA PageShape ==
  ASSUME version \in Versions, NEW start \in 1 .. LineCount(Text), NEW limit \in Nat, limit >= 1
  PROVE  IsPageFrom(Page(start, limit), start)
  <1> DEFINE r == Page(start, limit)
  <1>1. LineCount(Text) \in Nat
    BY ReadAssumption DEF Text, LineCount, IsText
  <1>2. r.from = start /\ r.to = LastLine(start, limit) /\ r.footer = NextCursor(r.to)
    BY DEF Page
  <1>3. r.to \in start .. LineCount(Text)
    BY <1>1, <1>2 DEF LastLine
  <1>4. Lines(r) = [k \in 1 .. r.to - start + 1 |-> <<version, start + k - 1>>]
    BY <1>2 DEF Lines
  <1>5. r.to - start + 1 \in Nat /\ \A k \in 1 .. r.to - start + 1 : start + k - 1 \in Nat
    BY <1>1, <1>3
  <1>6. Lines(r) \in Seq(Versions \X Nat) /\ Len(Lines(r)) = r.to - start + 1
    BY <1>4, <1>5, SMTT(20)
  <1> QED
    BY <1>2, <1>3, <1>4, <1>6 DEF IsPageFrom

(* A footer names the current snapshot and the line after the page.        *)
LEMMA NextCursorShape ==
  ASSUME version \in Versions, seed \in 0 .. MaxRestarts, NEW last \in Nat
  PROVE  /\ last < LineCount(Text) => /\ NextCursor(last) # None
                                      /\ NextCursor(last).snapshot = Current
                                      /\ NextCursor(last).next = PositionOf(Text, last)
         /\ ~(last < LineCount(Text)) => NextCursor(last) = None
  <1>1. CASE last < LineCount(Text)
    <2>1. IsText(Text)
      BY ReadAssumption DEF Text
    <2>2. ByteAt(Text, last) \in Nat
      BY <1>1, <2>1 DEF ByteAt, IsText, LineCount
    <2>3. [snapshot |-> Current, next |-> PositionOf(Text, last)] \in Cursor
      BY <2>2 DEF Cursor, Identity, Current, PositionOf
    <2> QED
      BY <1>1, <2>3, ReadAssumption DEF NextCursor
  <1>2. CASE ~(last < LineCount(Text))
    BY <1>2 DEF NextCursor
  <1> QED
    BY <1>1, <1>2

(* What a page says of the read it belongs to.                             *)
LEMMA FirstPageStep ==
  ASSUME ReadInv, NEW start \in StartLines \cup {None}, NEW limit \in Limits,
         FirstPage(start, limit)
  PROVE  ReadInv'
  <1> DEFINE r == Answer(None, start, limit)
  <1> DEFINE s == IF start = None THEN 1 ELSE start
  <1>1. CASE r.code # "ok"
    BY <1>1 DEF FirstPage, sessionVars, worldVars, ReadInv, LinesAreConsecutive, FooterIsTheNextLine
  <1>2. CASE r.code = "ok"
    <2>1. /\ limit \in Nat /\ limit >= 1 /\ s \in Nat /\ s >= 1 /\ version \in Versions
          /\ r = StartAnswer(s, limit)
      <3>1. /\ ~(limit = 0 \/ limit > MaxPageLines \/ start = 0)
            /\ version # Gone
        BY <1>2 DEF Answer, Refusal
      <3>2. r = StartAnswer(s, limit)
        BY <3>1 DEF Answer
      <3>3. limit \in Nat /\ (start # None => start \in Nat)
        BY ReadAssumption
      <3> HIDE DEF r
      <3> QED
        BY <3>1, <3>2, <3>3 DEF ReadInv
    <2>2. /\ first' = s /\ header' = Current /\ collected' = Lines(r) /\ footer' = r.footer
          /\ version' = version /\ seed' = seed
      BY <1>2 DEF FirstPage, worldVars
    <2> HIDE DEF r, s
    <2>3. LineCount(Text) \in Nat
      BY <2>1, ReadAssumption DEF Text, LineCount, IsText
    <2>4. Current \in Identity
      BY <2>1 DEF Current, Identity, ReadInv
    <2>5. CASE s > LineCount(Text)
      <3>1. r.from = 1 /\ r.to = 0 /\ r.footer = None
        BY <2>1, <2>5 DEF StartAnswer, Refusal
      <3>2. collected' = <<>>
        BY <2>2, <3>1 DEF Lines
      <3> QED
        BY <2>1, <2>2, <2>4, <3>1, <3>2 DEF ReadInv, LinesAreConsecutive, FooterIsTheNextLine
    <2>6. CASE ~(s > LineCount(Text))
      <3>1. s \in 1 .. LineCount(Text) /\ r = Page(s, limit)
        BY <2>1, <2>3, <2>6 DEF StartAnswer
      <3>2. /\ r.to \in s .. LineCount(Text) /\ r.footer = NextCursor(r.to)
            /\ Lines(r) \in Seq(Versions \X Nat) /\ Len(Lines(r)) = r.to - s + 1
            /\ \A k \in 1 .. Len(Lines(r)) : Lines(r)[k] = <<version, s + k - 1>>
        <4>1. version \in Versions /\ limit \in Nat /\ limit >= 1
          BY <2>1
        <4>2. IsPageFrom(Page(s, limit), s)
          BY <3>1, <4>1, PageShape
        <4>3. IsPageFrom(r, s)
          BY <3>1, <4>2
        <4> QED
          BY <4>3 DEF IsPageFrom
      <3>3. collected' # <<>> /\ first' + Len(collected') - 1 = r.to /\ r.to \in Nat
        BY <2>1, <2>2, <2>3, <3>1, <3>2
      <3>4. /\ r.to < LineCount(Text) => /\ footer' # None /\ footer'.snapshot = Current
                                         /\ footer'.next = PositionOf(Text, r.to)
            /\ ~(r.to < LineCount(Text)) => footer' = None
        BY <2>1, <2>2, <3>2, <3>3, NextCursorShape DEF ReadInv
      <3>5. TextOf[header'.version] = Text /\ header'.version = version
        BY <2>2 DEF Text, Current
      <3>6. LinesAreConsecutive'
        BY <2>2, <3>2, <3>5 DEF LinesAreConsecutive
      <3>7. FooterIsTheNextLine'
        BY <2>2, <2>3, <3>2, <3>3, <3>4, <3>5 DEF FooterIsTheNextLine
      <3> QED
        BY <2>1, <2>2, <2>4, <3>2, <3>3, <3>4, <3>6, <3>7 DEF ReadInv
    <2> QED
      BY <2>5, <2>6
  <1> QED
    BY <1>1, <1>2

LEMMA NextPageStep ==
  ASSUME ReadInv, NEW limit \in Limits, NextPage(limit)
  PROVE  ReadInv'
  <1> DEFINE r == Answer(footer, None, limit)
  <1>1. CASE r.code # "ok"
    BY <1>1 DEF NextPage, sessionVars, worldVars, ReadInv, LinesAreConsecutive, FooterIsTheNextLine
  <1>2. CASE r.code = "ok"
    <2> DEFINE s == footer.next.line
    <2>1. /\ limit \in Nat /\ limit >= 1 /\ version \in Versions
          /\ r = CursorAnswer(footer, limit)
      <3>1. limit # 0 /\ version # Gone /\ footer # None
        BY <1>2 DEF Answer, Refusal, NextPage
      <3>2. r = CursorAnswer(footer, limit)
        BY <1>2, <3>1 DEF Answer, Refusal
      <3>3. limit \in Nat
        BY ReadAssumption
      <3> HIDE DEF r
      <3> QED
        BY <3>1, <3>2, <3>3 DEF ReadInv
    <2>2. footer.snapshot = Current /\ r = Page(s, limit)
      BY <1>2, <2>1 DEF CursorAnswer, Conflict, Refusal
    <2>3. /\ footer # None /\ collected # <<>> /\ collected \in Seq(Versions \X Nat)
          /\ first \in Nat
          /\ collected' = collected \o Lines(r) /\ footer' = r.footer
          /\ UNCHANGED <<first, header, version, seed>>
      BY <1>2 DEF NextPage, worldVars, ReadInv
    <2> HIDE DEF r
    <2>4. header = Current /\ header.version = version /\ TextOf[header.version] = Text
      BY <2>2, <2>3 DEF ReadInv, Current, Text
    <2>5. LineCount(Text) \in Nat /\ Len(collected) \in Nat
      BY <2>1, <2>3, ReadAssumption DEF Text, LineCount, IsText
    <2>6. s = first + Len(collected) /\ s \in 1 .. LineCount(Text)
      <3>1. /\ first + Len(collected) - 1 < LineCount(Text)
            /\ footer.next = PositionOf(Text, first + Len(collected) - 1)
        BY <2>3, <2>4 DEF ReadInv, FooterIsTheNextLine
      <3>2. s = first + Len(collected)
        BY <2>3, <2>5, <3>1 DEF PositionOf
      <3>3. Len(collected) >= 1
        BY <2>3, <2>5
      <3> HIDE DEF s
      <3> QED
        BY <2>3, <2>5, <3>1, <3>2, <3>3
    <2> HIDE DEF s
    <2>7. /\ r.to \in s .. LineCount(Text) /\ r.footer = NextCursor(r.to)
          /\ Lines(r) \in Seq(Versions \X Nat) /\ Len(Lines(r)) = r.to - s + 1
          /\ \A k \in 1 .. Len(Lines(r)) : Lines(r)[k] = <<version, s + k - 1>>
      <3>1. version \in Versions /\ limit \in Nat /\ limit >= 1
        BY <2>1
      <3>2. s \in 1 .. LineCount(Text)
        BY <2>6
      <3>3. IsPageFrom(Page(s, limit), s)
        BY <3>1, <3>2, PageShape
      <3>4. IsPageFrom(r, s)
        BY <2>2, <3>3
      <3> QED
        BY <3>4 DEF IsPageFrom
    <2>8. /\ collected' \in Seq(Versions \X Nat)
          /\ Len(collected') = Len(collected) + Len(Lines(r))
          /\ \A k \in 1 .. Len(collected') :
               collected'[k] = IF k <= Len(collected) THEN collected[k]
                                                     ELSE Lines(r)[k - Len(collected)]
      <3>1. Lines(r) \in Seq(Versions \X Nat)
        BY <2>7
      <3> QED
        BY <2>3, <3>1, ConcatProperties
    <2>9. collected' # <<>> /\ first' + Len(collected') - 1 = r.to /\ r.to \in Nat
      BY <2>3, <2>5, <2>6, <2>7, <2>8, SMTT(30)
    <2>10. /\ r.to < LineCount(Text) => /\ footer' # None /\ footer'.snapshot = Current
                                        /\ footer'.next = PositionOf(Text, r.to)
           /\ ~(r.to < LineCount(Text)) => footer' = None
      BY <2>1, <2>3, <2>7, <2>9, NextCursorShape DEF ReadInv
    <2>11. LinesAreConsecutive'
      <3> SUFFICES ASSUME NEW k \in 1 .. Len(collected')
                   PROVE  collected'[k] = <<header.version, first + k - 1>>
        BY <2>3 DEF LinesAreConsecutive
      <3>1. CASE k <= Len(collected)
        <4>1. k \in 1 .. Len(collected) /\ collected'[k] = collected[k]
          BY <2>5, <2>8, <3>1
        <4> QED
          BY <4>1 DEF ReadInv, LinesAreConsecutive
      <3>2. CASE ~(k <= Len(collected))
        <4>1. k - Len(collected) \in 1 .. Len(Lines(r))
          BY <2>5, <2>7, <2>8, <2>6, <3>2, SMTT(30)
        <4>2. collected'[k] = <<version, s + (k - Len(collected)) - 1>>
          BY <2>7, <2>8, <3>2, <4>1
        <4>3. s + (k - Len(collected)) - 1 = first + k - 1
          BY <2>3, <2>5, <2>6, <4>1
        <4> QED
          BY <2>4, <4>2, <4>3
      <3> QED
        BY <3>1, <3>2
    <2>12. FooterIsTheNextLine'
      BY <2>3, <2>4, <2>5, <2>7, <2>9, <2>10 DEF FooterIsTheNextLine
    <2> QED
      BY <2>1, <2>3, <2>4, <2>8, <2>9, <2>10, <2>11, <2>12 DEF ReadInv
  <1> QED
    BY <1>1, <1>2

LEMMA ReadStep == ReadInv /\ [Next]_vars => ReadInv'
  <1> SUFFICES ASSUME ReadInv, [Next]_vars
               PROVE  ReadInv'
    OBVIOUS
  <1>1. ASSUME NEW start \in StartLines \cup {None}, NEW limit \in Limits, FirstPage(start, limit)
        PROVE  ReadInv'
    BY <1>1, FirstPageStep
  <1>2. ASSUME NEW limit \in Limits, NextPage(limit)
        PROVE  ReadInv'
    BY <1>2, NextPageStep
  <1>3. ASSUME UNCHANGED sessionVars, version' \in Versions \cup {Gone}, seed' \in 0 .. MaxRestarts
        PROVE  ReadInv'
    BY <1>3 DEF sessionVars, ReadInv, LinesAreConsecutive, FooterIsTheNextLine
  <1>4. ASSUME NEW id, NEW p, NEW start, NEW limit, OtherCursor(id, p, start, limit)
        PROVE  ReadInv'
    BY <1>3, <1>4 DEF OtherCursor, worldVars, ReadInv
  <1>5. ASSUME NEW v \in Versions \cup {Gone}, Change(v)
        PROVE  ReadInv'
    BY <1>3, <1>5 DEF Change, ReadInv
  <1>6. CASE Restart
    <2>1. seed' \in 0 .. MaxRestarts
      BY <1>6, ReadAssumption DEF Restart, ReadInv
    <2> QED
      BY <1>3, <1>6, <2>1 DEF Restart, ReadInv
  <1>7. CASE UNCHANGED vars
    BY <1>3, <1>7 DEF vars, sessionVars, ReadInv
  <1> QED
    BY <1>1, <1>2, <1>4, <1>5, <1>6, <1>7 DEF Next

LEMMA ReadInvHolds == Spec => []ReadInv
  <1>1. Init => ReadInv
    BY ReadAssumption DEF Init, ReadInv, LinesAreConsecutive, FooterIsTheNextLine
  <1> QED
    BY <1>1, ReadStep, PTL DEF Spec

(* The pages a client strings together by their footers are one snapshot,  *)
(* from the line it asked for to the line before the footer, or to the end *)
(* when there is none, for every text, page size and interference.         *)
THEOREM PagesMakeOneSnapshot == Spec => []PagesAreOneSnapshot
  <1>1. ReadInv => PagesAreOneSnapshot
    BY DEF ReadInv, LinesAreConsecutive, FooterIsTheNextLine, PagesAreOneSnapshot
  <1> QED
    BY <1>1, ReadInvHolds, PTL

-----------------------------------------------------------------------------

(* R011: the context of a conflict is the window around the line asked     *)
(* for, whatever became of the text.                                       *)
LEMMA ContextIsCentered ==
  ASSUME version \in Versions, NEW line \in Nat \ {0}
  PROVE  LET n == LineCount(Text)
             center == IF line > n THEN n ELSE line
         IN  Context(Text, line) = {k \in 1 .. n : k - center \in -2 .. 2}
  <1> DEFINE n == LineCount(Text)
  <1> DEFINE center == IF line > n THEN n ELSE line
  <1>1. n \in Nat \ {0}
    BY ReadAssumption DEF Text, LineCount, IsText
  <1>2. center \in 1 .. n
    BY <1>1
  <1>3. Context(Text, line) =
          LET last  == IF center + 2 < n THEN center + 2 ELSE n
              first_ == IF center - 2 > 1 THEN center - 2 ELSE 1
              low   == IF last - 4 > 1 THEN last - 4 ELSE 1
          IN  (IF first_ > low THEN first_ ELSE low) .. last
    BY <1>1 DEF Context
  <1> HIDE DEF n, center
  <1>4. Context(Text, line) = {k \in 1 .. n : k - center \in -2 .. 2}
    BY <1>1, <1>2, <1>3
  <1> QED
    BY <1>4 DEF n, center

(* Every footer is a cursor.                                               *)
LEMMA FooterIsACursor ==
  ASSUME version \in Versions, seed \in 0 .. MaxRestarts, NEW last \in Nat
  PROVE  NextCursor(last) \in Cursor \cup {None}
  <1>1. CASE last < LineCount(Text)
    <2>1. IsText(Text)
      BY ReadAssumption DEF Text
    <2>2. ByteAt(Text, last) \in Nat
      BY <1>1, <2>1 DEF ByteAt, IsText, LineCount
    <2> QED
      BY <1>1, <2>2 DEF NextCursor, Cursor, Identity, Current, PositionOf
  <1> QED
    BY <1>1 DEF NextCursor

(* What an answer is made of, and when it is a conflict.                   *)
LEMMA AnswerShape ==
  ASSUME version \in Versions \cup {Gone}, seed \in 0 .. MaxRestarts,
         NEW c \in Cursor \cup {None}, c # None => c.next.line # 0,
         NEW start \in Nat \cup {None}, NEW limit \in Limits,
         NEW r, r = Answer(c, start, limit)
  PROVE  /\ r.code \in Codes
         /\ r.footer \in Cursor \cup {None}
         /\ c # None /\ r.code \notin {"invalid_request", "unreadable"} =>
              /\ version \in Versions
              /\ r.code = "snapshot_conflict" <=> c.snapshot # Current
              /\ r.code = "snapshot_conflict" => r.context = Context(Text, c.next.line)
  <1>1. \A code : /\ Refusal(code).code = code
                  /\ Refusal(code).footer = None
    BY DEF Refusal
  <1>2. CASE r.code \in {"invalid_request", "unreadable"} /\ r = Refusal(r.code)
    BY <1>1, <1>2 DEF Codes
  <1>3. CASE version \in Versions /\ limit # 0 /\ start # 0
             /\ (c # None => start = None /\ r = CursorAnswer(c, limit))
             /\ (c = None => r = StartAnswer(IF start = None THEN 1 ELSE start, limit))
    <2>1. limit \in Nat /\ limit >= 1 /\ LineCount(Text) \in Nat
      BY <1>3, ReadAssumption DEF Text, LineCount, IsText
    <2>2. ASSUME NEW s \in Nat, s >= 1, ~(s > LineCount(Text))
          PROVE  Page(s, limit).code = "ok" /\ Page(s, limit).footer \in Cursor \cup {None}
      <3>1. LastLine(s, limit) \in Nat
        BY <2>1, <2>2 DEF LastLine
      <3> QED
        BY <1>3, <3>1, FooterIsACursor DEF Page
    <2>3. CASE c = None
      BY <1>1, <1>3, <2>2, <2>3 DEF StartAnswer, Codes
    <2>4. CASE c # None
      <3>1. c \in Cursor /\ c.next.line \in Nat /\ c.next.line >= 1
        BY <2>4 DEF Cursor
      <3>2. CASE c.snapshot # Current
        BY <1>3, <2>4, <3>2 DEF CursorAnswer, Conflict, Refusal, Codes
      <3>3. CASE c.snapshot = Current /\ r = Refusal("invalid_position")
        BY <1>1, <1>3, <3>3 DEF Codes
      <3>4. CASE c.snapshot = Current /\ c.next.line <= LineCount(Text) /\ r = Page(c.next.line, limit)
        BY <1>3, <2>1, <2>2, <3>1, <3>4 DEF Codes
      <3> QED
        BY <1>3, <2>1, <2>4, <3>1, <3>2, <3>3, <3>4 DEF CursorAnswer
    <2> QED
      BY <2>3, <2>4
  <1> QED
    BY <1>1, <1>2, <1>3 DEF Answer

CursorInv == TypeOK /\ StaleCursorsConflict

(* A reply to a cursor, with what it says of the snapshot.                 *)
LEMMA ReplyStep ==
  ASSUME ReadInv, CursorInv, UNCHANGED <<version, seed>>,
         NEW c \in Cursor \cup {None}, c # None => c.next.line # 0,
         NEW start \in Nat \cup {None}, NEW limit \in Limits,
         asked' = c, reply' = Answer(c, start, limit)
  PROVE  /\ reply'.code \in Codes
         /\ reply'.footer \in Cursor \cup {None}
         /\ StaleCursorsConflict'
  <1>1. version \in Versions \cup {Gone} /\ seed \in 0 .. MaxRestarts
    BY DEF ReadInv
  <1>2. /\ reply'.code \in Codes
        /\ reply'.footer \in Cursor \cup {None}
        /\ c # None /\ reply'.code \notin {"invalid_request", "unreadable"} =>
             /\ version \in Versions
             /\ reply'.code = "snapshot_conflict" <=> c.snapshot # Current
             /\ reply'.code = "snapshot_conflict" => reply'.context = Context(Text, c.next.line)
    BY <1>1, AnswerShape
  <1>3. c # None => c.next.line \in Nat \ {0}
    BY DEF Cursor
  <1>4. CASE c # None /\ reply'.code = "snapshot_conflict"
    BY <1>2, <1>3, <1>4, ContextIsCentered DEF StaleCursorsConflict, Current, Text, LineCount
  <1> QED
    BY <1>2, <1>4 DEF StaleCursorsConflict, Current

(* A footer, which is the cursor the client sends back, names a line.      *)
LEMMA FootersNameLines == ReadInv /\ footer # None => footer.next.line # 0
  <1> SUFFICES ASSUME ReadInv, footer # None PROVE footer.next.line # 0
    OBVIOUS
  <1>1. /\ collected # <<>> /\ collected \in Seq(Versions \X Nat) /\ first \in Nat
        /\ footer.next = PositionOf(TextOf[header.version], first + Len(collected) - 1)
    BY DEF ReadInv, FooterIsTheNextLine
  <1>2. Len(collected) \in Nat /\ Len(collected) >= 1
    BY <1>1
  <1> QED
    BY <1>1, <1>2 DEF PositionOf

LEMMA CursorStep == ReadInv /\ ReadInv' /\ CursorInv /\ [Next]_vars => CursorInv'
  <1> SUFFICES ASSUME ReadInv, ReadInv', CursorInv, [Next]_vars
               PROVE  CursorInv'
    OBVIOUS
  <1> USE ReadAssumption DEF sessionVars, worldVars
  <1>0. TypeOK /\ StaleCursorsConflict
    BY DEF CursorInv
  <1>1. ASSUME NEW start \in StartLines \cup {None}, NEW limit \in Limits, FirstPage(start, limit)
        PROVE  CursorInv'
    <2>1. /\ reply'.code \in Codes /\ reply'.footer \in Cursor \cup {None}
          /\ StaleCursorsConflict'
      BY <1>0, <1>1, ReplyStep DEF FirstPage, CursorInv
    <2>2. header' \in Identity \cup {None}
      <3>1. CASE reply'.code = "ok"
        <4>1. version \in Versions /\ header' = Current
          BY <1>1, <3>1 DEF FirstPage, Answer, Refusal, ReadInv
        <4> QED
          BY <4>1 DEF Current, Identity, ReadInv
      <3> QED
        BY <1>0, <1>1, <3>1 DEF FirstPage, TypeOK
    <2>3. footer' \in Cursor \cup {None} /\ asked' \in Cursor \cup {None}
      BY <1>0, <1>1, <2>1 DEF FirstPage, TypeOK
    <2> QED
      BY <1>0, <1>1, <2>1, <2>2, <2>3 DEF FirstPage, CursorInv, TypeOK, ReadInv
  <1>2. ASSUME NEW limit \in Limits, NextPage(limit) PROVE CursorInv'
    <2>1. /\ reply'.code \in Codes /\ reply'.footer \in Cursor \cup {None}
          /\ StaleCursorsConflict'
      <3>1. footer \in Cursor \cup {None} /\ footer.next.line # 0
        BY <1>0, <1>2, FootersNameLines DEF NextPage, TypeOK
      <3> QED
        BY <1>0, <1>2, <3>1, ReplyStep DEF NextPage, CursorInv
    <2>2. footer' \in Cursor \cup {None} /\ asked' \in Cursor \cup {None}
      BY <1>0, <1>2, <2>1 DEF NextPage, TypeOK
    <2> QED
      BY <1>0, <1>2, <2>1, <2>2 DEF NextPage, CursorInv, TypeOK, ReadInv
  <1>3. ASSUME NEW v \in Versions, NEW d \in 0 .. seed, NEW p \in HandMade, NEW limit \in Limits,
               NEW start \in {1, None},
               OtherCursor([version |-> v, seed |-> d], p, start, limit)
        PROVE  CursorInv'
    <2> DEFINE c == [snapshot |-> [version |-> v, seed |-> d], next |-> p]
    <2>1. d \in 0 .. MaxRestarts
      BY DEF ReadInv
    <2>2. c \in Cursor /\ c.next.line # 0
      BY <2>1 DEF Cursor, Identity
    <2>3. asked' = c /\ reply' = Answer(c, start, limit) /\ UNCHANGED <<sessionVars, worldVars>>
      BY <1>3 DEF OtherCursor
    <2> HIDE DEF c
    <2>4. reply'.code \in Codes /\ StaleCursorsConflict'
      BY <1>0, <2>2, <2>3, ReplyStep DEF CursorInv
    <2> QED
      BY <1>0, <2>2, <2>3, <2>4 DEF CursorInv, TypeOK
  <1>4. ASSUME NEW v \in Versions \cup {Gone}, Change(v) PROVE CursorInv'
    <2>1. changes' \in 0 .. MaxChanges
      BY <1>0, <1>4 DEF Change, TypeOK
    <2> QED
      BY <1>0, <1>4, <2>1 DEF Change, CursorInv, TypeOK, StaleCursorsConflict, Refusal, Codes
  <1>5. CASE Restart
    <2>1. seed' \in 0 .. MaxRestarts
      BY DEF ReadInv
    <2> QED
      BY <1>0, <1>5, <2>1 DEF Restart, CursorInv, TypeOK, StaleCursorsConflict, Refusal, Codes
  <1>6. CASE UNCHANGED vars
    BY <1>0, <1>6 DEF vars, CursorInv, TypeOK, StaleCursorsConflict, Current, Text
  <1> HIDE ReadAssumption DEF sessionVars, worldVars
  <1> QED
    BY <1>1, <1>2, <1>3, <1>4, <1>5, <1>6 DEF Next

LEMMA CursorInvHolds == Spec => []CursorInv
  <1>1. Init => CursorInv
    BY ReadAssumption DEF Init, CursorInv, TypeOK, StaleCursorsConflict, Refusal, Codes
  <1> QED
    BY <1>1, CursorStep, ReadInvHolds, PTL DEF Spec

(* A footer is a cursor of the snapshot its page was rendered from, at the *)
(* start of one of that snapshot's lines; and as long as that snapshot is  *)
(* the file's, sending the footer back is answered with the page that      *)
(* starts at that line.                                                    *)
FooterStartsAPage ==
  footer # None =>
    LET t == TextOf[footer.snapshot.version] IN
    /\ footer \in Cursor
    /\ footer.snapshot = header
    /\ footer.next.line <= LineCount(t)
    /\ IsBoundary(t, footer.next)
    /\ footer.snapshot = Current =>
         \A limit \in 1 .. MaxPageLines :
           Answer(footer, None, limit) = Page(footer.next.line, limit)

LEMMA FooterNamesALine == ReadInv /\ TypeOK => FooterStartsAPage
  <1> SUFFICES ASSUME ReadInv, TypeOK, footer # None
               PROVE  FooterStartsAPage
    BY DEF FooterStartsAPage
  <1> DEFINE t == TextOf[footer.snapshot.version]
  <1> DEFINE last == first + Len(collected) - 1
  <1>1. /\ footer \in Cursor /\ footer.snapshot = header
        /\ collected # <<>> /\ collected \in Seq(Versions \X Nat) /\ first \in Nat
        /\ last < LineCount(t)
        /\ footer.next = PositionOf(t, last)
    BY DEF TypeOK, ReadInv, FooterIsTheNextLine
  <1>2. footer.snapshot.version \in Versions /\ LineCount(t) \in Nat
    BY <1>1, ReadAssumption DEF Cursor, Identity, IsText, LineCount
  <1>3. last \in Nat
    <2>1. Len(collected) \in Nat /\ Len(collected) >= 1
      BY <1>1
    <2> QED
      BY <1>1, <2>1
  <1> HIDE DEF t, last
  <1>4. footer.next.line = last + 1 /\ footer.next.byte = ByteAt(t, last)
    BY <1>1 DEF PositionOf
  <1>5. footer.next.line <= LineCount(t) /\ IsBoundary(t, footer.next)
    BY <1>1, <1>2, <1>3, <1>4 DEF IsBoundary
  <1>6. ASSUME footer.snapshot = Current, NEW limit \in 1 .. MaxPageLines
        PROVE  Answer(footer, None, limit) = Page(footer.next.line, limit)
    <2>1. version \in Versions /\ t = Text
      BY <1>2, <1>6 DEF t, Text, Current
    <2>2. None # 0 /\ version # Gone
      BY <2>1, ReadAssumption
    <2>3. limit # 0 /\ ~(limit > MaxPageLines)
      BY ReadAssumption
    <2>4. ~(footer.next.line > LineCount(Text)) /\ IsBoundary(Text, footer.next)
      BY <1>2, <1>3, <1>4, <1>5, <2>1
    <2> QED
      BY <1>6, <2>2, <2>3, <2>4 DEF Answer, CursorAnswer
  <1> QED
    BY <1>1, <1>5, <1>6 DEF FooterStartsAPage, t

(* Following footers never runs into a refusal of its own: what the server *)
(* gives out is always one of the positions it accepts for that snapshot   *)
(* (render_snapshot_page, validate_cursor_on_snapshot).                    *)
THEOREM FootersStartPages == Spec => []FooterStartsAPage
  <1>1. ReadInv /\ CursorInv => FooterStartsAPage
    BY FooterNamesALine DEF CursorInv
  <1> QED
    BY <1>1, ReadInvHolds, CursorInvHolds, PTL

(* A cursor of another snapshot is answered with a conflict and the        *)
(* context around its line, whatever became of the file                    *)
(* (validate_cursor_on_snapshot, reference_context).                       *)
THEOREM StaleCursorsAreRefused == Spec => []StaleCursorsConflict
  <1>1. CursorInv => StaleCursorsConflict
    BY DEF CursorInv
  <1> QED
    BY <1>1, CursorInvHolds, PTL

===============================================================================
