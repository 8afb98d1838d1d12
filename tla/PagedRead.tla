------------------------------- MODULE PagedRead -------------------------------
(***************************************************************************)
(* Reading a file page by page: the `read` tool (src/src/read.rs), the     *)
(* page renderer (src/src/render.rs) and the cursor rules of               *)
(* src/src/protocol.rs, while other programs change the file and the       *)
(* server restarts between pages.                                          *)
(*                                                                         *)
(* One request is one step: it loads one immutable snapshot (SnapshotCache *)
(* and StableRead are about that) and renders from it alone.               *)
(***************************************************************************)
EXTENDS LineText

CONSTANTS
  Versions,      \* exact contents the file may have
  TextOf,        \* TextOf[v]: its lines
  Gone,          \* the file cannot be loaded
  MaxPageLines,  \* MAX_PAGE_LINES
  Limits,        \* page limits clients ask for
  StartLines,    \* start lines clients ask for
  HandMade,      \* positions of cursors a client makes up
  MaxChanges,    \* bound on changes of the file
  MaxRestarts,   \* bound on restarts
  None

Identity == [version : Versions, seed : 0 .. MaxRestarts]
Cursor   == [snapshot : Identity, next : [line : Nat, byte : Nat]]

ASSUME ReadAssumption ==
  /\ \A v \in Versions : IsText(TextOf[v])
  /\ Gone \notin Versions
  /\ MaxPageLines \in Nat \ {0}
  /\ Limits \subseteq Nat
  /\ StartLines \subseteq Nat
  /\ HandMade \subseteq [line : Nat \ {0}, byte : Nat]
  /\ MaxChanges \in Nat
  /\ MaxRestarts \in Nat
  /\ None \notin Cursor \cup Nat

VARIABLES
  version,    \* the file's content, or Gone
  seed,       \* how often the process seed was drawn
  changes,    \* changes of the file so far
  first,      \* the line the client's read started at, 0 before it starts
  header,     \* the identity its first page named
  collected,  \* the lines it received, as <<version, line>>
  footer,     \* the cursor of its last page, or None
  asked,      \* the last request's cursor, or None
  reply       \* the last reply

sessionVars == <<first, header, collected, footer>>
worldVars   == <<version, seed, changes>>
vars == <<version, seed, changes, first, header, collected, footer, asked, reply>>

-----------------------------------------------------------------------------

Current == [version |-> version, seed |-> seed]
Text    == TextOf[version]

Refusal(code) == [code |-> code, from |-> 1, to |-> 0, footer |-> None, context |-> {}]

(* end_line_inclusive.                                                     *)
LastLine(start, limit) ==
  IF start + limit - 1 < LineCount(Text) THEN start + limit - 1 ELSE LineCount(Text)

(* The footer: the start of the line after the page, while there is one.   *)
NextCursor(last) ==
  IF last < LineCount(Text)
    THEN [snapshot |-> Current, next |-> PositionOf(Text, last)] ELSE None

(* render_snapshot_page, from a line the text has.                         *)
Page(start, limit) ==
  LET last == LastLine(start, limit) IN
  [code |-> "ok", from |-> start, to |-> last, footer |-> NextCursor(last), context |-> {}]

(* A conflict shows fresh context around the line that was asked for.      *)
Conflict(line) ==
  [Refusal("snapshot_conflict") EXCEPT !.context = Context(Text, line)]

(* Mutant: the boundary is looked at before the identity.                  *)
CursorAnswerBoundaryFirst(c, limit) ==
  IF ~IsBoundary(Text, c.next) THEN Refusal("invalid_position")
  ELSE IF c.snapshot # Current THEN Conflict(c.next.line)
  ELSE IF c.next.line > LineCount(Text) THEN Refusal("invalid_position")
  ELSE Page(c.next.line, limit)

(* Mutant: the boundary is the only test.                                  *)
CursorAnswerAnySnapshot(c, limit) ==
  IF ~IsBoundary(Text, c.next) \/ c.next.line > LineCount(Text)
    THEN Refusal("invalid_position")
  ELSE Page(c.next.line, limit)

(* validate_cursor_on_snapshot: a stale cursor conflicts, whatever its     *)
(* position; the terminal boundary is a position but starts no page.       *)
CursorAnswer(c, limit) ==
  IF c.snapshot # Current THEN Conflict(c.next.line)
  ELSE IF ~IsBoundary(Text, c.next) \/ c.next.line > LineCount(Text)
    THEN Refusal("invalid_position")
  ELSE Page(c.next.line, limit)

(* start_line beyond the text: the header alone.                           *)
StartAnswer(start, limit) ==
  IF start > LineCount(Text) THEN Refusal("ok") ELSE Page(start, limit)

(* ReadRequest::validate, the load, then the page.  `start` is None when   *)
(* the client leaves it out.                                               *)
Answer(c, start, limit) ==
  IF \/ limit = 0 \/ limit > MaxPageLines
     \/ start = 0
     \/ start # None /\ c # None
    THEN Refusal("invalid_request")
  ELSE IF version = Gone THEN Refusal("unreadable")
  ELSE IF c # None THEN CursorAnswer(c, limit)
  ELSE StartAnswer(IF start = None THEN 1 ELSE start, limit)

Lines(r) == [k \in 1 .. r.to - r.from + 1 |-> <<version, r.from + k - 1>>]

(* The client opens the file, or starts over.                              *)
FirstPage(start, limit) ==
  LET r == Answer(None, start, limit) IN
  /\ asked' = None
  /\ reply' = r
  /\ IF r.code = "ok"
       THEN /\ first' = IF start = None THEN 1 ELSE start
            /\ header' = Current
            /\ collected' = Lines(r)
            /\ footer' = r.footer
       ELSE UNCHANGED sessionVars
  /\ UNCHANGED worldVars

(* The client sends the footer it was given back.                          *)
NextPage(limit) ==
  LET r == Answer(footer, None, limit) IN
  /\ footer # None
  /\ asked' = footer
  /\ reply' = r
  /\ IF r.code = "ok"
       THEN /\ collected' = collected \o Lines(r)
            /\ footer' = r.footer
            /\ UNCHANGED <<first, header>>
       ELSE UNCHANGED sessionVars
  /\ UNCHANGED worldVars

(* Any other cursor: of an older page, of another process, made up, or     *)
(* sent along with a start line.                                           *)
OtherCursor(id, p, start, limit) ==
  LET c == [snapshot |-> id, next |-> p] IN
  /\ asked' = c
  /\ reply' = Answer(c, start, limit)
  /\ UNCHANGED <<sessionVars, worldVars>>

(* Another program, or an edit, changes the file; it may change it back.   *)
Change(v) ==
  /\ changes < MaxChanges
  /\ version # v
  /\ version' = v
  /\ changes' = changes + 1
  /\ reply' = Refusal("pending")
  /\ asked' = None
  /\ UNCHANGED <<seed, sessionVars>>

(* A restart draws a new seed: every identity given out is void.           *)
Restart ==
  /\ seed < MaxRestarts
  /\ seed' = seed + 1
  /\ reply' = Refusal("pending")
  /\ asked' = None
  /\ UNCHANGED <<version, changes, sessionVars>>

Init ==
  /\ version \in Versions \cup {Gone}
  /\ seed = 0
  /\ changes = 0
  /\ first = 0
  /\ header = None
  /\ collected = <<>>
  /\ footer = None
  /\ asked = None
  /\ reply = Refusal("pending")

Next ==
  \/ \E s \in StartLines \cup {None}, l \in Limits : FirstPage(s, l)
  \/ \E l \in Limits : NextPage(l)
  \/ \E v \in Versions, d \in 0 .. seed, p \in HandMade, l \in Limits :
       \E s \in {1, None} : OtherCursor([version |-> v, seed |-> d], p, s, l)
  \/ \E v \in Versions \cup {Gone} : Change(v)
  \/ Restart

Spec == Init /\ [][Next]_vars

-----------------------------------------------------------------------------
(* Properties *)

Codes == {"pending", "ok", "invalid_request", "unreadable", "snapshot_conflict",
          "invalid_position"}

(* Types of the variables.                                                 *)
TypeOK ==
  /\ version \in Versions \cup {Gone}
  /\ seed \in 0 .. MaxRestarts
  /\ changes \in 0 .. MaxChanges
  /\ first \in Nat
  /\ header \in Identity \cup {None}
  /\ collected \in Seq(Versions \X Nat)
  /\ footer \in Cursor \cup {None}
  /\ asked \in Cursor \cup {None}
  /\ reply.code \in Codes

(* Whatever happens to the file between two pages, the lines a client      *)
(* collects by following footers are consecutive lines of the one snapshot *)
(* its first page named, none skipped or repeated.  A page without footer  *)
(* is the end of that snapshot, and a footer is where the next line        *)
(* starts: following them neither stops early nor loops.                   *)
PagesAreOneSnapshot ==
  /\ \A k \in 1 .. Len(collected) : collected[k] = <<header.version, first + k - 1>>
  /\ collected # <<>> =>
       LET t == TextOf[header.version] last == first + Len(collected) - 1 IN
       IF footer = None THEN last = LineCount(t)
       ELSE /\ footer.snapshot = header
            /\ last < LineCount(t)
            /\ footer.next = PositionOf(t, last)

(* R013: a cursor of another snapshot is a conflict, never an invalid      *)
(* position and never a page, even after the file changed or the server    *)
(* restarted; a cursor of this one never is.  R011: the context of the     *)
(* conflict is the lines at most two away from the line asked for, clamped *)
(* to the current file.                                                    *)
StaleCursorsConflict ==
  asked # None /\ reply.code \notin {"invalid_request", "unreadable"} =>
    /\ reply.code = "snapshot_conflict" <=> asked.snapshot # Current
    /\ reply.code = "snapshot_conflict" =>
         LET n == LineCount(Text)
             line == asked.next.line
             center == IF line > n THEN n ELSE line
         IN  reply.context = {k \in 1 .. n : k - center \in -2 .. 2}

===============================================================================
