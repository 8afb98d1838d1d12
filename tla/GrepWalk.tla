------------------------------- MODULE GrepWalk -------------------------------
(***************************************************************************)
(* One grep request (run and GrepVisitor of src/src/grep.rs): the parallel *)
(* walk over a tree, the searches of its workers, and the response put     *)
(* together from what they found.                                          *)
(*                                                                         *)
(* Workers share a match counter, two skip counters, a slot for the first  *)
(* error and the walker's quit flag, and keep their hits to themselves     *)
(* until they end.  Which worker visits which entry, and when, is up to    *)
(* the ignore crate: any entry not visited yet may be next.  The tree does *)
(* not change during the walk.                                             *)
(***************************************************************************)
EXTENDS GrepSection

CONSTANTS
  Workers,          \* worker threads of the walk
  Trees,            \* trees a request may meet
  Requests,         \* requests clients send
  MaxGrepMatches,   \* MAX_GREP_MATCHES
  MaxContextLines,  \* MAX_CONTEXT_LINES
  QuitFactor,       \* the 8 of quit_threshold
  None

Kinds == {"text",        \* strict text; `matched` are its match lines
          "binary",      \* holds a NUL
          "utf8",        \* is not UTF-8
          "oversized",   \* exceeds the size limit
          "unreadable",  \* std::fs::read fails
          "other"}       \* no file, or an error of the walk itself

(* A tree is its entries in ascending order of their relative paths.       *)
Entry == [kind : Kinds, text : {t \in [starts : Seq(Nat), len : Nat] : IsText(t)},
          matched : Seq(Nat \ {0})]

(* target is a file named by the client or Tree; fault is what is wrong    *)
(* with pattern, glob or path.                                             *)
Tree == 0
Request == [target : Nat, max : Nat, mode : {"content", "discovery"},
            before : Nat \cup {None}, after : Nat \cup {None}, context : Nat \cup {None},
            fault : {None, "invalid_pattern", "root_escape", "not_found"}]

ASSUME GrepAssumption ==
  /\ \A entries \in Trees : entries \in Seq(Entry) /\ \A f \in DOMAIN entries :
       LET m == entries[f].matched IN
       /\ m # <<>> => entries[f].kind = "text"
       /\ \A i, j \in DOMAIN m : i < j => m[i] < m[j]
       /\ \A i \in DOMAIN m : m[i] <= Searchable(entries[f].text)
  /\ Requests \subseteq Request
  /\ Workers # {}
  /\ MaxGrepMatches \in Nat \ {0}
  /\ MaxContextLines \in Nat
  /\ QuitFactor \in Nat \ {0}
  /\ None \notin Nat
  /\ None \notin {"file_too_large", "binary", "utf8"}

VARIABLES
  tree,       \* what is searched
  request,    \* what is asked
  phase,      \* "called", "walking" or "answered"
  pending,    \* entries no worker has been given yet
  pc,         \* pc[w]: "idle", "search", "stop", "ended"
  visiting,   \* visiting[w]: the entry w is at
  hits,       \* hits[w]: files w found matches in
  total,      \* match lines found so far
  skipped,    \* tree entries skipped, by reason
  slot,       \* the first error of any worker, or None
  quit,       \* the walker's flag
  collected,  \* hits of the workers that ended
  reply       \* the response, or None

vars == <<tree, request, phase, pending, pc, visiting, hits, total, skipped, slot,
          quit, collected, reply>>

-----------------------------------------------------------------------------

Entries == DOMAIN tree

Matches(f) == Len(tree[f].matched)

NoSkips == [binary |-> 0, utf8 |-> 0]

(* GrepRequest::validate.                                                  *)
IsValid(req) ==
  /\ req.max \in 1 .. MaxGrepMatches
  /\ \A n \in {req.before, req.after, req.context} \ {None} : n <= MaxContextLines
  /\ req.mode # "content" => {req.before, req.after, req.context} = {None}

(* effective_context.                                                      *)
Before ==
  IF request.context # None THEN request.context
  ELSE IF request.before # None THEN request.before ELSE 0
After ==
  IF request.context # None THEN request.context
  ELSE IF request.after # None THEN request.after ELSE 0

QuitThreshold == request.max * QuitFactor

Failed(code) ==
  [code |-> code, files |-> <<>>, sections |-> <<>>, matches |-> 0, truncated |-> FALSE,
   skipped |-> NoSkips]

(* Mutant: a file that does not fit the rest of the budget is withheld.    *)
ShowWhatFits(out, f) ==
  IF out.truncated \/ out.matches + Matches(f) > request.max
    THEN [out EXCEPT !.truncated = TRUE]
    ELSE [out EXCEPT !.files = Append(@, f), !.matches = @ + Matches(f)]

(* Mutant: the budget counts files.                                        *)
ShowCountingFiles(out, f) ==
  IF Len(out.files) >= request.max
    THEN [out EXCEPT !.truncated = TRUE]
    ELSE [out EXCEPT !.files = Append(@, f), !.matches = @ + Matches(f)]

(* One file of the response: the budget is tested before it, and a file    *)
(* that is shown is shown whole.                                           *)
Show(out, f) ==
  IF out.truncated \/ out.matches >= request.max
    THEN [out EXCEPT !.truncated = TRUE]
    ELSE [out EXCEPT !.files = Append(@, f), !.matches = @ + Matches(f)]

(* assemble_output, from the found files in the order of their paths,      *)
(* which is that of the entries.                                           *)
Assemble(found, skips) ==
  LET upTo[k \in 0 .. Len(tree)] ==
        IF k = 0 THEN [files |-> <<>>, matches |-> 0, truncated |-> FALSE]
        ELSE IF k \in found THEN Show(upTo[k - 1], k) ELSE upTo[k - 1]
      out == upTo[Len(tree)]
      section(f) == Section(tree[f].text, tree[f].matched, Before, After)
  IN  [code      |-> "ok",
       files     |-> out.files,
       sections  |-> IF request.mode = "content"
                       THEN [k \in DOMAIN out.files |-> section(out.files[k])] ELSE <<>>,
       matches   |-> out.matches,
       truncated |-> out.truncated,
       skipped   |-> skips]

(* An explicit file: whatever is wrong with it is the client's error.      *)
ExplicitAnswers(f) ==
  CASE tree[f].kind = "text"      -> {Assemble({g \in {f} : Matches(g) > 0}, NoSkips)}
    [] tree[f].kind = "binary"    -> {Failed("binary_file")}
    [] tree[f].kind = "utf8"      -> {Failed("invalid_utf8")}
    [] tree[f].kind = "oversized" -> {Failed("file_too_large")}
    [] OTHER                      -> {Failed(c) : c \in {"not_found", "permission_denied", "io"}}

(* The request is answered.                                                *)
Reply(r) ==
  /\ reply' = r
  /\ phase' = "answered"

walkVars == <<pending, pc, visiting, hits, total, skipped, slot, quit, collected>>

(* run refuses the request, before it opens a file.                        *)
Refuse ==
  /\ phase = "called"
  /\ \/ ~IsValid(request) /\ Reply(Failed("invalid_request"))
     \/ IsValid(request) /\ request.fault # None /\ Reply(Failed(request.fault))
  /\ UNCHANGED <<tree, request, walkVars>>

(* The path names a file: the walker is not used.                          *)
SearchExplicitFile ==
  /\ phase = "called"
  /\ IsValid(request) /\ request.fault = None
  /\ request.target # Tree
  /\ \E r \in ExplicitAnswers(request.target) : Reply(r)
  /\ UNCHANGED <<tree, request, walkVars>>

(* build_parallel().visit.                                                 *)
StartWalk ==
  /\ phase = "called"
  /\ IsValid(request) /\ request.fault = None
  /\ request.target = Tree
  /\ phase' = "walking"
  /\ pending' = Entries
  /\ pc' = [w \in Workers |-> "idle"]
  /\ UNCHANGED <<tree, request, visiting, hits, total, skipped, slot, quit, collected, reply>>

(* A worker is given an entry unless the walk was quit.  Entries that are  *)
(* no files are passed over.                                               *)
Visit(w, f) ==
  /\ pc[w] = "idle"
  /\ ~quit
  /\ f \in pending
  /\ pending' = pending \ {f}
  /\ IF tree[f].kind = "other"
       THEN UNCHANGED <<pc, visiting>>
       ELSE /\ pc' = [pc EXCEPT ![w] = "search"]
            /\ visiting' = [visiting EXCEPT ![w] = f]
  /\ UNCHANGED <<tree, request, phase, hits, total, skipped, slot, quit, collected, reply>>

(* The counter a skipped entry is added to.                                *)
SkipReason(kind) ==
  CASE kind = "binary" -> "binary"
    [] kind = "utf8"   -> "utf8"
    [] OTHER           -> None

(* search_file passes the entry over: it cannot be read, is no text, or    *)
(* has no match.                                                           *)
Pass(w) ==
  LET kind == tree[visiting[w]].kind IN
  /\ pc[w] = "search"
  /\ kind # "oversized" /\ Matches(visiting[w]) = 0
  /\ skipped' = IF SkipReason(kind) = None THEN skipped
                ELSE [skipped EXCEPT ![SkipReason(kind)] = @ + 1]
  /\ pc' = [pc EXCEPT ![w] = "idle"]
  /\ visiting' = [visiting EXCEPT ![w] = None]
  /\ UNCHANGED <<tree, request, phase, pending, hits, total, slot, quit, collected, reply>>

(* Mutant: an oversized entry is passed over like a binary one.            *)
FailSilently(w) ==
  /\ pc[w] = "search"
  /\ tree[visiting[w]].kind = "oversized"
  /\ pc' = [pc EXCEPT ![w] = "idle"]
  /\ visiting' = [visiting EXCEPT ![w] = None]
  /\ UNCHANGED <<tree, request, phase, pending, hits, total, skipped, slot, quit, collected,
                 reply>>

(* search_file fails: the first error is kept and the walk is to stop.     *)
Fail(w) ==
  /\ pc[w] = "search"
  /\ tree[visiting[w]].kind = "oversized"
  /\ slot' = IF slot = None THEN "file_too_large" ELSE slot
  /\ pc' = [pc EXCEPT ![w] = "stop"]
  /\ visiting' = [visiting EXCEPT ![w] = None]
  /\ UNCHANGED <<tree, request, phase, pending, hits, total, skipped, quit, collected, reply>>

(* search_file finds match lines and renders the hit.  It is added to the  *)
(* shared counter, which may stop the walk, and to the worker's own hits.  *)
Count(w) ==
  LET found == total + Matches(visiting[w]) IN
  /\ pc[w] = "search"
  /\ Matches(visiting[w]) > 0
  /\ total' = found
  /\ hits' = [hits EXCEPT ![w] = @ \cup {visiting[w]}]
  /\ pc' = [pc EXCEPT ![w] = IF found > QuitThreshold THEN "stop" ELSE "idle"]
  /\ visiting' = [visiting EXCEPT ![w] = None]
  /\ UNCHANGED <<tree, request, phase, pending, skipped, slot, quit, collected, reply>>

(* The walker learns of WalkState::Quit.                                   *)
Stop(w) ==
  /\ pc[w] = "stop"
  /\ quit' = TRUE
  /\ pc' = [pc EXCEPT ![w] = "idle"]
  /\ UNCHANGED <<tree, request, phase, pending, visiting, hits, total, skipped, slot,
                 collected, reply>>

(* Mutant: the last worker to end replaces what the others collected.      *)
EndReplacing(w) ==
  /\ pc[w] = "idle"
  /\ quit \/ pending = {}
  /\ pc' = [pc EXCEPT ![w] = "ended"]
  /\ collected' = IF hits[w] = {} THEN collected ELSE hits[w]
  /\ hits' = [hits EXCEPT ![w] = {}]
  /\ UNCHANGED <<tree, request, phase, pending, visiting, total, skipped, slot, quit, reply>>

(* Mutant: a worker ends only when every entry was visited.                *)
EndWhenDrained(w) ==
  /\ pc[w] = "idle"
  /\ pending = {}
  /\ pc' = [pc EXCEPT ![w] = "ended"]
  /\ collected' = collected \cup hits[w]
  /\ hits' = [hits EXCEPT ![w] = {}]
  /\ UNCHANGED <<tree, request, phase, pending, visiting, total, skipped, slot, quit, reply>>

(* A worker ends; dropping its visitor hands over its hits.                *)
End(w) ==
  /\ pc[w] = "idle"
  /\ quit \/ pending = {}
  /\ pc' = [pc EXCEPT ![w] = "ended"]
  /\ collected' = collected \cup hits[w]
  /\ hits' = [hits EXCEPT ![w] = {}]
  /\ UNCHANGED <<tree, request, phase, pending, visiting, total, skipped, slot, quit, reply>>

(* All workers ended: an error fails the request, otherwise the hits are   *)
(* sorted and assembled.                                                   *)
Respond ==
  /\ phase = "walking"
  /\ \A w \in Workers : pc[w] = "ended"
  /\ Reply(IF slot # None THEN Failed(slot) ELSE Assemble(collected, skipped))
  /\ UNCHANGED <<tree, request, walkVars>>

Init ==
  /\ tree \in Trees
  /\ request \in {req \in Requests :
                  req.target # Tree => req.target <= Len(tree) /\ tree[req.target].kind # "other"}
  /\ phase = "called"
  /\ pending = {}
  /\ pc = [w \in Workers |-> "ended"]
  /\ visiting = [w \in Workers |-> None]
  /\ hits = [w \in Workers |-> {}]
  /\ total = 0
  /\ skipped = NoSkips
  /\ slot = None
  /\ quit = FALSE
  /\ collected = {}
  /\ reply = None

Step(w) ==
  \/ \E f \in Entries : Visit(w, f)
  \/ Pass(w) \/ Fail(w) \/ Count(w) \/ Stop(w) \/ End(w)

Handle == Refuse \/ SearchExplicitFile \/ StartWalk \/ Respond

Next == Handle \/ \E w \in Workers : Step(w)

Spec == Init /\ [][Next]_vars

(* Threads of the walk are scheduled, and file reads return.               *)
FairSpec == Spec /\ WF_vars(Handle) /\ \A w \in Workers : WF_vars(Step(w))

-----------------------------------------------------------------------------
(* Properties *)

Visited  == Entries \ pending
Matching == {f \in Entries : Matches(f) > 0}
Reported == {reply.files[k] : k \in DOMAIN reply.files}
Walked   == request.target = Tree /\ IsValid(request) /\ request.fault = None
Responds == phase = "answered" /\ Walked /\ reply.code = "ok"

(* How many match lines some files have.                                   *)
MatchesIn(files) == MapThenSumSet(Matches, files)

Codes == {"ok", "invalid_request", "invalid_pattern", "root_escape", "not_found", "binary_file",
          "invalid_utf8", "file_too_large", "permission_denied", "io"}

(* Types of the variables.                                                 *)
TypeOK ==
  /\ tree \in Trees
  /\ request \in Requests
  /\ phase \in {"called", "walking", "answered"}
  /\ pending \subseteq Entries
  /\ pc \in [Workers -> {"idle", "search", "stop", "ended"}]
  /\ visiting \in [Workers -> Entries \cup {None}]
  /\ hits \in [Workers -> SUBSET Entries]
  /\ total \in Nat
  /\ skipped \in [binary : Nat, utf8 : Nat]
  /\ slot \in {None, "file_too_large"}
  /\ quit \in BOOLEAN
  /\ collected \subseteq Entries
  /\ IF phase = "answered" THEN reply.code \in Codes ELSE reply = None

(* Whoever stops the walk and whenever its workers end, a file with        *)
(* matches that was visited is at every moment with exactly one worker, in *)
(* search or among its hits, or collected: none is lost or reported twice. *)
HitsAreAccountedFor ==
  LET searched(w) == IF visiting[w] = None THEN {} ELSE {visiting[w]} IN
  phase # "called" /\ Walked =>
    /\ Visited \cap Matching =
         (collected \cup UNION {hits[w] \cup searched(w) : w \in Workers}) \cap Matching
    /\ \A w \in Workers :
         /\ hits[w] \cap (collected \cup searched(w)) = {}
         /\ \A v \in Workers \ {w} :
              (hits[w] \cup searched(w)) \cap (hits[v] \cup searched(v)) = {}

(* R015: of what was found, in path order, the response reports the files  *)
(* before which the budget was not used up, each whole, and says truncated *)
(* when it leaves out one of them.                                         *)
FoundFilesFillTheBudget ==
  Responds =>
    LET found     == Visited \cap Matching
        before(f) == MatchesIn({g \in found : g < f})
    IN  /\ Reported = {f \in found : before(f) < request.max}
        /\ \A i, j \in DOMAIN reply.files : i < j => reply.files[i] < reply.files[j]
        /\ reply.matches = MatchesIn(Reported)
        /\ reply.truncated <=> Reported # found

(* A response with fewer matches than the budget is all there is: no file  *)
(* with a match was left out, whatever the order of the walk, no oversized *)
(* file was missed, and every entry passed over as no text (R016) is       *)
(* counted once, under its own reason.                                     *)
BelowBudgetIsComplete ==
  Responds /\ reply.matches < request.max =>
    /\ Reported = Matching
    /\ ~reply.truncated
    /\ \A f \in Entries : tree[f].kind # "oversized"
    /\ \A reason \in {"binary", "utf8"} :
         reply.skipped[reason] = Cardinality({f \in Entries : tree[f].kind = reason})

(* R016: a walk that meets an oversized file fails, also when other        *)
(* workers go on or stop the walk for another reason, and no other does.   *)
OversizedFailsTheWalk ==
  phase = "answered" /\ Walked =>
    (reply.code = "file_too_large" <=> \E f \in Visited : tree[f].kind = "oversized")

(* R015: each reported section shows every match of its file with its      *)
(* context, and nothing else of it.                                        *)
SectionsShowTheWindows ==
  phase = "answered" /\ reply.code = "ok" /\ request.mode = "content" =>
    \A k \in DOMAIN reply.files :
      LET entry == tree[reply.files[k]] IN
      ShowsTheWindows(reply.sections[k], entry.text, entry.matched, Before, After)

(* The workers and the request that waits for them all come to an end.     *)
RequestReturns == <>(phase = "answered")

===============================================================================
