----------------------------- MODULE VersionedFile -----------------------------
(***************************************************************************)
(* What the mutation tools promise (docs/protocol.md R019, R020, R023),    *)
(* with no locks, stamps, temporary files or system calls: files are       *)
(* registers, and a request is a compare-and-set whose operands are fixed  *)
(* when it is called.  It either changes its file in one step, from the    *)
(* value its own call expects to the value its own call gives, or changes  *)
(* nothing.  It is answered after that step, success only if it was taken. *)
(***************************************************************************)
CONSTANTS Reqs, Files, Values, Empty, Absent, None, Calls, FileNamed

VARIABLES
  value,   \* value[f]: the bytes of file f, or Absent
  call,    \* call[r]: what request r asked for, or None before it did
  landed,  \* landed[r]: request r has changed its file
  answer   \* answer[r]: "none", "ok" or "error"

vars == <<value, call, landed, answer>>

(* The values call j may replace.                                          *)
Permits(j, v) ==
  \/ v = j.expect
  \/ j.op = "edit" /\ j.expect = Empty /\ v = Absent

Init ==
  /\ value \in [Files -> Values \cup {Absent}]
  /\ call = [r \in Reqs |-> None]
  /\ landed = [r \in Reqs |-> FALSE]
  /\ answer = [r \in Reqs |-> "none"]

(* A request is made; it may be refused at once.                           *)
Ask(r) ==
  /\ call[r] = None
  /\ \E j \in Calls : call' = [call EXCEPT ![r] = j]
  /\ \E a \in {"none", "error"} : answer' = [answer EXCEPT ![r] = a]
  /\ UNCHANGED <<value, landed>>

Land(r) ==
  LET f == FileNamed[call[r].name] IN
  /\ call[r] # None /\ answer[r] = "none" /\ ~landed[r]
  /\ Permits(call[r], value[f])
  /\ value' = [value EXCEPT ![f] = call[r].new]
  /\ landed' = [landed EXCEPT ![r] = TRUE]
  /\ UNCHANGED <<call, answer>>

Succeed(r) ==
  /\ answer[r] = "none" /\ landed[r]
  /\ answer' = [answer EXCEPT ![r] = "ok"]
  /\ UNCHANGED <<value, call, landed>>

Fail(r) ==
  /\ call[r] # None /\ answer[r] = "none" /\ ~landed[r]
  /\ answer' = [answer EXCEPT ![r] = "error"]
  /\ UNCHANGED <<value, call, landed>>

Next == \E r \in Reqs : Ask(r) \/ Land(r) \/ Succeed(r) \/ Fail(r)

Spec == Init /\ [][Next]_vars

=============================================================================
