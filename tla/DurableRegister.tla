---------------------------- MODULE DurableRegister ----------------------------
(***************************************************************************)
(* What the durability modes promise (docs/protocol.md R019), with no      *)
(* temporary files, page cache or directories: the destination is a log of *)
(* what landed there, of which a prefix is safe from a power loss.  A loss *)
(* cuts the log back to that prefix, so what is lost is lost whole and the *)
(* latest first.  An error is answered by requests that changed nothing, a *)
(* success by one whose bytes landed, and it is `durable` only once they   *)
(* are safe.                                                               *)
(***************************************************************************)
EXTENDS Naturals, Sequences

CONSTANTS Reqs, Old

VARIABLES
  history,  \* what landed at the destination, the latest last
  safe,     \* how much of it a power loss leaves
  answer    \* answer[r]: "none", "error", "ok" or "durable"

vars == <<history, safe, answer>>

(* r is among the first n that landed.                                     *)
Among(r, n) == \E k \in 1 .. n : history[k] = r

Init ==
  /\ history \in {<<>>, <<Old>>}
  /\ safe = Len(history)
  /\ answer = [r \in Reqs |-> "none"]

Land(r) ==
  /\ answer[r] = "none"
  /\ history' = Append(history, r)
  /\ UNCHANGED <<safe, answer>>

Harden ==
  /\ safe' \in safe .. Len(history)
  /\ UNCHANGED <<history, answer>>

Answer(r, a) ==
  /\ answer[r] = "none"
  /\ a = "ok"      => Among(r, Len(history))
  /\ a = "durable" => Among(r, safe)
  /\ a = "error"   => ~Among(r, Len(history))
  /\ answer' = [answer EXCEPT ![r] = a]
  /\ UNCHANGED <<history, safe>>

PowerLoss ==
  /\ history' = SubSeq(history, 1, safe)
  /\ UNCHANGED <<safe, answer>>

Next ==
  \/ \E r \in Reqs : Land(r) \/ \E a \in {"error", "ok", "durable"} : Answer(r, a)
  \/ Harden
  \/ PowerLoss

Spec == Init /\ [][Next]_vars

===============================================================================
