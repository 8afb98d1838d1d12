----------------------------- MODULE Server_proofs -----------------------------
(***************************************************************************)
(* Proofs about Server, for any file systems, lists of roots, calls and    *)
(* numbers of announcements: where the adoption of roots comes to rest,    *)
(* that calls stay within their root, that each is answered as one root    *)
(* would have it, and that what a glob lists leads back to its files.      *)
(***************************************************************************)
EXTENDS Server, FiniteSetTheorems, SequenceTheorems, WellFoundedInduction, TLAPS

IsTask(x) == x = [phase |-> x.phase, list |-> x.list, next |-> x.next, place |-> x.place]

Busy(t) == task[t].phase \notin {"none", "done"}
IsReply(m) == m.what \in {"roots", "error"}
IsNotice(m) == m.what \in {"initialized", "list_changed"}

SessionTypes ==
  /\ offered \in Lists
  /\ inbox \in Seq(Messages)
  /\ asking \subseteq Tasks
  /\ excused \in BOOLEAN
  /\ DOMAIN task = Tasks /\ task = [t \in Tasks |-> task[t]]
  /\ \A t \in Tasks : /\ IsTask(task[t])
                      /\ task[t].next \in Nat \ {0}
                      /\ task[t].phase \in {"none", "spawned", "asked", "try", "install", "done"}
                      /\ task[t].phase \in {"none", "spawned", "asked"} => task[t].next = 1

(* A request of a task is either still with the client or was answered by  *)
(* exactly one message, and the task waits.                                *)
RequestsAreAnsweredOnce ==
  /\ \A t \in asking : task[t].phase = "asked"
  /\ \A k \in DOMAIN inbox : IsReply(inbox[k]) =>
       /\ inbox[k].task \in Tasks \ asking
       /\ task[inbox[k].task].phase = "asked"
       /\ \A j \in DOMAIN inbox : IsReply(inbox[j]) /\ inbox[j].task = inbox[k].task => j = k

(* A pinned root, or that of a client without roots, is the startup root.  *)
WithoutAdoption ==
  ~Adopts => /\ root = expected
             /\ \A t \in Tasks : task[t].phase \in {"none", "spawned", "done"}

(* While no adoption overlapped another there is one thread of them: a     *)
(* notice, then a task, then its reply, then the task again, which has     *)
(* found nothing usable in the candidates before its next.                 *)
OneThread ==
  /\ \A j, k \in DOMAIN inbox : inbox[j].what # "call" /\ inbox[k].what # "call" => j = k
  /\ \A s, t \in Tasks : Busy(s) /\ Busy(t) => s = t
  /\ \A k \in DOMAIN inbox : IsNotice(inbox[k]) => \A t \in Tasks : ~Busy(t)

ThreadCarriesOffer ==
  /\ \A k \in DOMAIN inbox : IsReply(inbox[k]) =>
       inbox[k].what = "roots" /\ inbox[k].list = offered
  /\ \A t \in Tasks :
       /\ task[t].phase = "try" =>
            /\ task[t].list = offered
            /\ \A k \in DOMAIN offered : k < task[t].next => Candidate(offered[k]) = None
       /\ task[t].phase = "install" => task[t].place = expected

Undisturbed ==
  Adopts /\ ~excused => /\ expected = Promised(offered, root)
                        /\ OneThread
                        /\ ThreadCarriesOffer
                        /\ ~Adopting => root = expected

AdoptionInv ==
  SessionTypes /\ RequestsAreAnsweredOnce /\ WithoutAdoption /\ Undisturbed

-------------------------------------------------------------------------------
(* A set of naturals with an element has a least one.                      *)
LEMMA Least ==
  ASSUME NEW T \in SUBSET Nat, T # {}
  PROVE  \E n \in T : \A m \in T : n <= m
  <1> DEFINE Less == {ss \in Nat \X Nat : ss[1] < ss[2]}
  <1>1. IsWellFoundedOn(Less, Nat)
    BY NatLessThanWellFounded DEF OpToRel
  <1> HIDE DEF Less
  <1>2. PICK n \in T : \A m \in T : ~(<<m, n>> \in Less)
    BY <1>1, WFMin
  <1>3. \A m \in T : ~(m < n)
    BY <1>2 DEF Less
  <1> QED
    BY <1>2, <1>3

(* What is promised of a list does not depend on the root there was, or is *)
(* that root.                                                              *)
LEMMA PromiseOrRoot ==
  ASSUME NEW list, NEW r, NEW s
  PROVE  \/ Promised(list, r) = r /\ Promised(list, s) = s
         \/ Promised(list, r) = Promised(list, s)
  BY DEF Promised

(* A list with a usable root promises the same whatever root there was.    *)
LEMMA UsablePromise ==
  ASSUME NEW list, NEW r, NEW s, Promised(list, None) # None
  PROVE  Promised(list, r) = Promised(list, s)
  BY DEF Promised

LEMMA NothingUsable ==
  ASSUME NEW list, NEW r, \A k \in DOMAIN list : Candidate(list[k]) = None
  PROVE  Promised(list, r) = r
  BY DEF Promised

(* The first usable candidate is the promised one.                         *)
LEMMA FirstUsable ==
  ASSUME Adopts, NEW list \in Lists, NEW r, NEW n \in DOMAIN list,
         Candidate(list[n]) # None,
         \A k \in DOMAIN list : k < n => Candidate(list[k]) = None
  PROVE  Promised(list, r) = Candidate(list[n])
  <1> DEFINE usable == {k \in DOMAIN list : Candidate(list[k]) # None}
             first == CHOOSE k \in usable : \A j \in usable : k <= j
  <1>1. DOMAIN list \subseteq Nat
    BY ServerAssumption
  <1>2. n \in usable /\ \A j \in usable : n <= j
    BY <1>1
  <1>3. first \in usable /\ \A j \in usable : first <= j
    BY <1>2
  <1>4. first = n
    BY <1>1, <1>2, <1>3
  <1> QED
    BY <1>2, <1>4 DEF Promised

(* While the candidates of a list stay usable or not, so does its promise. *)
LEMMA SamePromise ==
  ASSUME config' = config,
         \A list \in Lists : \A k \in DOMAIN list : Candidate(list[k])' = Candidate(list[k])
  PROVE  \A list \in Lists : \A r : Promised(list, r)' = Promised(list, r)
  <1> SUFFICES ASSUME NEW list \in Lists, NEW r
               PROVE  Promised(list, r)' = Promised(list, r)
    OBVIOUS
  <1>1. Adopts' = Adopts
    BY DEF Adopts
  <1> DEFINE usable == {k \in DOMAIN list : Candidate(list[k]) # None}
             first == CHOOSE k \in usable : \A j \in usable : k <= j
  <1>2. usable' = usable
    OBVIOUS
  <1>3. first' = first
    BY <1>2
  <1>4. usable # {} => first \in usable
    <2>1. usable \in SUBSET Nat
      BY ServerAssumption
    <2> HIDE DEF usable
    <2> QED
      BY <2>1, Least
  <1>5. usable # {} => Candidate(list[first])' = Candidate(list[first])
    BY <1>4
  <1> QED
    BY <1>1, <1>2, <1>3, <1>5 DEF Promised

LEMMA SameCandidates ==
  ASSUME kind' = kind
  PROVE  \A u : Candidate(u)' = Candidate(u)
  BY DEF Candidate

(* How the inbox grows and shrinks.                                        *)
LEMMA Arrives ==
  ASSUME inbox \in Seq(Messages), NEW m \in Messages, inbox' = Append(inbox, m)
  PROVE  /\ inbox' \in Seq(Messages)
         /\ DOMAIN inbox' = DOMAIN inbox \cup {Len(inbox) + 1}
         /\ Len(inbox) + 1 \notin DOMAIN inbox
         /\ inbox'[Len(inbox) + 1] = m
         /\ \A k \in DOMAIN inbox : inbox'[k] = inbox[k]
  OBVIOUS

LEMMA Leaves ==
  ASSUME inbox \in Seq(Messages), inbox # <<>>, inbox' = Tail(inbox)
  PROVE  /\ inbox' \in Seq(Messages)
         /\ Head(inbox) = inbox[1] /\ 1 \in DOMAIN inbox
         /\ \A k \in DOMAIN inbox' : /\ k + 1 \in DOMAIN inbox /\ k + 1 # 1
                                     /\ inbox'[k] = inbox[k + 1]
         /\ \A j, k \in DOMAIN inbox' : j # k => j + 1 # k + 1
         /\ \A k \in DOMAIN inbox : k # 1 => k - 1 \in DOMAIN inbox' /\ inbox'[k - 1] = inbox[k]
  OBVIOUS

LEMMA MessageShape ==
  ASSUME NEW m \in Messages
  PROVE  /\ m.what \in {"initialized", "list_changed", "call", "error", "roots"}
         /\ IsReply(m) => m.task \in Tasks
         /\ m.what = "roots" => m.list \in Lists
         /\ m.what = "call" => m.call \in Calls /\ m.request \in ToolRequests
  BY DEF Messages, IsReply

(* Nothing of the session but calls moves.                                 *)
LEMMA StillStep ==
  ASSUME AdoptionInv,
         UNCHANGED <<config, root, inbox, offered, asking, task, expected>>,
         excused' \in BOOLEAN, ~excused' => ~excused,
         ~excused' => \A list \in Lists : \A k \in DOMAIN list :
                        Candidate(list[k])' = Candidate(list[k])
  PROVE  AdoptionInv'
  <1>1. SessionTypes'
    BY DEF AdoptionInv, SessionTypes, IsTask
  <1>2. RequestsAreAnsweredOnce'
    BY DEF AdoptionInv, RequestsAreAnsweredOnce, IsReply
  <1>3. WithoutAdoption'
    BY DEF AdoptionInv, WithoutAdoption, Adopts
  <1>4. ASSUME Adopts', ~excused'
        PROVE  /\ (expected = Promised(offered, root))'
               /\ OneThread' /\ ThreadCarriesOffer'
               /\ ~Adopting' => (root = expected)'
    <2>1. Undisturbed /\ Adopts /\ ~excused /\ offered \in Lists
      BY <1>4 DEF AdoptionInv, SessionTypes, Adopts
    <2>2. \A list \in Lists : \A r : Promised(list, r)' = Promised(list, r)
      BY <1>4, SamePromise
    <2>3. (expected = Promised(offered, root))'
      BY <2>1, <2>2 DEF Undisturbed
    <2>4. OneThread'
      BY <2>1 DEF Undisturbed, OneThread, Busy, IsNotice
    <2>5. ThreadCarriesOffer'
      <3>1. \A k \in DOMAIN offered : Candidate(offered[k])' = Candidate(offered[k])
        BY <1>4, <2>1
      <3> QED
        BY <2>1, <3>1 DEF Undisturbed, ThreadCarriesOffer, IsReply
    <2>6. ~Adopting' => (root = expected)'
      BY <2>1 DEF Undisturbed, Adopting
    <2> QED
      BY <2>3, <2>4, <2>5, <2>6
  <1>5. Undisturbed'
    BY <1>4 DEF Undisturbed
  <1> QED
    BY <1>1, <1>2, <1>3, <1>5 DEF AdoptionInv

(* The inbox gains or loses a call: `from` tells where each message that   *)
(* is no call was, and every such message is still there.                  *)
LEMMA CallMessageStep ==
  ASSUME AdoptionInv, inbox' \in Seq(Messages),
         UNCHANGED <<kind, config, root, offered, asking, task, expected, excused>>,
         NEW from,
         \A k \in DOMAIN inbox' : inbox'[k].what # "call" =>
           from[k] \in DOMAIN inbox /\ inbox[from[k]] = inbox'[k],
         \A j, k \in DOMAIN inbox' : from[j] = from[k] => j = k,
         \A k \in DOMAIN inbox : inbox[k].what # "call" =>
           \E j \in DOMAIN inbox' : inbox'[j] = inbox[k]
  PROVE  AdoptionInv'
  <1>1. SessionTypes'
    BY DEF AdoptionInv, SessionTypes, IsTask
  <1>2. RequestsAreAnsweredOnce'
    <2>1. \A k \in DOMAIN inbox' : IsReply(inbox'[k]) => inbox'[k].what # "call"
      BY DEF IsReply
    <2> QED
      BY <2>1 DEF AdoptionInv, RequestsAreAnsweredOnce, IsReply
  <1>3. WithoutAdoption'
    BY DEF AdoptionInv, WithoutAdoption, Adopts
  <1>4. ASSUME Adopts', ~excused'
        PROVE  /\ (expected = Promised(offered, root))'
               /\ OneThread' /\ ThreadCarriesOffer'
               /\ ~Adopting' => (root = expected)'
    <2>1. Undisturbed /\ Adopts /\ ~excused /\ offered \in Lists
      BY <1>4 DEF AdoptionInv, SessionTypes, Adopts
    <2>2. \A u : Candidate(u)' = Candidate(u)
      BY SameCandidates
    <2>3. (expected = Promised(offered, root))'
      BY <2>1, <2>2, SamePromise DEF Undisturbed
    <2>4. OneThread'
      BY <2>1 DEF Undisturbed, OneThread, Busy, IsNotice
    <2>5. ThreadCarriesOffer'
      BY <2>1, <2>2 DEF Undisturbed, ThreadCarriesOffer, IsReply
    <2>6. ~Adopting' => (root = expected)'
      BY <2>1 DEF Undisturbed, Adopting
    <2> QED
      BY <2>3, <2>4, <2>5, <2>6
  <1>5. Undisturbed'
    BY <1>4 DEF Undisturbed
  <1> QED
    BY <1>1, <1>2, <1>3, <1>5 DEF AdoptionInv

LEMMA SendCallStep ==
  ASSUME AdoptionInv, NEW c \in Calls, SendCall(c)
  PROVE  AdoptionInv'
  <1>1. PICK m \in Messages : inbox' = Append(inbox, m) /\ m.what = "call"
    <2>1. \A q \in ToolRequests : [what |-> "call", call |-> c, request |-> q] \in Messages
      BY DEF Messages
    <2> QED
      BY <2>1 DEF SendCall
  <1>2. inbox \in Seq(Messages)
    BY DEF AdoptionInv, SessionTypes
  <1> DEFINE from == [k \in DOMAIN inbox' |-> k]
  <1>3. \A k \in DOMAIN inbox' : inbox'[k].what # "call" =>
          from[k] \in DOMAIN inbox /\ inbox[from[k]] = inbox'[k]
    BY <1>1, <1>2, Arrives
  <1>4. \A k \in DOMAIN inbox : \E j \in DOMAIN inbox' : inbox'[j] = inbox[k]
    BY <1>1, <1>2, Arrives
  <1>5. inbox' \in Seq(Messages)
    BY <1>1, <1>2
  <1>6. UNCHANGED <<kind, config, root, offered, asking, task, expected, excused>>
    BY DEF SendCall, world, client
  <1>7. \A j, k \in DOMAIN inbox' : from[j] = from[k] => j = k
    OBVIOUS
  <1> HIDE DEF from
  <1> QED
    BY <1>3, <1>4, <1>5, <1>6, <1>7, CallMessageStep

LEMMA ReceiveCallStep ==
  ASSUME AdoptionInv, ReceiveCall
  PROVE  AdoptionInv'
  <1>1. inbox # <<>> /\ inbox' = Tail(inbox) /\ Head(inbox).what = "call"
    BY DEF ReceiveCall, Receives
  <1>2. inbox \in Seq(Messages)
    BY DEF AdoptionInv, SessionTypes
  <1> DEFINE from == [k \in DOMAIN inbox' |-> k + 1]
  <1>3. \A k \in DOMAIN inbox' : inbox'[k].what # "call" =>
          from[k] \in DOMAIN inbox /\ inbox[from[k]] = inbox'[k]
    BY <1>1, <1>2, Leaves
  <1>4. \A k \in DOMAIN inbox : inbox[k].what # "call" => \E j \in DOMAIN inbox' : inbox'[j] = inbox[k]
    BY <1>1, <1>2, Leaves
  <1>5. inbox' \in Seq(Messages)
    BY <1>1, <1>2
  <1>6. UNCHANGED <<kind, config, root, offered, asking, task, expected, excused>>
    BY DEF ReceiveCall, Receives, world, client
  <1>7. \A j, k \in DOMAIN inbox' : from[j] = from[k] => j = k
    BY <1>1, <1>2
  <1> HIDE DEF from
  <1> QED
    BY <1>3, <1>4, <1>5, <1>6, <1>7, CallMessageStep

LEMMA AnnounceListStep ==
  ASSUME AdoptionInv, AnnounceList
  PROVE  AdoptionInv'
  <1>1. inbox \in Seq(Messages)
    BY DEF AdoptionInv, SessionTypes
  <1> DEFINE m == [what |-> "list_changed"]
  <1>2. m \in Messages /\ inbox' = Append(inbox, m) /\ m.what = "list_changed"
    BY DEF AnnounceList, Messages
  <1> HIDE DEF m
  <1>3. PICK list \in Lists : /\ offered' = list
                              /\ expected' = Promised(list, expected)
                              /\ excused' = (Adopting \/ (excused /\ Promised(list, None) = None))
    BY DEF AnnounceList
  <1>4. UNCHANGED <<kind, config, root, asking, task>>
    BY DEF AnnounceList, world
  <1>5. SessionTypes'
    BY <1>1, <1>2, <1>3, <1>4, Arrives DEF AdoptionInv, SessionTypes, IsTask
  <1>6. RequestsAreAnsweredOnce'
    BY <1>1, <1>2, <1>4, Arrives DEF AdoptionInv, RequestsAreAnsweredOnce, IsReply
  <1>7. WithoutAdoption'
    BY <1>3, <1>4 DEF AdoptionInv, WithoutAdoption, Adopts, Promised
  <1>8. ASSUME Adopts', ~excused'
        PROVE  /\ (expected = Promised(offered, root))'
               /\ OneThread' /\ ThreadCarriesOffer'
               /\ Adopting'
    <2>1. Adopts /\ ~Adopting /\ (excused => Promised(list, None) # None)
      BY <1>3, <1>4, <1>8 DEF Adopts
    <2>2. Promised(list, expected) = Promised(list, root)
      <3>1. CASE excused
        BY <3>1, <2>1, UsablePromise
      <3>2. CASE ~excused
        BY <3>2, <2>1 DEF AdoptionInv, Undisturbed
      <3> QED
        BY <3>1, <3>2 DEF AdoptionInv, SessionTypes
    <2>3. (Promised(list, root))' = Promised(list, root)
      BY <1>4, SameCandidates, SamePromise
    <2>4. (expected = Promised(offered, root))'
      BY <1>3, <1>4, <2>2, <2>3
    <2>5. /\ \A k \in DOMAIN inbox : inbox[k].what = "call"
          /\ \A t \in Tasks : ~Busy(t)
      BY <2>1 DEF Adopting, Busy
    <2>6. OneThread'
      BY <1>1, <1>2, <1>4, <2>5, Arrives DEF OneThread, Busy
    <2>7. ThreadCarriesOffer'
      BY <1>1, <1>2, <1>4, <2>5, Arrives DEF ThreadCarriesOffer, Busy, IsReply
    <2>8. Adopting'
      BY <1>1, <1>2, Arrives DEF Adopting
    <2> QED
      BY <2>4, <2>6, <2>7, <2>8
  <1>9. Undisturbed'
    BY <1>8 DEF Undisturbed
  <1> QED
    BY <1>5, <1>6, <1>7, <1>9 DEF AdoptionInv

LEMMA AnswerRootsRequestStep ==
  ASSUME AdoptionInv, NEW t \in Tasks, AnswerRootsRequest(t)
  PROVE  AdoptionInv'
  <1>1. inbox \in Seq(Messages) /\ offered \in Lists
    BY DEF AdoptionInv, SessionTypes
  <1>2. PICK m \in Messages : /\ inbox' = Append(inbox, m)
                              /\ IsReply(m) /\ m.task = t
                              /\ ~excused' => m.what = "roots" /\ m.list = offered /\ ~excused
                              /\ excused' \in BOOLEAN
    <2>1. CASE /\ inbox' = Append(inbox, [what |-> "roots", task |-> t, list |-> offered])
               /\ excused' = excused
      <3>1. [what |-> "roots", task |-> t, list |-> offered] \in Messages
        BY <1>1 DEF Messages
      <3> QED
        BY <2>1, <3>1 DEF IsReply, AdoptionInv, SessionTypes
    <2>2. CASE inbox' = Append(inbox, [what |-> "error", task |-> t]) /\ excused' = TRUE
      <3>1. [what |-> "error", task |-> t] \in Messages
        BY DEF Messages
      <3> QED
        BY <2>2, <3>1 DEF IsReply
    <2> QED
      BY <2>1, <2>2 DEF AnswerRootsRequest
  <1>3. /\ t \in asking /\ asking' = asking \ {t}
        /\ UNCHANGED <<kind, config, root, offered, task, expected>>
    BY DEF AnswerRootsRequest, world
  <1>4. SessionTypes'
    BY <1>1, <1>2, <1>3, Arrives DEF AdoptionInv, SessionTypes, IsTask
  <1>5. task[t].phase = "asked"
    BY <1>3 DEF AdoptionInv, RequestsAreAnsweredOnce
  <1>6. RequestsAreAnsweredOnce'
    BY <1>1, <1>2, <1>3, <1>5, Arrives DEF AdoptionInv, RequestsAreAnsweredOnce, IsReply
  <1>7. WithoutAdoption'
    BY <1>3 DEF AdoptionInv, WithoutAdoption, Adopts
  <1>8. ASSUME Adopts', ~excused'
        PROVE  /\ (expected = Promised(offered, root))'
               /\ OneThread' /\ ThreadCarriesOffer'
               /\ Adopting'
    <2>1. Undisturbed /\ Adopts /\ ~excused
      BY <1>2, <1>3, <1>8 DEF AdoptionInv, Adopts
    <2>2. \A u : Candidate(u)' = Candidate(u)
      BY <1>3, SameCandidates
    <2>3. (expected = Promised(offered, root))'
      BY <1>1, <1>3, <2>1, <2>2, SamePromise DEF Undisturbed
    <2>4. \A k \in DOMAIN inbox : inbox[k].what = "call"
      <3>1. Busy(t)
        BY <1>5 DEF Busy
      <3>2. SUFFICES ASSUME NEW k \in DOMAIN inbox, inbox[k].what # "call"
                     PROVE  FALSE
        OBVIOUS
      <3>3. inbox[k] \in Messages
        BY <1>1
      <3>4. IsReply(inbox[k])
        BY <2>1, <3>1, <3>2, <3>3, MessageShape DEF Undisturbed, OneThread, IsNotice, IsReply
      <3>5. inbox[k].task \in Tasks \ asking /\ Busy(inbox[k].task)
        BY <3>4 DEF AdoptionInv, RequestsAreAnsweredOnce, Busy
      <3> QED
        BY <1>3, <2>1, <3>1, <3>5 DEF Undisturbed, OneThread
    <2>5. OneThread'
      BY <1>1, <1>2, <1>3, <2>1, <2>4, Arrives DEF Undisturbed, OneThread, Busy, IsNotice, IsReply
    <2>6. ThreadCarriesOffer'
      BY <1>1, <1>2, <1>3, <1>8, <2>1, <2>2, Arrives DEF Undisturbed, ThreadCarriesOffer, IsReply
    <2>7. Adopting'
      BY <1>3, <1>5 DEF Adopting
    <2> QED
      BY <2>3, <2>5, <2>6, <2>7
  <1>9. Undisturbed'
    BY <1>8 DEF Undisturbed
  <1> QED
    BY <1>4, <1>6, <1>7, <1>9 DEF AdoptionInv

(* A task that changes its phase keeps the rest.                           *)
LEMMA PhaseChange ==
  ASSUME SessionTypes, NEW t \in Tasks, NEW p, task' = [task EXCEPT ![t].phase = p]
  PROVE  /\ DOMAIN task' = Tasks /\ task' = [s \in Tasks |-> task'[s]]
         /\ \A s \in Tasks \ {t} : task'[s] = task[s]
         /\ IsTask(task'[t]) /\ task'[t].phase = p
         /\ task'[t].list = task[t].list /\ task'[t].next = task[t].next
         /\ task'[t].place = task[t].place
  <1> USE DEF SessionTypes
  <1>1. task' = [s \in Tasks |-> IF s = t THEN [task[t] EXCEPT !.phase = p] ELSE task[s]]
    OBVIOUS
  <1>2. task[t] = [phase |-> task[t].phase, list |-> task[t].list,
                   next |-> task[t].next, place |-> task[t].place]
    BY DEF IsTask
  <1>3. [task[t] EXCEPT !.phase = p]
          = [phase |-> p, list |-> task[t].list, next |-> task[t].next, place |-> task[t].place]
    BY <1>2
  <1>4. task'[t] = [phase |-> p, list |-> task[t].list, next |-> task[t].next, place |-> task[t].place]
    BY <1>1, <1>3
  <1>5. /\ task'[t].phase = p /\ task'[t].list = task[t].list
        /\ task'[t].next = task[t].next /\ task'[t].place = task[t].place
    BY <1>4
  <1>6. IsTask(task'[t])
    BY <1>4, <1>5 DEF IsTask
  <1>7. DOMAIN task' = Tasks /\ \A s \in Tasks \ {t} : task'[s] = task[s]
    BY <1>1
  <1>8. task' = [s \in Tasks |-> task'[s]]
    BY <1>1, Zenon
  <1> QED
    BY <1>5, <1>6, <1>7, <1>8

(* The tasks stay tasks when one of them goes on to its next phase.        *)
LEMMA PhaseChangeTypes ==
  ASSUME SessionTypes, NEW t \in Tasks, NEW p, task' = [task EXCEPT ![t].phase = p],
         p \in {"spawned", "asked", "done"}, p # "done" => task[t].next = 1,
         inbox' \in Seq(Messages), asking' \subseteq Tasks,
         UNCHANGED <<offered, excused>>
  PROVE  SessionTypes'
  <1>1. /\ DOMAIN task' = Tasks /\ task' = [s \in Tasks |-> task'[s]]
        /\ \A s \in Tasks \ {t} : task'[s] = task[s]
        /\ IsTask(task'[t]) /\ task'[t].phase = p /\ task'[t].next = task[t].next
    BY PhaseChange
  <1>2. ASSUME NEW s \in Tasks
        PROVE  /\ IsTask(task'[s])
               /\ task'[s].next \in Nat \ {0}
               /\ task'[s].phase \in {"none", "spawned", "asked", "try", "install", "done"}
               /\ task'[s].phase \in {"none", "spawned", "asked"} => task'[s].next = 1
    <2>1. CASE s = t
      BY <1>1, <2>1 DEF SessionTypes
    <2>2. CASE s # t
      BY <1>1, <2>2 DEF SessionTypes
    <2> QED
      BY <2>1, <2>2
  <1> QED
    BY <1>1, <1>2 DEF SessionTypes

LEMMA SpawnAdoptionStep ==
  ASSUME AdoptionInv, SpawnAdoption
  PROVE  AdoptionInv'
  <1>1. inbox \in Seq(Messages) /\ SessionTypes
    BY DEF AdoptionInv, SessionTypes
  <1>2. /\ inbox # <<>> /\ inbox' = Tail(inbox) /\ IsNotice(inbox[1])
        /\ UNCHANGED <<kind, config, root, offered, asking, expected, excused>>
    BY <1>1 DEF SpawnAdoption, Receives, world, client, IsNotice
  <1>3. PICK t \in Tasks : /\ task[t].phase = "none"
                           /\ task' = [task EXCEPT ![t].phase = "spawned"]
    BY DEF SpawnAdoption
  <1>4. SessionTypes'
    <2>1. task[t].next = 1 /\ inbox' \in Seq(Messages) /\ asking' \subseteq Tasks
      BY <1>1, <1>2, <1>3, Leaves DEF SessionTypes
    <2> QED
      BY <1>1, <1>2, <1>3, <2>1, PhaseChangeTypes
  <1>5. RequestsAreAnsweredOnce'
    <2>1. \A s \in Tasks : task[s].phase = "asked" => task'[s].phase = "asked"
      BY <1>1, <1>3, PhaseChange
    <2>2. \A k \in DOMAIN inbox' : /\ k + 1 \in DOMAIN inbox
                                   /\ inbox'[k] = inbox[k + 1]
                                   /\ \A j \in DOMAIN inbox' : j + 1 = k + 1 => j = k
      BY <1>1, <1>2, Leaves
    <2>3. \A t1 \in asking : task'[t1].phase = "asked"
      BY <1>1, <2>1 DEF AdoptionInv, RequestsAreAnsweredOnce, SessionTypes
    <2>4. ASSUME NEW k \in DOMAIN inbox', IsReply(inbox'[k])
          PROVE  /\ inbox'[k].task \in Tasks \ asking
                 /\ task'[inbox'[k].task].phase = "asked"
                 /\ \A j \in DOMAIN inbox' :
                      IsReply(inbox'[j]) /\ inbox'[j].task = inbox'[k].task => j = k
      BY <2>1, <2>2, <2>4 DEF AdoptionInv, RequestsAreAnsweredOnce
    <2> QED
      BY <1>2, <2>3, <2>4 DEF RequestsAreAnsweredOnce, IsReply
  <1>6. WithoutAdoption'
    BY <1>1, <1>2, <1>3, PhaseChange DEF AdoptionInv, WithoutAdoption, Adopts
  <1>7. ASSUME Adopts', ~excused'
        PROVE  /\ (expected = Promised(offered, root))'
               /\ OneThread' /\ ThreadCarriesOffer'
               /\ Adopting'
    <2>1. Undisturbed /\ Adopts /\ ~excused
      BY <1>2, <1>7 DEF AdoptionInv, Adopts
    <2>2. \A u : Candidate(u)' = Candidate(u)
      BY <1>2, SameCandidates
    <2>3. (expected = Promised(offered, root))'
      BY <1>2, <2>1, <2>2, SamePromise DEF Undisturbed, AdoptionInv, SessionTypes
    <2>4. \A s \in Tasks : ~Busy(s)
      BY <1>1, <1>2, <2>1, Leaves DEF Undisturbed, OneThread
    <2>5. \A k \in DOMAIN inbox' : inbox'[k].what = "call"
      <3>1. inbox[1].what # "call"
        BY <1>2 DEF IsNotice
      <3> QED
        BY <1>1, <1>2, <2>1, <3>1, Leaves DEF Undisturbed, OneThread
    <2>6. OneThread'
      BY <1>1, <1>3, <2>4, <2>5, PhaseChange DEF OneThread, Busy, IsNotice
    <2>7. ThreadCarriesOffer'
      <3>1. \A s \in Tasks : task'[s].phase \notin {"try", "install"}
        BY <1>1, <1>3, <2>4, PhaseChange DEF Busy
      <3> QED
        BY <2>5, <3>1 DEF ThreadCarriesOffer, IsReply
    <2>8. Adopting'
      <3>1. task'[t].phase = "spawned"
        BY <1>1, <1>3, PhaseChange
      <3> QED
        BY <3>1 DEF Adopting
    <2> QED
      BY <2>3, <2>6, <2>7, <2>8
  <1>8. Undisturbed'
    BY <1>7 DEF Undisturbed
  <1> QED
    BY <1>4, <1>5, <1>6, <1>8 DEF AdoptionInv

LEMMA AskForRootsStep ==
  ASSUME AdoptionInv, NEW t \in Tasks, AskForRoots(t)
  PROVE  AdoptionInv'
  <1>1. SessionTypes /\ task[t].phase = "spawned" /\ offered \in Lists
    BY DEF AdoptionInv, SessionTypes, AskForRoots
  <1>2. UNCHANGED <<kind, config, root, inbox, offered, expected, excused>>
    BY DEF AskForRoots, world
  <1>3. CASE Adopts
    <2>1. task' = [task EXCEPT ![t].phase = "asked"] /\ asking' = asking \cup {t}
      BY <1>3 DEF AskForRoots
    <2>2. SessionTypes'
      <3>1. task[t].next = 1 /\ inbox' \in Seq(Messages) /\ asking' \subseteq Tasks
        BY <1>1, <1>2, <2>1 DEF SessionTypes
      <3> QED
        BY <1>1, <1>2, <2>1, <3>1, PhaseChangeTypes
    <2>3. RequestsAreAnsweredOnce'
      <3>1. /\ \A s \in Tasks : task[s].phase = "asked" => task'[s].phase = "asked" /\ s # t
            /\ task'[t].phase = "asked"
        BY <1>1, <2>1, PhaseChange
      <3> QED
        BY <1>2, <2>1, <3>1, ZenonT(40) DEF AdoptionInv, RequestsAreAnsweredOnce, IsReply, SessionTypes
    <2>4. WithoutAdoption'
      BY <1>2, <1>3 DEF WithoutAdoption, Adopts
    <2>5. ASSUME ~excused'
          PROVE  /\ (expected = Promised(offered, root))'
                 /\ OneThread' /\ ThreadCarriesOffer'
                 /\ Adopting'
      <3>1. Undisturbed /\ ~excused
        BY <1>2, <2>5 DEF AdoptionInv
      <3>2. \A u : Candidate(u)' = Candidate(u)
        BY <1>2, SameCandidates
      <3>3. (expected = Promised(offered, root))'
        BY <1>1, <1>2, <1>3, <3>1, <3>2, SamePromise DEF Undisturbed
      <3>4. \A s \in Tasks : Busy(s)' <=> Busy(s)
        BY <1>1, <2>1, PhaseChange DEF Busy
      <3>5. OneThread'
        BY <1>2, <1>3, <3>1, <3>4 DEF Undisturbed, OneThread, IsNotice
      <3>6. ThreadCarriesOffer'
        <4>1. \A s \in Tasks : task'[s].phase \in {"try", "install"} => task'[s] = task[s]
          BY <1>1, <2>1, PhaseChange
        <4> QED
          BY <1>2, <1>3, <3>1, <3>2, <4>1 DEF Undisturbed, ThreadCarriesOffer, IsReply
      <3>7. Adopting'
        BY <1>1, <2>1, PhaseChange DEF Adopting
      <3> QED
        BY <3>3, <3>5, <3>6, <3>7
    <2>6. Undisturbed'
      BY <2>5 DEF Undisturbed
    <2> QED
      BY <2>2, <2>3, <2>4, <2>6 DEF AdoptionInv
  <1>4. CASE ~Adopts
    <2>1. task' = [task EXCEPT ![t].phase = "done"] /\ asking' = asking
      BY <1>4 DEF AskForRoots, Finish
    <2>2. SessionTypes'
      <3>1. inbox' \in Seq(Messages) /\ asking' \subseteq Tasks
        BY <1>1, <1>2, <2>1 DEF SessionTypes
      <3> QED
        BY <1>1, <1>2, <2>1, <3>1, PhaseChangeTypes
    <2>3. RequestsAreAnsweredOnce'
      <3>1. \A s \in Tasks : task[s].phase = "asked" => task'[s].phase = "asked"
        BY <1>1, <2>1, PhaseChange
      <3> QED
        BY <1>2, <2>1, <3>1 DEF AdoptionInv, RequestsAreAnsweredOnce, IsReply, SessionTypes
    <2>4. WithoutAdoption'
      BY <1>1, <1>2, <1>4, <2>1, PhaseChange DEF AdoptionInv, WithoutAdoption, Adopts
    <2>5. Undisturbed'
      BY <1>2, <1>4 DEF Undisturbed, Adopts
    <2> QED
      BY <2>2, <2>3, <2>4, <2>5 DEF AdoptionInv
  <1> QED
    BY <1>3, <1>4

(* A task takes on other contents.                                         *)
LEMMA TaskChange ==
  ASSUME SessionTypes, NEW t \in Tasks, NEW x, IsTask(x),
         x.next \in Nat \ {0}, x.phase \in {"try", "install"},
         task' = [s \in Tasks |-> IF s = t THEN x ELSE task[s]],
         inbox' \in Seq(Messages),
         UNCHANGED <<offered, asking, excused>>
  PROVE  /\ SessionTypes'
         /\ task'[t] = x /\ \A s \in Tasks \ {t} : task'[s] = task[s]
  <1>1. /\ DOMAIN task' = Tasks /\ \A s \in Tasks \ {t} : task'[s] = task[s]
        /\ task'[t] = x
    OBVIOUS
  <1>2. task' = [s \in Tasks |-> task'[s]]
    BY Zenon
  <1>3. ASSUME NEW s \in Tasks
        PROVE  /\ IsTask(task'[s])
               /\ task'[s].next \in Nat \ {0}
               /\ task'[s].phase \in {"none", "spawned", "asked", "try", "install", "done"}
               /\ task'[s].phase \in {"none", "spawned", "asked"} => task'[s].next = 1
    <2>1. CASE s = t
      BY <1>1, <2>1
    <2>2. CASE s # t
      BY <1>1, <2>2 DEF SessionTypes
    <2> QED
      BY <2>1, <2>2
  <1> QED
    BY <1>1, <1>2, <1>3 DEF SessionTypes

(* A task ends without an effect on the root.                              *)
LEMMA EndStep ==
  ASSUME SessionTypes, RequestsAreAnsweredOnce, WithoutAdoption,
         NEW t \in Tasks, Finish(t), task[t].phase # "asked",
         UNCHANGED <<kind, config, root, inbox, offered, asking, expected, excused>>
  PROVE  /\ SessionTypes' /\ RequestsAreAnsweredOnce' /\ WithoutAdoption'
         /\ \A s \in Tasks : Busy(s)' => Busy(s) /\ s # t
         /\ \A s \in Tasks : Busy(s)' => task'[s] = task[s]
  <1>1. task' = [task EXCEPT ![t].phase = "done"]
    BY DEF Finish
  <1>2. /\ task'[t].phase = "done" /\ \A s \in Tasks \ {t} : task'[s] = task[s]
    BY <1>1, PhaseChange
  <1>3. SessionTypes'
    <2>1. inbox' \in Seq(Messages) /\ asking' \subseteq Tasks
      BY DEF SessionTypes
    <2> QED
      BY <1>1, <2>1, PhaseChangeTypes
  <1>4. RequestsAreAnsweredOnce'
    <2>1. \A s \in Tasks : task[s].phase = "asked" => task'[s].phase = "asked"
      BY <1>2
    <2> QED
      BY <2>1 DEF RequestsAreAnsweredOnce, IsReply, SessionTypes
  <1>5. WithoutAdoption'
    BY <1>2 DEF WithoutAdoption, Adopts
  <1>6. \A s \in Tasks : Busy(s)' => Busy(s) /\ s # t /\ task'[s] = task[s]
    BY <1>2 DEF Busy
  <1> QED
    BY <1>3, <1>4, <1>5, <1>6

LEMMA InstallRootStep ==
  ASSUME AdoptionInv, NEW t \in Tasks, InstallRoot(t)
  PROVE  AdoptionInv'
  <1>1. /\ task[t].phase = "install" /\ root' = task[t].place /\ Finish(t)
        /\ UNCHANGED <<kind, config, inbox, offered, asking, expected, excused>>
    BY DEF InstallRoot, world, client
  <1>2. Adopts
    BY <1>1 DEF AdoptionInv, WithoutAdoption
  <1>3. task' = [task EXCEPT ![t].phase = "done"] /\ SessionTypes
    BY <1>1 DEF Finish, AdoptionInv
  <1>4. /\ task'[t].phase = "done" /\ \A s \in Tasks \ {t} : task'[s] = task[s]
    BY <1>3, PhaseChange
  <1>5. SessionTypes'
    <2>1. inbox' \in Seq(Messages) /\ asking' \subseteq Tasks
      BY <1>1, <1>3 DEF SessionTypes
    <2> QED
      BY <1>1, <1>3, <2>1, PhaseChangeTypes
  <1>6. RequestsAreAnsweredOnce'
    <2>1. \A s \in Tasks : task[s].phase = "asked" => task'[s].phase = "asked"
      BY <1>1, <1>4
    <2> QED
      BY <1>1, <2>1 DEF AdoptionInv, RequestsAreAnsweredOnce, IsReply, SessionTypes
  <1>7. WithoutAdoption'
    BY <1>1, <1>2 DEF WithoutAdoption, Adopts
  <1>8. ASSUME ~excused'
        PROVE  /\ (expected = Promised(offered, root))'
               /\ OneThread' /\ ThreadCarriesOffer'
               /\ (root = expected)'
    <2>1. Undisturbed /\ ~excused /\ offered \in Lists
      BY <1>1, <1>3, <1>8 DEF AdoptionInv, SessionTypes
    <2>2. root' = expected
      BY <1>1, <1>2, <2>1 DEF Undisturbed, ThreadCarriesOffer
    <2>3. Promised(offered, root') = expected
      BY <1>2, <2>1, <2>2, PromiseOrRoot DEF Undisturbed
    <2>4. (expected = Promised(offered, root))'
      <3>1. \A u : Candidate(u)' = Candidate(u)
        BY <1>1, SameCandidates
      <3>2. \A list \in Lists : \A r : Promised(list, r)' = Promised(list, r)
        BY <1>1, <3>1, SamePromise
      <3> QED
        BY <1>1, <2>1, <2>3, <3>2
    <2>5. \A s \in Tasks : Busy(s)' => Busy(s)
      BY <1>4 DEF Busy
    <2>6. OneThread'
      BY <1>1, <1>2, <2>1, <2>5 DEF Undisturbed, OneThread, IsNotice
    <2>7. ThreadCarriesOffer'
      <3>1. \A s \in Tasks : ~Busy(s)'
        BY <1>1, <1>2, <1>4, <2>1 DEF Undisturbed, OneThread, Busy
      <3>2. \A k \in DOMAIN inbox' : IsReply(inbox'[k]) => inbox'[k].what = "roots" /\ inbox'[k].list = offered'
        BY <1>1, <1>2, <2>1 DEF Undisturbed, ThreadCarriesOffer
      <3> QED
        BY <3>1, <3>2 DEF ThreadCarriesOffer, Busy, IsReply
    <2> QED
      BY <1>1, <2>2, <2>4, <2>6, <2>7
  <1>9. Undisturbed'
    BY <1>8 DEF Undisturbed
  <1> QED
    BY <1>5, <1>6, <1>7, <1>9 DEF AdoptionInv

(* What a task that tries its list finds, under adoption.                  *)
TryFound(t) ==
  \/ Finish(t) /\ task[t].next > Len(task[t].list)
  \/ /\ ~(task[t].next > Len(task[t].list))
     /\ Candidate(task[t].list[task[t].next]) = None
     /\ task' = [s \in Tasks |->
          IF s = t THEN [task[t] EXCEPT !.next = task[t].next + 1] ELSE task[s]]
  \/ /\ ~(task[t].next > Len(task[t].list))
     /\ Candidate(task[t].list[task[t].next]) # None
     /\ task' = [s \in Tasks |->
          IF s = t THEN [task[t] EXCEPT !.phase = "install",
                                        !.place = Candidate(task[t].list[task[t].next])]
          ELSE task[s]]

LEMMA TryRootStep ==
  ASSUME AdoptionInv, NEW t \in Tasks, TryRoot(t)
  PROVE  AdoptionInv'
  <1> DEFINE n == task[t].next
             list == task[t].list
  <1>1. /\ task[t].phase = "try" /\ SessionTypes
        /\ UNCHANGED <<kind, config, root, inbox, offered, asking, expected, excused>>
    BY DEF TryRoot, world, client, AdoptionInv
  <1>2. Adopts /\ ~config.pinned
    BY <1>1 DEF AdoptionInv, WithoutAdoption, Adopts
  <1>3. /\ n \in Nat \ {0} /\ offered \in Lists /\ inbox' \in Seq(Messages)
        /\ task[t] = [phase |-> "try", list |-> list, next |-> n, place |-> task[t].place]
    BY <1>1 DEF SessionTypes, IsTask
  <1>4. \A s \in Tasks \ {t} : ~excused /\ Busy(s) => FALSE
    BY <1>1, <1>2 DEF AdoptionInv, Undisturbed, OneThread, Busy
  <1>5. ~excused => list = offered /\ \A k \in DOMAIN offered : k < n => Candidate(offered[k]) = None
    BY <1>1, <1>2 DEF AdoptionInv, Undisturbed, ThreadCarriesOffer
  <1>6. \A u : Candidate(u)' = Candidate(u)
    BY <1>1, SameCandidates
  <1>7. \A l \in Lists : \A r : Promised(l, r)' = Promised(l, r)
    BY <1>1, <1>6, SamePromise
  <1>8. ~excused' => (expected = Promised(offered, root))'
    BY <1>1, <1>2, <1>3, <1>7 DEF AdoptionInv, Undisturbed
  <1>9. WithoutAdoption'
    BY <1>1, <1>2 DEF WithoutAdoption, Adopts
  <1>10. ASSUME task'[t].phase \in {"try", "install", "done"},
                \A s \in Tasks \ {t} : task'[s] = task[s]
         PROVE  RequestsAreAnsweredOnce' /\ (~excused' => OneThread')
    <2>1. \A s \in Tasks : task[s].phase = "asked" => task'[s].phase = "asked"
      BY <1>1, <1>10
    <2>2. RequestsAreAnsweredOnce'
      BY <1>1, <2>1 DEF AdoptionInv, RequestsAreAnsweredOnce, IsReply, SessionTypes
    <2>3. \A s \in Tasks : Busy(s)' => Busy(s)
      BY <1>1, <1>10 DEF Busy
    <2> QED
      BY <1>1, <1>2, <2>2, <2>3 DEF AdoptionInv, Undisturbed, OneThread, IsNotice
  <1>11. ~excused' => \A k \in DOMAIN inbox' : IsReply(inbox'[k]) =>
                        inbox'[k].what = "roots" /\ inbox'[k].list = offered'
    BY <1>1, <1>2 DEF AdoptionInv, Undisturbed, ThreadCarriesOffer
  <1>12. CASE Finish(t) /\ n > Len(list)
    <2>1. task' = [task EXCEPT ![t].phase = "done"]
      BY <1>12 DEF Finish
    <2>2. task'[t].phase = "done" /\ \A s \in Tasks \ {t} : task'[s] = task[s]
      BY <1>1, <2>1, PhaseChange
    <2>3. SessionTypes'
      <3>1. asking' \subseteq Tasks
        BY <1>1 DEF SessionTypes
      <3> QED
        BY <1>1, <1>3, <2>1, <3>1, PhaseChangeTypes
    <2>4. ASSUME ~excused'
          PROVE  ThreadCarriesOffer' /\ (root = expected)'
      <3>1. list = offered /\ \A k \in DOMAIN offered : k < n => Candidate(offered[k]) = None
        BY <1>1, <1>5, <2>4
      <3>2. \A k \in DOMAIN offered : k < n
        BY <1>3, <1>12, <3>1, ServerAssumption
      <3>3. Promised(offered, root) = root
        BY <3>1, <3>2, NothingUsable
      <3>4. root = expected
        BY <1>1, <1>2, <2>4, <3>3 DEF AdoptionInv, Undisturbed
      <3>5. \A s \in Tasks : ~Busy(s)'
        BY <1>1, <1>4, <2>2, <2>4 DEF Busy
      <3> QED
        BY <1>1, <1>11, <2>4, <3>4, <3>5 DEF ThreadCarriesOffer, Busy, IsReply
    <2>5. Undisturbed'
      BY <1>8, <1>10, <2>2, <2>4 DEF Undisturbed
    <2> QED
      BY <1>9, <1>10, <2>2, <2>3, <2>5 DEF AdoptionInv
  <1>13. ASSUME NEW x, task' = [s \in Tasks |-> IF s = t THEN x ELSE task[s]],
                IsTask(x), x.next \in Nat \ {0}, x.phase \in {"try", "install"},
                ~excused => /\ x.phase = "try" => /\ x.list = offered
                                                 /\ \A k \in DOMAIN offered :
                                                      k < x.next => Candidate(offered[k]) = None
                            /\ x.phase = "install" => x.place = expected
         PROVE  AdoptionInv'
    <2>1. /\ SessionTypes'
          /\ task'[t] = x /\ \A s \in Tasks \ {t} : task'[s] = task[s]
      BY <1>1, <1>3, <1>13, TaskChange
    <2>2. Adopting'
      BY <1>13, <2>1 DEF Adopting
    <2>3. ASSUME ~excused'
          PROVE  ThreadCarriesOffer'
      <3>1. \A s \in Tasks \ {t} : ~Busy(s)'
        BY <1>1, <1>4, <2>1, <2>3 DEF Busy
      <3>2. \A s \in Tasks \ {t} : task'[s].phase \notin {"try", "install"}
        BY <3>1 DEF Busy
      <3>3. \A k \in DOMAIN offered : Candidate(offered[k])' = Candidate(offered[k])
        BY <1>1, <1>6
      <3>4. ASSUME NEW s \in Tasks
            PROVE  /\ task'[s].phase = "try" =>
                        /\ task'[s].list = offered'
                        /\ \A k \in DOMAIN offered' :
                             k < task'[s].next => (Candidate(offered[k]))' = None
                   /\ task'[s].phase = "install" => task'[s].place = expected'
        <4>1. CASE s = t
          BY <1>1, <1>13, <2>1, <2>3, <3>3, <4>1
        <4>2. CASE s # t
          BY <3>2, <4>2
        <4> QED
          BY <4>1, <4>2
      <3> QED
        BY <1>11, <2>3, <3>4 DEF ThreadCarriesOffer, IsReply
    <2>4. Undisturbed'
      BY <1>8, <1>10, <1>13, <2>1, <2>2, <2>3 DEF Undisturbed
    <2> QED
      BY <1>9, <1>10, <1>13, <2>1, <2>4 DEF AdoptionInv
  <1>14. CASE /\ ~(n > Len(list)) /\ Candidate(list[n]) = None
              /\ task' = [s \in Tasks |-> IF s = t THEN [task[t] EXCEPT !.next = n + 1] ELSE task[s]]
    <2> DEFINE x == [phase |-> "try", list |-> list, next |-> n + 1, place |-> task[t].place]
    <2>1. [task[t] EXCEPT !.next = n + 1] = x
      BY <1>3
    <2>2. IsTask(x) /\ x.next \in Nat \ {0} /\ x.phase = "try" /\ x.list = list /\ x.next = n + 1
      BY <1>3 DEF IsTask
    <2>3. task' = [s \in Tasks |-> IF s = t THEN x ELSE task[s]]
      BY <1>14, <2>1
    <2> HIDE DEF x
    <2>4. ~excused => \A k \in DOMAIN offered : k < n + 1 => Candidate(offered[k]) = None
      BY <1>3, <1>5, <1>14, ServerAssumption
    <2>5. ~excused => x.list = offered /\ \A k \in DOMAIN offered : k < x.next => Candidate(offered[k]) = None
      BY <1>5, <2>2, <2>4
    <2> QED
      BY <1>13, <2>2, <2>3, <2>5
  <1>15. CASE /\ ~(n > Len(list)) /\ Candidate(list[n]) # None
              /\ task' = [s \in Tasks |->
                   IF s = t THEN [task[t] EXCEPT !.phase = "install", !.place = Candidate(list[n])]
                   ELSE task[s]]
    <2> DEFINE x == [phase |-> "install", list |-> list, next |-> n, place |-> Candidate(list[n])]
    <2>1. [task[t] EXCEPT !.phase = "install", !.place = Candidate(list[n])] = x
      <3>1. IsTask(task[t])
        BY <1>1 DEF SessionTypes
      <3>2. DOMAIN task[t] = {"phase", "list", "next", "place"}
        BY <3>1 DEF IsTask
      <3>3. [task[t] EXCEPT !.phase = "install", !.place = Candidate(list[n])]
              = [f \in DOMAIN task[t] |-> IF f = "place" THEN Candidate(list[n])
                                          ELSE IF f = "phase" THEN "install" ELSE task[t][f]]
        BY <3>2
      <3> QED
        BY <3>2, <3>3
    <2>2. IsTask(x) /\ x.next \in Nat \ {0} /\ x.phase = "install" /\ x.place = Candidate(list[n])
      BY <1>3 DEF IsTask
    <2>3. task' = [s \in Tasks |-> IF s = t THEN x ELSE task[s]]
      BY <1>15, <2>1
    <2> HIDE DEF x
    <2>4. ~excused => Candidate(list[n]) = expected
      <3>1. ~excused => Promised(offered, root) = Candidate(offered[n])
        <4>1. ~excused => list = offered /\ n \in DOMAIN offered
          BY <1>3, <1>5, <1>15, ServerAssumption
        <4> QED
          BY <1>2, <1>3, <1>5, <1>15, <4>1, FirstUsable
      <3> QED
        BY <1>2, <1>5, <3>1 DEF AdoptionInv, Undisturbed
    <2> QED
      BY <1>13, <2>2, <2>3, <2>4
  <1>16. TryFound(t)
    BY <1>1, <1>2, <1>3 DEF TryFound, TryRoot, SessionTypes
  <1> QED
    BY <1>12, <1>14, <1>15, <1>16 DEF TryFound

LEMMA ReceiveRootsStep ==
  ASSUME AdoptionInv, ReceiveRoots
  PROVE  AdoptionInv'
  <1> DEFINE m == inbox[1]
             t == inbox[1].task
  <1>1. SessionTypes /\ inbox \in Seq(Messages) /\ offered \in Lists
    BY DEF AdoptionInv, SessionTypes
  <1>2. /\ inbox # <<>> /\ inbox' = Tail(inbox) /\ Head(inbox) = m /\ IsReply(m)
        /\ UNCHANGED <<kind, config, root, offered, asking, expected, excused>>
    BY <1>1 DEF ReceiveRoots, Receives, world, client, IsReply
  <1>3. 1 \in DOMAIN inbox /\ m \in Messages
    BY <1>1, <1>2, Leaves
  <1>4. /\ t \in Tasks \ asking /\ task[t].phase = "asked"
        /\ \A j \in DOMAIN inbox : IsReply(inbox[j]) /\ inbox[j].task = t => j = 1
    BY <1>2, <1>3 DEF AdoptionInv, RequestsAreAnsweredOnce
  <1>5. Adopts
    BY <1>4 DEF AdoptionInv, WithoutAdoption
  <1>6. /\ inbox' \in Seq(Messages)
        /\ \A k \in DOMAIN inbox' : /\ k + 1 \in DOMAIN inbox /\ inbox'[k] = inbox[k + 1] /\ k + 1 # 1
                                    /\ \A j \in DOMAIN inbox' : j + 1 = k + 1 => j = k
    BY <1>1, <1>2, Leaves
  <1>7. WithoutAdoption'
    BY <1>2, <1>5 DEF WithoutAdoption, Adopts
  <1>8. ASSUME \A s \in Tasks \ {t} : task'[s] = task[s]
        PROVE  RequestsAreAnsweredOnce'
    <2>1. \A s \in asking : task'[s].phase = "asked"
      BY <1>1, <1>4, <1>8 DEF AdoptionInv, RequestsAreAnsweredOnce, SessionTypes
    <2>2. ASSUME NEW k \in DOMAIN inbox', IsReply(inbox'[k])
          PROVE  /\ inbox'[k].task \in Tasks \ asking
                 /\ task'[inbox'[k].task].phase = "asked"
                 /\ \A j \in DOMAIN inbox' :
                      IsReply(inbox'[j]) /\ inbox'[j].task = inbox'[k].task => j = k
      <3>1. inbox'[k].task # t
        BY <1>4, <1>6, <2>2
      <3> QED
        BY <1>6, <1>8, <2>2, <3>1 DEF AdoptionInv, RequestsAreAnsweredOnce
    <2> QED
      BY <1>2, <2>1, <2>2 DEF RequestsAreAnsweredOnce, IsReply
  <1>9. CASE m.what = "error"
    <2>1. task' = [task EXCEPT ![t].phase = "done"]
      BY <1>2, <1>9 DEF ReceiveRoots, Finish
    <2>2. \A s \in Tasks \ {t} : task'[s] = task[s]
      BY <1>1, <1>4, <2>1, PhaseChange
    <2>3. SessionTypes'
      <3>1. asking' \subseteq Tasks
        BY <1>1, <1>2 DEF SessionTypes
      <3> QED
        BY <1>1, <1>2, <1>4, <1>6, <2>1, <3>1, PhaseChangeTypes
    <2>4. Undisturbed'
      <3>1. excused
        BY <1>2, <1>3, <1>5, <1>9, <1>1 DEF AdoptionInv, Undisturbed, ThreadCarriesOffer, SessionTypes
      <3> QED
        BY <1>2, <3>1 DEF Undisturbed
    <2> QED
      BY <1>7, <1>8, <2>2, <2>3, <2>4 DEF AdoptionInv
  <1>10. CASE m.what # "error"
    <2> DEFINE x == [phase |-> "try", list |-> m.list, next |-> task[t].next, place |-> task[t].place]
    <2>1. task' = [s \in Tasks |->
            IF s = t THEN [task[t] EXCEPT !.phase = "try", !.list = m.list] ELSE task[s]]
      <3>1. task' = [task EXCEPT ![t].phase = "try", ![t].list = m.list]
        BY <1>2, <1>10 DEF ReceiveRoots
      <3>2. task = [s \in Tasks |-> task[s]] /\ t \in Tasks
        BY <1>1, <1>4 DEF SessionTypes
      <3> QED
        BY <3>1, <3>2
    <2>2. [task[t] EXCEPT !.phase = "try", !.list = m.list] = x
      <3>1. IsTask(task[t])
        BY <1>1, <1>4 DEF SessionTypes
      <3>2. DOMAIN task[t] = {"phase", "list", "next", "place"}
        BY <3>1 DEF IsTask
      <3>3. [task[t] EXCEPT !.phase = "try", !.list = m.list]
              = [f \in DOMAIN task[t] |-> IF f = "list" THEN m.list
                                          ELSE IF f = "phase" THEN "try" ELSE task[t][f]]
        BY <3>2
      <3> QED
        BY <3>2, <3>3
    <2>3. task[t].next = 1
      BY <1>1, <1>4 DEF SessionTypes
    <2>4. IsTask(x) /\ x.next = 1 /\ x.phase = "try" /\ x.list = m.list
      BY <2>3 DEF IsTask
    <2>5. task' = [s \in Tasks |-> IF s = t THEN x ELSE task[s]]
      BY <2>1, <2>2
    <2> HIDE DEF x
    <2>6. /\ SessionTypes'
          /\ task'[t] = x /\ \A s \in Tasks \ {t} : task'[s] = task[s]
      BY <1>1, <1>2, <1>4, <1>6, <2>4, <2>5, TaskChange
    <2>7. ASSUME ~excused'
          PROVE  /\ (expected = Promised(offered, root))'
                 /\ OneThread' /\ ThreadCarriesOffer'
                 /\ Adopting'
      <3>1. Undisturbed /\ ~excused
        BY <1>2, <2>7 DEF AdoptionInv
      <3>2. \A u : Candidate(u)' = Candidate(u)
        BY <1>2, SameCandidates
      <3>3. (expected = Promised(offered, root))'
        BY <1>1, <1>2, <1>5, <3>1, <3>2, SamePromise DEF Undisturbed
      <3>4. \A k \in DOMAIN inbox' : inbox'[k].what = "call"
        <4>1. m.what # "call"
          BY <1>2 DEF IsReply
        <4> QED
          BY <1>3, <1>5, <1>6, <3>1, <4>1 DEF Undisturbed, OneThread
      <3>5. \A s \in Tasks \ {t} : ~Busy(s)'
        BY <1>4, <1>5, <2>6, <3>1 DEF Undisturbed, OneThread, Busy
      <3>6. OneThread'
        BY <3>4, <3>5 DEF OneThread, IsNotice
      <3>7. x.list = offered
        BY <1>2, <1>3, <1>5, <2>4, <3>1 DEF Undisturbed, ThreadCarriesOffer
      <3>8. ThreadCarriesOffer'
        <4>1. \A k \in DOMAIN offered : ~(k < 1)
          BY <1>1, ServerAssumption
        <4>2. \A s \in Tasks \ {t} : task'[s].phase \notin {"try", "install"}
          BY <3>5 DEF Busy
        <4> QED
          BY <1>2, <2>4, <2>6, <3>4, <3>7, <4>1, <4>2 DEF ThreadCarriesOffer, IsReply
      <3>9. Adopting'
        BY <1>4, <2>4, <2>6 DEF Adopting
      <3> QED
        BY <3>3, <3>6, <3>8, <3>9
    <2>8. Undisturbed'
      BY <2>7 DEF Undisturbed
    <2> QED
      BY <1>7, <1>8, <2>6, <2>8 DEF AdoptionInv
  <1> QED
    BY <1>9, <1>10

LEMMA WorkStep ==
  ASSUME AdoptionInv, NEW c \in Calls, Work(c)
  PROVE  AdoptionInv'
  <1>1. CallUnchanged
    BY DEF Work, Dispatch, Resolve, ActOnFile, StartWalk, ListEntry, StatEntry, AnswerGlob
  <1>2. UNCHANGED <<kind, config, root, inbox, offered, asking, task, expected, excused>>
    BY <1>1 DEF CallUnchanged, world, client
  <1> QED
    BY <1>2, StillStep, SameCandidates DEF AdoptionInv, SessionTypes

LEMMA OtherProgramsStep ==
  ASSUME AdoptionInv,
         \/ \E x \in Touchable : TouchFile(x)
         \/ \E x \in Movable : ChangePlace(x)
  PROVE  AdoptionInv'
  <1>1. UNCHANGED <<config, root, inbox, offered, asking, task, expected>>
    BY DEF TouchFile, ChangePlace, Disturbs, client
  <1>2. excused \in BOOLEAN
    BY DEF AdoptionInv, SessionTypes
  <1>3. CASE \E x \in Touchable : TouchFile(x)
    <2>1. kind' = kind /\ excused' = excused
      BY <1>3 DEF TouchFile
    <2> QED
      BY <1>1, <1>2, <2>1, StillStep, SameCandidates
  <1>4. CASE \E x \in Movable : ChangePlace(x)
    <2>1. excused' = (excused \/ \E list \in Lists : \E k \in DOMAIN list :
                                   Candidate(list[k])' # Candidate(list[k]))
      BY <1>4 DEF ChangePlace
    <2> QED
      BY <1>1, <1>2, <2>1, StillStep
  <1> QED
    BY <1>3, <1>4

LEMMA AdoptionStep == AdoptionInv /\ [Next]_vars => AdoptionInv'
  <1> SUFFICES ASSUME AdoptionInv, [Next]_vars
               PROVE  AdoptionInv'
    OBVIOUS
  <1>1. CASE AnnounceList
    BY <1>1, AnnounceListStep
  <1>2. ASSUME NEW t \in Tasks, AnswerRootsRequest(t)
        PROVE  AdoptionInv'
    BY <1>2, AnswerRootsRequestStep
  <1>3. ASSUME NEW c \in Calls, SendCall(c)
        PROVE  AdoptionInv'
    BY <1>3, SendCallStep
  <1>4. CASE Loop
    BY <1>4, SpawnAdoptionStep, ReceiveRootsStep, ReceiveCallStep DEF Loop
  <1>5. ASSUME NEW t \in Tasks, Adoption(t)
        PROVE  AdoptionInv'
    BY <1>5, AskForRootsStep, TryRootStep, InstallRootStep DEF Adoption
  <1>6. ASSUME NEW c \in Calls, Work(c)
        PROVE  AdoptionInv'
    BY <1>6, WorkStep
  <1>7. CASE \/ \E x \in Touchable : TouchFile(x)
             \/ \E x \in Movable : ChangePlace(x)
    BY <1>7, OtherProgramsStep
  <1>8. CASE UNCHANGED vars
    <2>1. UNCHANGED <<kind, config, root, inbox, offered, asking, task, expected, excused>>
      BY <1>8 DEF vars, world, client
    <2> QED
      BY <2>1, StillStep, SameCandidates DEF AdoptionInv, SessionTypes
  <1> QED
    BY <1>1, <1>2, <1>3, <1>4, <1>5, <1>6, <1>7, <1>8 DEF Next

LEMMA AdoptionInit == Init => AdoptionInv
  <1> SUFFICES ASSUME Init
               PROVE  AdoptionInv
    OBVIOUS
  <1>1. SessionTypes
    <2>1. inbox \in Seq(Messages)
      <3>1. [what |-> "initialized"] \in Messages
        BY DEF Messages
      <3> QED
        BY <3>1 DEF Init
    <2>2. \A t \in Tasks : task[t] = NoTask
      BY DEF Init
    <2>3. /\ IsTask(NoTask) /\ NoTask.next = 1 /\ NoTask.phase = "none"
      BY DEF NoTask, IsTask
    <2>4. task = [t \in Tasks |-> task[t]] /\ DOMAIN task = Tasks
      BY DEF Init
    <2>5. offered \in Lists /\ asking \subseteq Tasks /\ excused \in BOOLEAN
      BY DEF Init
    <2> HIDE DEF NoTask
    <2> QED
      BY <2>1, <2>2, <2>3, <2>4, <2>5 DEF SessionTypes
  <1>2. \A t \in Tasks : task[t].phase = "none"
    BY DEF Init, NoTask
  <1>3. \A j, k \in DOMAIN inbox : j = k /\ ~IsReply(inbox[k])
    BY DEF Init, IsReply
  <1>4. RequestsAreAnsweredOnce
    BY <1>3 DEF Init, RequestsAreAnsweredOnce
  <1>5. WithoutAdoption
    BY <1>2 DEF Init, WithoutAdoption, Promised
  <1>6. OneThread /\ ThreadCarriesOffer
    BY <1>2, <1>3 DEF OneThread, ThreadCarriesOffer, Busy
  <1>7. Adopting /\ expected = Promised(offered, root)
    BY DEF Init, Adopting
  <1> QED
    BY <1>1, <1>4, <1>5, <1>6, <1>7 DEF AdoptionInv, Undisturbed

(* Whatever the file system holds, however the service loop, the adoption  *)
(* tasks and the client interleave, and however many lists are announced:  *)
(* when adoption is at rest the root is the one the documentation promises *)
(* (adopt_client_roots, set_root), with QuietRootIsLatest's exceptions.    *)
THEOREM RootSettles == Spec => []QuietRootIsLatest
  <1>1. AdoptionInv => QuietRootIsLatest
    BY DEF AdoptionInv, WithoutAdoption, Undisturbed, QuietRootIsLatest, SessionTypes
  <1> QED
    BY <1>1, AdoptionInit, AdoptionStep, PTL DEF Spec

-------------------------------------------------------------------------------
(* Paths                                                                   *)

(* The trail of a path is the function its definition describes.           *)
LEMMA TrailIsDefined ==
  ASSUME NEW k, NEW r, NEW path, path.names \in Seq(Names \cup {DotDot})
  PROVE  LET start == IF path.absolute THEN Top ELSE r IN
         Trail(k, r, path) = [j \in 0 .. Len(path.names) |->
           IF j = 0 THEN IF k[start] = "none" THEN None ELSE start
           ELSE Follow(k, Trail(k, r, path)[j - 1], path.names[j])]
  <1> DEFINE start == IF path.absolute THEN Top ELSE r
             first == IF k[start] = "none" THEN None ELSE start
             IsTrail(f, n) == f = [j \in 0 .. n |->
               IF j = 0 THEN first ELSE Follow(k, f[j - 1], path.names[j])]
             Bad == {n \in Nat : ~ \E f : IsTrail(f, n)}
  <1>1. Trail(k, r, path) = CHOOSE f : IsTrail(f, Len(path.names))
    BY DEF Trail
  <1>2. Len(path.names) \in Nat
    OBVIOUS
  <1>3. \E f : IsTrail(f, 0)
    <2>1. IsTrail([j \in 0 .. 0 |-> first], 0)
      OBVIOUS
    <2> QED
      BY <2>1
  <1>4. ASSUME NEW n \in Nat, NEW f, IsTrail(f, n)
        PROVE  \E g : IsTrail(g, n + 1)
    <2> DEFINE g == [j \in 0 .. n + 1 |->
                      IF j = n + 1 THEN Follow(k, f[n], path.names[n + 1]) ELSE f[j]]
    <2>1. \A j \in 0 .. n + 1 :
            g[j] = IF j = 0 THEN first ELSE Follow(k, g[j - 1], path.names[j])
      <3>1. ASSUME NEW j \in 0 .. n
            PROVE  f[j] = IF j = 0 THEN first ELSE Follow(k, f[j - 1], path.names[j])
        BY <1>4
      <3>2. \A j \in 0 .. n : g[j] = f[j] /\ (j # 0 => g[j - 1] = f[j - 1])
        OBVIOUS
      <3>3. g[n + 1] = Follow(k, g[n], path.names[n + 1]) /\ n + 1 # 0 /\ n + 1 - 1 = n
        OBVIOUS
      <3> HIDE DEF g
      <3>4. \A j \in 0 .. n + 1 : j \in 0 .. n \/ j = n + 1
        OBVIOUS
      <3> QED
        BY <3>1, <3>2, <3>3, <3>4
    <2>2. IsTrail(g, n + 1)
      BY <2>1
    <2> QED
      BY <2>2
  <1> HIDE DEF IsTrail
  <1>5. Bad = {}
    <2> SUFFICES ASSUME Bad # {} PROVE FALSE
      OBVIOUS
    <2>1. PICK n \in Bad : \A m \in Bad : n <= m
      BY Least
    <2>2. n # 0 /\ n - 1 \in Nat /\ n - 1 \notin Bad
      BY <1>3, <2>1
    <2>3. PICK f : IsTrail(f, n - 1)
      BY <2>2
    <2>4. n - 1 + 1 = n
      BY <2>1
    <2> QED
      BY <1>4, <2>1, <2>2, <2>3, <2>4
  <1>6. \E f : IsTrail(f, Len(path.names))
    BY <1>2, <1>5
  <1>7. IsTrail(Trail(k, r, path), Len(path.names))
    BY <1>1, <1>6
  <1> QED
    BY <1>7 DEF IsTrail

(* A path that leads somewhere is confined exactly when it has no ".." and *)
(* leads to a place within the root.                                       *)
LEMMA ConfinedWhereItLeads ==
  ASSUME NEW k, NEW r, NEW path, path.names \in Seq(Names \cup {DotDot}),
         Target(k, r, path) # None
  PROVE  Confined(k, r, path) <=>
           /\ \A j \in 1 .. Len(path.names) : path.names[j] # DotDot
           /\ Within(r, Target(k, r, path))
  <1> DEFINE trail == Trail(k, r, path)
             n == Len(path.names)
             exists == {j \in DOMAIN trail : trail[j] # None}
             deepest == CHOOSE i \in exists : \A j \in exists : j <= i
  <1>1. n \in Nat /\ DOMAIN trail = 0 .. n
    BY TrailIsDefined
  <1>2. n \in exists /\ \A j \in exists : j <= n
    BY <1>1 DEF Target
  <1>3. deepest \in exists /\ \A j \in exists : j <= deepest
    BY <1>2
  <1>4. deepest = n
    BY <1>1, <1>2, <1>3
  <1> QED
    BY <1>2, <1>4 DEF Confined, Target

-------------------------------------------------------------------------------
(* Confinement                                                             *)

CallFields == {"phase", "request", "root", "todo", "listed", "entries", "reply"}

CallShapes ==
  /\ DOMAIN call = Calls /\ DOMAIN found = Calls
  /\ \A c \in Calls :
       /\ DOMAIN call[c] = CallFields
       /\ call[c].phase \notin {"idle", "sent"} => call[c].request \in ToolRequests

(* What confinement promises of an answered call.                          *)
AnswerStaysInside(c) ==
  LET q == call[c].request IN
  /\ call[c].reply.code = "ok" => Within(call[c].root, Aim(c))
  /\ /\ call[c].reply.code = "root_escape" /\ Aim(c) # None
     /\ \A k \in DOMAIN q.path.names : q.path.names[k] # DotDot
     => ~Within(call[c].root, Aim(c))

CallStaysInside(c) ==
  found[c] # None /\ call[c].root # None /\ config.restrict =>
    /\ call[c].phase \in {"act", "stat", "walk"} =>
         Confined(kind, call[c].root, call[c].request.path)
    /\ call[c].phase = "walk" => Aim(c) # None
    /\ call[c].phase = "answered" => AnswerStaysInside(c)

ConfinementInv == CallShapes /\ \A c \in Calls : CallStaysInside(c)

(* A path of a request leads within the root if it is confined.            *)
LEMMA ConfinedAim ==
  ASSUME CallShapes, NEW c \in Calls, call[c].phase \notin {"idle", "sent"}, Aim(c) # None
  PROVE  Confined(kind, call[c].root, call[c].request.path) <=>
           /\ \A k \in DOMAIN call[c].request.path.names :
                call[c].request.path.names[k] # DotDot
           /\ Within(call[c].root, Aim(c))
  <1>1. call[c].request.path.names \in Seq(Names \cup {DotDot})
    BY ServerAssumption DEF CallShapes, Paths
  <1>2. DOMAIN call[c].request.path.names = 1 .. Len(call[c].request.path.names)
    BY <1>1
  <1> QED
    BY <1>1, <1>2, ConfinedWhereItLeads DEF Aim

(* The calls and what they are measured against stay.                      *)
LEMMA OtherStep ==
  ASSUME ConfinementInv, UNCHANGED <<call, config>>,
         \/ UNCHANGED <<kind, found>>
         \/ found' = [c \in Calls |-> None]
  PROVE  ConfinementInv'
  BY DEF ConfinementInv, CallShapes, CallStaysInside, AnswerStaysInside, Aim

(* One call moves.                                                         *)
LEMMA CallStep ==
  ASSUME ConfinementInv, NEW c \in Calls, UNCHANGED <<kind, config>>,
         DOMAIN call' = Calls, DOMAIN found' = Calls,
         \A d \in Calls \ {c} : call'[d] = call[d] /\ found'[d] = found[d],
         DOMAIN call'[c] = CallFields,
         call'[c].phase \notin {"idle", "sent"} => call'[c].request \in ToolRequests,
         CallStaysInside(c)'
  PROVE  ConfinementInv'
  <1>1. ASSUME NEW d \in Calls \ {c}
        PROVE  CallStaysInside(d)'
    <2>1. CallStaysInside(d) /\ call'[d] = call[d] /\ found'[d] = found[d]
      BY DEF ConfinementInv
    <2> QED
      BY <2>1 DEF CallStaysInside, AnswerStaysInside, Aim
  <1>2. CallShapes'
    BY DEF ConfinementInv, CallShapes
  <1> QED
    BY <1>1, <1>2 DEF ConfinementInv

(* An answered call keeps its request and the root it captured.            *)
LEMMA AnswerShape ==
  ASSUME CallShapes, NEW c \in Calls, NEW r, Answer(c, r)
  PROVE  /\ DOMAIN call' = Calls /\ \A d \in Calls \ {c} : call'[d] = call[d]
         /\ DOMAIN call'[c] = CallFields
         /\ call'[c].phase = "answered" /\ call'[c].reply = r
         /\ call'[c].root = call[c].root /\ call'[c].request = call[c].request
  <1>1. "phase" \in CallFields /\ "reply" \in CallFields /\ "root" \in CallFields /\ "request" \in CallFields
    BY DEF CallFields
  <1> QED
    BY <1>1 DEF CallShapes, Answer

(* An answer that neither succeeds nor is a refusal to leave the root.     *)
LEMMA OtherRefusalStep ==
  ASSUME ConfinementInv, NEW c \in Calls, call[c].phase \notin {"idle", "sent"},
         UNCHANGED <<kind, config>>, DOMAIN found' = Calls,
         \A d \in Calls \ {c} : found'[d] = found[d],
         NEW code, Refuse(c, code), code \notin {"ok", "root_escape"}
  PROVE  ConfinementInv'
  <1>1. CallShapes /\ Answer(c, [code |-> code]) /\ [code |-> code].code = code
    BY DEF ConfinementInv, Refuse
  <1>2. CallStaysInside(c)'
    BY <1>1, AnswerShape DEF CallStaysInside, AnswerStaysInside
  <1>3. call'[c].request \in ToolRequests
    BY <1>1, AnswerShape DEF CallShapes
  <1> QED
    BY <1>1, <1>2, <1>3, AnswerShape, CallStep

(* A call with its path confined is answered.                              *)
LEMMA ConfinedAnswerStep ==
  ASSUME ConfinementInv, NEW c \in Calls, UNCHANGED <<kind, config, found>>,
         call[c].phase \in {"act", "walk"}, Aim(c) # None,
         NEW r, Answer(c, r), r.code # "root_escape"
  PROVE  ConfinementInv'
  <1>1. CallShapes /\ CallStaysInside(c)
    BY DEF ConfinementInv
  <1>2. Aim(c)' = Aim(c)
    BY <1>1, AnswerShape DEF Aim
  <1>3. CallStaysInside(c)'
    <2>1. SUFFICES ASSUME found'[c] # None, call'[c].root # None, config'.restrict
                   PROVE  AnswerStaysInside(c)'
      BY <1>1, AnswerShape DEF CallStaysInside
    <2>2. Confined(kind, call[c].root, call[c].request.path)
      BY <1>1, <2>1, AnswerShape DEF CallStaysInside
    <2>3. Within(call[c].root, Aim(c))
      BY <1>1, <2>2, ConfinedAim
    <2> QED
      BY <1>1, <1>2, <2>3, AnswerShape DEF AnswerStaysInside
  <1>4. call'[c].request \in ToolRequests /\ DOMAIN found' = Calls
    BY <1>1, AnswerShape DEF CallShapes
  <1> QED
    BY <1>1, <1>3, <1>4, AnswerShape, CallStep

LEMMA DispatchStep ==
  ASSUME ConfinementInv, NEW c \in Calls, Dispatch(c)
  PROVE  ConfinementInv'
  <1>1. /\ UNCHANGED <<kind, config>> /\ CallShapes /\ call[c].phase = "received"
        /\ DOMAIN found' = Calls /\ \A d \in Calls \ {c} : found'[d] = found[d]
    BY DEF Dispatch, CallUnchanged, world, ConfinementInv, CallShapes
  <1>2. ASSUME NEW code, Refuse(c, code), code \notin {"ok", "root_escape"}
        PROVE  ConfinementInv'
    BY <1>1, <1>2, OtherRefusalStep
  <1>3. CASE call' = [call EXCEPT ![c].phase = "resolve", ![c].root = root]
    <2>1. /\ DOMAIN call' = Calls /\ \A d \in Calls \ {c} : call'[d] = call[d]
          /\ DOMAIN call'[c] = CallFields /\ call'[c].phase = "resolve"
          /\ call'[c].request = call[c].request
      BY <1>1, <1>3 DEF CallShapes, CallFields
    <2>2. CallStaysInside(c)'
      BY <2>1 DEF CallStaysInside
    <2>3. call'[c].request \in ToolRequests
      BY <1>1, <2>1 DEF CallShapes
    <2> QED
      BY <1>1, <2>1, <2>2, <2>3, CallStep
  <1> QED
    BY <1>2, <1>3 DEF Dispatch

LEMMA ResolveStep ==
  ASSUME ConfinementInv, NEW c \in Calls, Resolve(c)
  PROVE  ConfinementInv'
  <1> DEFINE q == call[c].request
  <1>1. /\ UNCHANGED <<kind, config, found>> /\ CallShapes /\ call[c].phase = "resolve"
        /\ DOMAIN found' = Calls /\ \A d \in Calls \ {c} : found'[d] = found[d]
        /\ q \in ToolRequests
    BY DEF Resolve, CallUnchanged, world, ConfinementInv, CallShapes
  <1>2. CASE GlobRefusal(q) # "none" /\ Refuse(c, GlobRefusal(q))
    <2>1. GlobRefusal(q) \notin {"ok", "root_escape"}
      BY DEF GlobRefusal
    <2> QED
      BY <1>1, <1>2, <2>1, OtherRefusalStep
  <1>3. CASE ~Resolves(kind, call[c].root, config.restrict, q.path) /\ Refuse(c, "root_escape")
    <2>1. Answer(c, [code |-> "root_escape"]) /\ [code |-> "root_escape"].code = "root_escape"
      BY <1>3 DEF Refuse
    <2>2. Aim(c)' = Aim(c)
      BY <1>1, <2>1, AnswerShape DEF Aim
    <2>3. CallStaysInside(c)'
      BY <1>1, <1>3, <2>1, <2>2, AnswerShape, ConfinedAim
         DEF CallStaysInside, AnswerStaysInside, Resolves
    <2> QED
      BY <1>1, <2>1, <2>3, AnswerShape, CallStep
  <1>4. CASE /\ Resolves(kind, call[c].root, config.restrict, q.path)
             /\ call' = [call EXCEPT ![c].phase = IF q.tool = "glob" THEN "stat" ELSE "act"]
    <2>1. /\ DOMAIN call' = Calls /\ \A d \in Calls \ {c} : call'[d] = call[d]
          /\ DOMAIN call'[c] = CallFields /\ call'[c].phase \in {"stat", "act"}
          /\ call'[c].request = q /\ call'[c].root = call[c].root
      BY <1>1, <1>4 DEF CallShapes, CallFields
    <2>2. CallStaysInside(c)'
      BY <1>1, <1>4, <2>1 DEF CallStaysInside, Resolves
    <2> QED
      BY <1>1, <2>1, <2>2, CallStep
  <1> QED
    BY <1>2, <1>3, <1>4 DEF Resolve

LEMMA ActOnFileStep ==
  ASSUME ConfinementInv, NEW c \in Calls, ActOnFile(c)
  PROVE  ConfinementInv'
  <1>1. /\ UNCHANGED <<kind, config, found>> /\ CallShapes /\ call[c].phase = "act"
        /\ DOMAIN found' = Calls /\ \A d \in Calls \ {c} : found'[d] = found[d]
    BY DEF ActOnFile, CallUnchanged, world, ConfinementInv, CallShapes
  <1>2. ASSUME NEW code, Refuse(c, code), code \notin {"ok", "root_escape"}
        PROVE  ConfinementInv'
    BY <1>1, <1>2, OtherRefusalStep
  <1>3. CASE Aim(c) # None /\ Answer(c, [code |-> "ok", place |-> Aim(c)])
    <2>1. [code |-> "ok", place |-> Aim(c)].code # "root_escape"
      OBVIOUS
    <2> QED
      BY <1>1, <1>3, <2>1, ConfinedAnswerStep
  <1> QED
    BY <1>2, <1>3 DEF ActOnFile

(* A glob goes on with its walk.                                           *)
LEMMA WalkOnStep ==
  ASSUME ConfinementInv, NEW c \in Calls, UNCHANGED <<kind, config, found>>,
         call[c].phase \in {"stat", "walk"}, Aim(c) # None,
         DOMAIN call' = Calls, \A d \in Calls \ {c} : call'[d] = call[d],
         DOMAIN call'[c] = CallFields, call'[c].phase = "walk",
         call'[c].request = call[c].request, call'[c].root = call[c].root
  PROVE  ConfinementInv'
  <1>1. CallShapes /\ CallStaysInside(c)
    BY DEF ConfinementInv
  <1>2. Aim(c)' = Aim(c)
    BY DEF Aim
  <1>3. CallStaysInside(c)'
    BY <1>1, <1>2 DEF CallStaysInside
  <1>4. call'[c].request \in ToolRequests /\ DOMAIN found' = Calls
    BY <1>1 DEF CallShapes
  <1> QED
    BY <1>3, <1>4, CallStep

LEMMA WalkStep ==
  ASSUME ConfinementInv, NEW c \in Calls,
         \/ StartWalk(c)
         \/ \E names \in call[c].todo : ListEntry(c, names)
         \/ \E names \in call[c].listed : StatEntry(c, names)
         \/ AnswerGlob(c)
  PROVE  ConfinementInv'
  <1>1. /\ UNCHANGED <<kind, config, found>> /\ CallShapes
        /\ call[c].phase \in {"stat", "walk"}
        /\ DOMAIN found' = Calls /\ \A d \in Calls \ {c} : found'[d] = found[d]
    BY DEF StartWalk, ListEntry, StatEntry, AnswerGlob, CallUnchanged, world, ConfinementInv, CallShapes
  <1>2. CASE StartWalk(c)
    <2>1. ASSUME NEW code, Refuse(c, code), code \notin {"ok", "root_escape"}
          PROVE  ConfinementInv'
      BY <1>1, <2>1, OtherRefusalStep
    <2>2. CASE /\ Aim(c) # None
               /\ call' = [call EXCEPT ![c].phase = "walk", ![c].todo = Below[Aim(c)]]
      <3>1. /\ DOMAIN call' = Calls /\ \A d \in Calls \ {c} : call'[d] = call[d]
            /\ DOMAIN call'[c] = CallFields /\ call'[c].phase = "walk"
            /\ call'[c].request = call[c].request /\ call'[c].root = call[c].root
        BY <1>1, <2>2 DEF CallShapes, CallFields
      <3> QED
        BY <1>1, <2>2, <3>1, WalkOnStep
    <2> QED
      BY <1>2, <2>1, <2>2 DEF StartWalk
  <1>3. ASSUME call[c].phase = "walk"
        PROVE  found[c] # None /\ call[c].root # None /\ config.restrict => Aim(c) # None
    BY <1>3 DEF ConfinementInv, CallStaysInside
  <1>4. ASSUME call[c].phase = "walk",
               DOMAIN call' = Calls, \A d \in Calls \ {c} : call'[d] = call[d],
               DOMAIN call'[c] = CallFields, call'[c].phase = "walk",
               call'[c].request = call[c].request, call'[c].root = call[c].root
        PROVE  ConfinementInv'
    <2>1. CASE Aim(c) # None
      BY <1>1, <1>4, <2>1, WalkOnStep
    <2>2. CASE Aim(c) = None
      <3>1. CallStaysInside(c)'
        BY <1>1, <1>3, <1>4, <2>2 DEF CallStaysInside
      <3>2. call'[c].request \in ToolRequests
        BY <1>1, <1>4 DEF CallShapes
      <3> QED
        BY <1>1, <1>4, <3>1, <3>2, CallStep
    <2> QED
      BY <2>1, <2>2
  <1>5. ASSUME NEW names \in call[c].todo, ListEntry(c, names)
        PROVE  ConfinementInv'
    <2>1. /\ call[c].phase = "walk" /\ DOMAIN call' = Calls
          /\ \A d \in Calls \ {c} : call'[d] = call[d]
          /\ DOMAIN call'[c] = CallFields /\ call'[c].phase = "walk"
          /\ call'[c].request = call[c].request /\ call'[c].root = call[c].root
      BY <1>1, <1>5 DEF ListEntry, CallShapes, CallFields
    <2> QED
      BY <1>4, <2>1
  <1>6. ASSUME NEW names \in call[c].listed, StatEntry(c, names)
        PROVE  ConfinementInv'
    <2>1. PICK l, e : call[c].phase = "walk" /\ call' = [call EXCEPT ![c].listed = l, ![c].entries = e]
      BY <1>6 DEF StatEntry
    <2>2. /\ call[c].phase = "walk" /\ DOMAIN call' = Calls
          /\ \A d \in Calls \ {c} : call'[d] = call[d]
          /\ DOMAIN call'[c] = CallFields /\ call'[c].phase = "walk"
          /\ call'[c].request = call[c].request /\ call'[c].root = call[c].root
      BY <1>1, <2>1 DEF CallShapes, CallFields
    <2> QED
      BY <1>4, <2>2
  <1>7. CASE AnswerGlob(c)
    <2>1. PICK r : Answer(c, r) /\ r.code = "ok" /\ call[c].phase = "walk"
      BY <1>7 DEF AnswerGlob
    <2>2. CASE Aim(c) # None
      BY <1>1, <2>1, <2>2, ConfinedAnswerStep
    <2>3. CASE Aim(c) = None
      <3>1. CallStaysInside(c)'
        BY <1>1, <1>3, <2>1, <2>3, AnswerShape DEF CallStaysInside
      <3>2. call'[c].request \in ToolRequests
        BY <1>1, <2>1, AnswerShape DEF CallShapes
      <3> QED
        BY <1>1, <2>1, <3>1, <3>2, AnswerShape, CallStep
    <2> QED
      BY <2>2, <2>3
  <1> QED
    BY <1>2, <1>5, <1>6, <1>7

LEMMA SentCallStep ==
  ASSUME ConfinementInv, NEW c \in Calls, SendCall(c)
  PROVE  ConfinementInv'
  <1>1. /\ UNCHANGED <<kind, config, found>> /\ CallShapes
        /\ call' = [call EXCEPT ![c].phase = "sent"]
        /\ DOMAIN found' = Calls /\ \A d \in Calls \ {c} : found'[d] = found[d]
    BY DEF SendCall, world, ConfinementInv, CallShapes
  <1>2. /\ DOMAIN call' = Calls /\ \A d \in Calls \ {c} : call'[d] = call[d]
        /\ DOMAIN call'[c] = CallFields /\ call'[c].phase = "sent"
    BY <1>1 DEF CallShapes, CallFields
  <1>3. CallStaysInside(c)'
    BY <1>2 DEF CallStaysInside
  <1> QED
    BY <1>1, <1>2, <1>3, CallStep

LEMMA ReceivedCallStep ==
  ASSUME ConfinementInv, AdoptionInv, ReceiveCall
  PROVE  ConfinementInv'
  <1>1. /\ UNCHANGED <<kind, config, found>> /\ CallShapes
        /\ inbox # <<>> /\ Head(inbox).what = "call"
    BY DEF ReceiveCall, Receives, world, ConfinementInv
  <1>2. Head(inbox) \in Messages
    BY <1>1, Leaves DEF AdoptionInv, SessionTypes
  <1>3. PICK c \in Calls, q \in ToolRequests :
          call' = [call EXCEPT ![c].phase = "received", ![c].request = q]
    BY <1>1, <1>2, MessageShape DEF ReceiveCall
  <1>4. /\ DOMAIN call' = Calls /\ \A d \in Calls \ {c} : call'[d] = call[d]
        /\ DOMAIN call'[c] = CallFields /\ call'[c].phase = "received"
        /\ call'[c].request = q
    BY <1>1, <1>3 DEF CallShapes, CallFields
  <1>5. CallStaysInside(c)'
    BY <1>4 DEF CallStaysInside
  <1>6. DOMAIN found' = Calls /\ \A d \in Calls \ {c} : found'[d] = found[d]
    BY <1>1 DEF CallShapes
  <1> QED
    BY <1>1, <1>4, <1>5, <1>6, CallStep

LEMMA ConfinementStep == AdoptionInv /\ ConfinementInv /\ [Next]_vars => ConfinementInv'
  <1> SUFFICES ASSUME AdoptionInv, ConfinementInv, [Next]_vars
               PROVE  ConfinementInv'
    OBVIOUS
  <1>1. ASSUME UNCHANGED <<call, config, kind, found>>
        PROVE  ConfinementInv'
    BY <1>1, OtherStep
  <1>2. CASE AnnounceList
    BY <1>1, <1>2 DEF AnnounceList, world
  <1>3. ASSUME NEW t \in Tasks, AnswerRootsRequest(t)
        PROVE  ConfinementInv'
    BY <1>1, <1>3 DEF AnswerRootsRequest, world
  <1>4. ASSUME NEW c \in Calls, SendCall(c)
        PROVE  ConfinementInv'
    BY <1>4, SentCallStep
  <1>5. CASE Loop
    <2>1. CASE SpawnAdoption
      BY <1>1, <2>1 DEF SpawnAdoption, Receives, world
    <2>2. CASE ReceiveRoots
      BY <1>1, <2>2 DEF ReceiveRoots, Receives, world
    <2> QED
      BY <1>5, <2>1, <2>2, ReceivedCallStep DEF Loop
  <1>6. ASSUME NEW t \in Tasks, Adoption(t)
        PROVE  ConfinementInv'
    BY <1>1, <1>6 DEF Adoption, AskForRoots, TryRoot, InstallRoot, world
  <1>7. ASSUME NEW c \in Calls, Work(c)
        PROVE  ConfinementInv'
    BY <1>7, DispatchStep, ResolveStep, ActOnFileStep, WalkStep DEF Work
  <1>8. CASE \/ \E x \in Touchable : TouchFile(x)
             \/ \E x \in Movable : ChangePlace(x)
    <2>1. UNCHANGED <<call, config>> /\ found' = [c \in Calls |-> None]
      BY <1>8 DEF TouchFile, ChangePlace, Disturbs
    <2> QED
      BY <2>1, OtherStep
  <1>9. CASE UNCHANGED vars
    BY <1>1, <1>9 DEF vars, world
  <1> QED
    BY <1>2, <1>3, <1>4, <1>5, <1>6, <1>7, <1>8, <1>9 DEF Next

LEMMA ConfinementInit == Init => ConfinementInv
  <1> SUFFICES ASSUME Init
               PROVE  ConfinementInv
    OBVIOUS
  <1>1. \A c \in Calls : call[c].phase = "idle" /\ DOMAIN call[c] = CallFields
    BY DEF Init, NoCall, CallFields
  <1>2. DOMAIN call = Calls /\ DOMAIN found = Calls
    BY DEF Init
  <1> QED
    BY <1>1, <1>2 DEF ConfinementInv, CallShapes, CallStaysInside

(* Under --restrict no call succeeds on a place outside the root it works  *)
(* on, and none without ".." is refused inside it (confine_to_root), for   *)
(* every tree, links, roots and requests, if the tree rests meanwhile.     *)
THEOREM ConfinementHolds == Spec => []RestrictedCallsStayInside
  <1>1. ConfinementInv => RestrictedCallsStayInside
    BY DEF ConfinementInv, CallStaysInside, AnswerStaysInside, RestrictedCallsStayInside
  <1> QED
    BY <1>1, AdoptionInit, AdoptionStep, ConfinementInit, ConfinementStep, PTL DEF Spec

-------------------------------------------------------------------------------
(* Types                                                                   *)

(* Where a path leads is a place or nowhere.                               *)
LEMMA TargetTyped ==
  ASSUME NEW k \in [Places -> {"dir", "file", "none"}], NEW r \in Places, NEW path,
         path.names \in Seq(Names \cup {DotDot})
  PROVE  \A j \in 0 .. Len(path.names) : Trail(k, r, path)[j] \in Places \cup {None}
  <1> DEFINE trail == Trail(k, r, path)
             n == Len(path.names)
             start == IF path.absolute THEN Top ELSE r
             Bad == {j \in 0 .. n : trail[j] \notin Places \cup {None}}
  <1>1. /\ trail[0] = IF k[start] = "none" THEN None ELSE start
        /\ \A j \in 1 .. n : trail[j] = Follow(k, trail[j - 1], path.names[j])
    BY TrailIsDefined
  <1>2. start \in Places
    BY TreeAssumption
  <1>3. ASSUME NEW at \in Places \cup {None}, NEW m \in Names \cup {DotDot}
        PROVE  Follow(k, at, m) \in Places \cup {None}
    BY <1>3, TreeAssumption DEF Follow
  <1> HIDE DEF trail
  <1>4. Bad = {}
    <2> SUFFICES ASSUME Bad # {} PROVE FALSE
      OBVIOUS
    <2>0. Bad \in SUBSET Nat
      OBVIOUS
    <2>1. PICK j \in Bad : \A i \in Bad : j <= i
      <3> HIDE DEF Bad
      <3> QED BY <2>0, Least
    <2>2. j # 0
      BY <1>1, <1>2, <2>1
    <2>3. j - 1 \in 0 .. n /\ j \in 1 .. n /\ j - 1 \notin Bad
      BY <2>1, <2>2
    <2>4. path.names[j] \in Names \cup {DotDot}
      BY <2>3
    <2>5. trail[j - 1] \in Places \cup {None}
      BY <2>3
    <2> QED
      BY <1>1, <1>3, <2>1, <2>3, <2>4, <2>5
  <1> QED
    BY <1>4 DEF trail

LEMMA CandidateTyped ==
  ASSUME kind \in [Places -> {"dir", "file", "none"}], NEW u \in Uris
  PROVE  Candidate(u) \in Places \cup {None}
  <1>1. CASE UriPath(u) = None
    BY <1>1 DEF Candidate
  <1>2. CASE UriPath(u) # None
    <2>1. UriPath(u) \in Paths
      BY <1>2 DEF UriPath, Uris
    <2>2. UriPath(u).names \in Seq(Names \cup {DotDot}) /\ Len(UriPath(u).names) \in Nat
      BY <2>1 DEF Paths
    <2>3. \A j \in 0 .. Len(UriPath(u).names) :
            Trail(kind, Top, UriPath(u))[j] \in Places \cup {None}
      BY <2>2, TargetTyped, TreeAssumption, Zenon
    <2>4. Target(kind, Top, UriPath(u)) \in Places \cup {None}
      BY <2>2, <2>3 DEF Target
    <2> QED
      BY <2>4 DEF Candidate
  <1> QED
    BY <1>1, <1>2

LEMMA PromisedTyped ==
  ASSUME kind \in [Places -> {"dir", "file", "none"}], NEW list \in Lists, NEW r \in Places
  PROVE  Promised(list, r) \in Places
  <1> DEFINE usable == {k \in DOMAIN list : Candidate(list[k]) # None}
             first == CHOOSE k \in usable : \A j \in usable : k <= j
  <1>1. CASE usable = {}
    BY <1>1 DEF Promised
  <1>2. CASE usable # {}
    <2>1. list \in Seq(Uris)
      BY ServerAssumption
    <2>2. usable \in SUBSET Nat
      BY <2>1
    <2>3. \E k \in usable : \A j \in usable : k <= j
      <3> HIDE DEF usable
      <3> QED BY <1>2, <2>2, Least
    <2>4. first \in usable
      BY <2>3
    <2>5. list[first] \in Uris
      BY <2>1, <2>4
    <2>6. Candidate(list[first]) \in Places
      BY <2>4, <2>5, CandidateTyped
    <2> QED
      BY <2>6 DEF Promised
  <1> QED
    BY <1>1, <1>2

-------------------------------------------------------------------------------
(* Types                                                                   *)

Modes == [pinned : BOOLEAN, hasRoots : BOOLEAN, restrict : BOOLEAN]
Kinds == [Places -> {"dir", "file", "none"}]

(* What the lists and places of a task are.                                *)
TaskFields(x) ==
  /\ x.list \in Lists \cup {<<>>} /\ x.place \in Places \cup {None}
  /\ x.phase = "try" => x.list \in Lists
  /\ x.phase = "install" => x.place \in Places

Placed ==
  /\ config \in Modes /\ kind \in Kinds /\ modified \in [Places -> Times]
  /\ root \in Places /\ expected \in Places
  /\ \A t \in Tasks : TaskFields(task[t])

LEMMA FinishFields ==
  ASSUME SessionTypes, Placed, NEW t \in Tasks, NEW p \in {"spawned", "asked", "done"},
         task' = [task EXCEPT ![t].phase = p]
  PROVE  \A s \in Tasks : TaskFields(task'[s])
  <1>1. /\ \A s \in Tasks \ {t} : task'[s] = task[s]
        /\ task'[t].phase = p
        /\ task'[t].list = task[t].list /\ task'[t].place = task[t].place
    BY PhaseChange
  <1> QED
    BY <1>1 DEF Placed, TaskFields

LEMMA TryRootFields ==
  ASSUME SessionTypes, Placed, NEW t \in Tasks, TryRoot(t)
  PROVE  \A s \in Tasks : TaskFields(task'[s])
  <1> DEFINE k == task[t].next
             c == Candidate(task[t].list[k])
  <1>1. /\ DOMAIN task = Tasks /\ IsTask(task[t]) /\ k \in Nat \ {0}
        /\ task[t].phase = "try" /\ task[t].list \in Lists /\ task[t].place \in Places \cup {None}
    BY DEF SessionTypes, TryRoot, Placed, TaskFields
  <1>2. CASE Finish(t)
    BY <1>2, FinishFields DEF Finish
  <1>3. CASE ~(k > Len(task[t].list)) /\ task' = [task EXCEPT ![t].next = k + 1]
    <2> DEFINE x == [task[t] EXCEPT !.next = k + 1]
    <2>1. x.list = task[t].list /\ x.place = task[t].place /\ x.phase = "try"
      BY <1>1 DEF IsTask
    <2>2. task'[t] = x /\ \A s \in Tasks \ {t} : task'[s] = task[s]
      BY <1>1, <1>3
    <2> HIDE DEF x
    <2> QED
      BY <1>1, <2>1, <2>2 DEF Placed, TaskFields
  <1>4. CASE /\ ~(k > Len(task[t].list)) /\ c # None
             /\ task' = [task EXCEPT ![t].phase = "install", ![t].place = c]
    <2> DEFINE y == [task[t] EXCEPT !.phase = "install"]
               x == [y EXCEPT !.place = c]
    <2>1. x.list = task[t].list /\ x.place = c /\ x.phase = "install"
      <3>1. y.list = task[t].list /\ y.phase = "install" /\ DOMAIN y = DOMAIN task[t]
        BY <1>1 DEF IsTask
      <3>2. "phase" \in DOMAIN y /\ "place" \in DOMAIN y /\ "list" \in DOMAIN y
        BY <1>1, <3>1 DEF IsTask
      <3> HIDE DEF y, c
      <3> QED
        BY <3>1, <3>2
    <2>2. task'[t] = x /\ \A s \in Tasks \ {t} : task'[s] = task[s]
      BY <1>1, <1>4
    <2>3. c \in Places
      <3>1. k \in DOMAIN task[t].list /\ task[t].list \in Seq(Uris)
        BY <1>1, <1>4, ServerAssumption
      <3>2. task[t].list[k] \in Uris
        BY <3>1
      <3> QED
        BY <1>4, <3>2, CandidateTyped DEF Placed, Kinds
    <2> HIDE DEF x, c
    <2> QED
      BY <1>1, <2>1, <2>2, <2>3 DEF Placed, TaskFields
  <1> QED
    BY <1>1, <1>2, <1>3, <1>4 DEF TryRoot

LEMMA ReceiveRootsFields ==
  ASSUME AdoptionInv, Placed, ReceiveRoots
  PROVE  \A s \in Tasks : TaskFields(task'[s])
  <1> DEFINE m == Head(inbox)
  <1>1. inbox \in Seq(Messages) /\ inbox # <<>> /\ SessionTypes
    BY DEF AdoptionInv, SessionTypes, ReceiveRoots, Receives
  <1>2. m \in Messages
    BY <1>1
  <1>3. m.what \in {"roots", "error"}
    BY DEF ReceiveRoots, Receives
  <1>4. m.task \in Tasks /\ (m.what = "roots" => m.list \in Lists)
    BY <1>2, <1>3, MessageShape DEF IsReply
  <1>5. CASE m.what = "error"
    <2>1. Finish(m.task)
      BY <1>5 DEF ReceiveRoots
    <2> QED
      BY <1>1, <1>4, <2>1, FinishFields DEF Finish
  <1>6. CASE m.what # "error"
    <2> DEFINE t == m.task
               y == [task[t] EXCEPT !.phase = "try"]
               x == [y EXCEPT !.list = m.list]
    <2>0. task' = [task EXCEPT ![t].phase = "try", ![t].list = m.list]
      BY <1>6 DEF ReceiveRoots
    <2>1. DOMAIN task = Tasks /\ IsTask(task[t]) /\ t \in Tasks
      BY <1>1, <1>4 DEF SessionTypes
    <2> HIDE DEF m, t
    <2>2. x.list = m.list /\ x.place = task[t].place /\ x.phase = "try"
      <3>1. y.place = task[t].place /\ y.phase = "try" /\ DOMAIN y = DOMAIN task[t]
        BY <2>1 DEF IsTask
      <3>2. "phase" \in DOMAIN y /\ "place" \in DOMAIN y /\ "list" \in DOMAIN y
        BY <2>1, <3>1 DEF IsTask
      <3> HIDE DEF y
      <3> QED
        BY <3>1, <3>2
    <2>3. task'[t] = x /\ \A s \in Tasks \ {t} : task'[s] = task[s]
      BY <2>0, <2>1
    <2>4. m.list \in Lists
      BY <1>3, <1>4, <1>6
    <2> HIDE DEF x
    <2> QED
      BY <2>1, <2>2, <2>3, <2>4 DEF Placed, TaskFields
  <1> QED
    BY <1>5, <1>6

LEMMA PlacedStep == AdoptionInv /\ Placed /\ [Next]_vars => Placed'
  <1> SUFFICES ASSUME AdoptionInv, Placed, [Next]_vars
               PROVE  Placed'
    OBVIOUS
  <1>0. SessionTypes
    BY DEF AdoptionInv
  <1>1. CASE AnnounceList
    <2>1. UNCHANGED <<kind, modified, config, root, task>>
      BY <1>1 DEF AnnounceList, world
    <2>2. expected' \in Places
      BY <1>1, PromisedTyped DEF AnnounceList, Placed, Kinds
    <2> QED
      BY <2>1, <2>2 DEF Placed
  <1>2. ASSUME NEW t \in Tasks, AnswerRootsRequest(t)
        PROVE  Placed'
    BY <1>2 DEF AnswerRootsRequest, world, Placed
  <1>3. ASSUME NEW c \in Calls, SendCall(c) \/ Work(c)
        PROVE  Placed'
    <2>1. UNCHANGED <<kind, modified, config, root, expected, task>>
      BY <1>3 DEF SendCall, Work, Dispatch, Resolve, ActOnFile, StartWalk, ListEntry,
                  StatEntry, AnswerGlob, CallUnchanged, world
    <2> QED
      BY <2>1 DEF Placed
  <1>4. CASE Loop
    <2>1. UNCHANGED <<kind, modified, config, root, expected>>
      BY <1>4 DEF Loop, SpawnAdoption, ReceiveRoots, ReceiveCall, Receives, world
    <2>2. \A s \in Tasks : TaskFields(task'[s])
      <3>1. CASE SpawnAdoption
        BY <1>0, <3>1, FinishFields DEF SpawnAdoption
      <3>2. CASE ReceiveRoots
        BY <3>2, ReceiveRootsFields
      <3>3. CASE ReceiveCall
        BY <3>3 DEF ReceiveCall, Placed
      <3> QED
        BY <1>4, <3>1, <3>2, <3>3 DEF Loop
    <2> QED
      BY <2>1, <2>2 DEF Placed
  <1>5. ASSUME NEW t \in Tasks, Adoption(t)
        PROVE  Placed'
    <2>1. UNCHANGED <<kind, modified, config, expected>>
      BY <1>5 DEF Adoption, AskForRoots, TryRoot, InstallRoot, world
    <2>2. root' \in Places
      <3>1. CASE InstallRoot(t)
        BY <3>1 DEF InstallRoot, Placed, TaskFields
      <3>2. CASE AskForRoots(t) \/ TryRoot(t)
        BY <3>2 DEF AskForRoots, TryRoot, Placed
      <3> QED
        BY <1>5, <3>1, <3>2 DEF Adoption
    <2>3. \A s \in Tasks : TaskFields(task'[s])
      <3>1. CASE AskForRoots(t)
        BY <1>0, <3>1, FinishFields DEF AskForRoots, Finish
      <3>2. CASE TryRoot(t)
        BY <1>0, <3>2, TryRootFields
      <3>3. CASE InstallRoot(t)
        BY <1>0, <3>3, FinishFields DEF InstallRoot, Finish
      <3> QED
        BY <1>5, <3>1, <3>2, <3>3 DEF Adoption
    <2> QED
      BY <2>1, <2>2, <2>3 DEF Placed
  <1>6. ASSUME NEW x \in Touchable, TouchFile(x)
        PROVE  Placed'
    <2>1. PICK time \in Times : modified' = [modified EXCEPT ![x] = time]
      BY <1>6 DEF TouchFile
    <2>2. UNCHANGED <<kind, config, root, expected, task>>
      BY <1>6 DEF TouchFile, Disturbs
    <2> QED
      BY <2>1, <2>2 DEF Placed
  <1>7. ASSUME NEW x \in Movable, ChangePlace(x)
        PROVE  Placed'
    <2>1. PICK what \in {"dir", "file", "none"} :
            kind' = [y \in Places |-> IF y = x THEN what
                                      ELSE IF x \in Above[y] THEN "none" ELSE kind[y]]
      BY <1>7 DEF ChangePlace
    <2>2. kind' \in Kinds
      BY <2>1 DEF Placed, Kinds
    <2>3. UNCHANGED <<modified, config, root, expected, task>>
      BY <1>7 DEF ChangePlace, Disturbs
    <2> QED
      BY <2>2, <2>3 DEF Placed
  <1>8. CASE UNCHANGED vars
    BY <1>8 DEF vars, world, Placed
  <1> QED
    BY <1>1, <1>2, <1>3, <1>4, <1>5, <1>6, <1>7, <1>8 DEF Next

LEMMA PlacedInit == Init => Placed
  <1> SUFFICES ASSUME Init
               PROVE  Placed
    OBVIOUS
  <1>1. kind \in Kinds /\ modified \in [Places -> Times] /\ config \in Modes
    BY ServerAssumption DEF Init, Kinds, Modes
  <1>2. root \in Places /\ expected \in Places
    <2>1. expected = Promised(offered, Startup) /\ offered \in Lists /\ root = Startup
      BY DEF Init
    <2> QED
      BY <1>1, <2>1, ServerAssumption, PromisedTyped DEF Kinds
  <1>3. \A t \in Tasks : TaskFields(task[t])
    BY DEF Init, NoTask, TaskFields
  <1> QED
    BY <1>1, <1>2, <1>3 DEF Placed

LEMMA SessionHolds == Spec => [](AdoptionInv /\ Placed)
BY AdoptionInit, PlacedInit, AdoptionStep, PlacedStep, PTL DEF Spec

(* What the session keeps is what its code can put there, whatever the    *)
(* client sends and other programs do to the file system: the root is a    *)
(* place, a task's list one the client offered, its next index a position, *)
(* what it installs a place.                                               *)
THEOREM SessionIsTyped == Spec => []TypeOK
  <1>1. AdoptionInv /\ Placed => TypeOK
    <2> SUFFICES ASSUME AdoptionInv, Placed
                 PROVE  TypeOK
      OBVIOUS
    <2> DEFINE Task == [phase : {"none", "spawned", "asked", "try", "install", "done"},
                        list : Lists \cup {<<>>}, next : Nat, place : Places \cup {None}]
    <2>1. ASSUME NEW t \in Tasks
          PROVE  task[t] \in Task
      BY DEF AdoptionInv, SessionTypes, IsTask, Placed, TaskFields
    <2>2. task \in [Tasks -> Task]
      <3> HIDE DEF Task
      <3> QED BY <2>1 DEF AdoptionInv, SessionTypes
    <2> QED
      BY <2>2 DEF TypeOK, AdoptionInv, SessionTypes, Placed, Modes, Kinds
  <1> QED
    BY <1>1, SessionHolds, PTL

-------------------------------------------------------------------------------
(* Sorting                                                                 *)

(* R orders A strictly and totally.                                        *)
Orders(R, A) ==
  /\ \A x \in A : <<x, x>> \notin R
  /\ \A x, y, z \in A : <<x, y>> \in R /\ <<y, z>> \in R => <<x, z>> \in R
  /\ \A x, y \in A : x = y \/ <<x, y>> \in R \/ <<y, x>> \in R

Ahead(R, A, x) == {y \in A : <<y, x>> \in R}

(* s lists A in the order of R.                                            *)
Sorts(s, R, A) ==
  /\ s \in [1 .. Cardinality(A) -> A]
  /\ \A i, j \in 1 .. Cardinality(A) : i < j => <<s[i], s[j]>> \in R

LEMMA AheadCounts ==
  ASSUME NEW A, IsFiniteSet(A), NEW R, Orders(R, A), NEW x \in A
  PROVE  /\ IsFiniteSet(Ahead(R, A, x)) /\ Cardinality(A) \in Nat
         /\ Cardinality(Ahead(R, A, x)) \in 0 .. Cardinality(A) - 1
         /\ \A y \in A : <<x, y>> \in R =>
              Cardinality(Ahead(R, A, x)) < Cardinality(Ahead(R, A, y))
  <1>1. \A y \in A : Ahead(R, A, y) \in SUBSET A /\ y \notin Ahead(R, A, y)
    BY DEF Ahead, Orders
  <1>2. \A y \in A : IsFiniteSet(Ahead(R, A, y)) /\ Cardinality(Ahead(R, A, y)) \in Nat
    BY <1>1, FS_Subset, FS_CardinalityType
  <1>3. Cardinality(A) \in Nat
    BY FS_CardinalityType
  <1>4. Cardinality(Ahead(R, A, x)) < Cardinality(A)
    <2>1. Ahead(R, A, x) # A
      BY <1>1
    <2>2. Cardinality(Ahead(R, A, x)) <= Cardinality(A)
          /\ (Cardinality(A) = Cardinality(Ahead(R, A, x)) => A = Ahead(R, A, x))
      BY <1>1, FS_Subset
    <2> QED
      BY <1>2, <1>3, <2>1, <2>2
  <1>5. ASSUME NEW y \in A, <<x, y>> \in R
        PROVE  Cardinality(Ahead(R, A, x)) < Cardinality(Ahead(R, A, y))
    <2>1. Ahead(R, A, x) \in SUBSET Ahead(R, A, y)
      BY <1>5 DEF Ahead, Orders
    <2>2. Ahead(R, A, x) # Ahead(R, A, y)
      BY <1>1, <1>5 DEF Ahead
    <2>3. Cardinality(Ahead(R, A, x)) <= Cardinality(Ahead(R, A, y))
          /\ (Cardinality(Ahead(R, A, y)) = Cardinality(Ahead(R, A, x))
                => Ahead(R, A, y) = Ahead(R, A, x))
      BY <1>2, <2>1, FS_Subset
    <2> QED
      BY <1>2, <2>2, <2>3
  <1> QED
    BY <1>2, <1>3, <1>4, <1>5

(* Each element takes the position after those ahead of it.                *)
LEMMA SortExists ==
  ASSUME NEW A, IsFiniteSet(A), NEW R, Orders(R, A)
  PROVE  \E s : Sorts(s, R, A)
  <1> DEFINE n == Cardinality(A)
             at == [x \in A |-> Cardinality(Ahead(R, A, x)) + 1]
             s == [i \in 1 .. n |-> CHOOSE x \in A : at[x] = i]
  <1>1. n \in Nat /\ at \in [A -> 1 .. n]
    BY AheadCounts, FS_CardinalityType
  <1>2. \A x, y \in A : <<x, y>> \in R => at[x] < at[y]
    BY AheadCounts
  <1> HIDE DEF at
  <1>3. at \in Injection(A, 1 .. n)
    <2>1. ASSUME NEW x \in A, NEW y \in A, at[x] = at[y]
          PROVE  x = y
      <3>1. ~(<<x, y>> \in R) /\ ~(<<y, x>> \in R)
        <4>1. at[x] \in Nat /\ at[y] \in Nat
          BY <1>1
        <4>2. (<<x, y>> \in R => at[x] < at[y]) /\ (<<y, x>> \in R => at[y] < at[x])
          BY <1>2
        <4> QED
          BY <2>1, <4>1, <4>2
      <3> QED
        BY <3>1 DEF Orders
    <2> QED
      BY <1>1, <2>1 DEF Injection, IsInjective
  <1>4. at \in Surjection(A, 1 .. n)
    <2>1. IsFiniteSet(1 .. n) /\ Cardinality(1 .. n) = n
      BY <1>1, FS_Interval
    <2> HIDE DEF n
    <2>2. Cardinality(A) = Cardinality(1 .. n)
      BY <2>1 DEF n
    <2> QED
      BY <1>3, <2>1, <2>2, FS_Injection
  <1>5. \A i \in 1 .. n : s[i] \in A /\ at[s[i]] = i
    BY <1>4 DEF Surjection
  <1>6. s \in [1 .. n -> A]
    BY <1>5
  <1> HIDE DEF s
  <1>7. ASSUME NEW i \in 1 .. n, NEW j \in 1 .. n, i < j
        PROVE  <<s[i], s[j]>> \in R
    <2>1. s[i] \in A /\ s[j] \in A /\ at[s[i]] = i /\ at[s[j]] = j
      BY <1>5
    <2>2. ~(<<s[j], s[i]>> \in R)
      <3>1. <<s[j], s[i]>> \in R => at[s[j]] < at[s[i]]
        BY <1>2, <2>1
      <3>2. ~(j < i)
        BY <1>7
      <3> QED
        BY <2>1, <3>1, <3>2
    <2>3. s[i] # s[j]
      BY <1>7, <2>1
    <2> QED
      BY <2>1, <2>2, <2>3 DEF Orders
  <1> QED
    BY <1>6, <1>7 DEF Sorts

(* In a sorted list the element at k has k - 1 ahead of it, and it alone.  *)
LEMMA SortCounts ==
  ASSUME NEW A, IsFiniteSet(A), NEW R, Orders(R, A), NEW s, Sorts(s, R, A)
  PROVE  /\ \A x \in A : \E k \in 1 .. Cardinality(A) : s[k] = x
         /\ \A k \in 1 .. Cardinality(A) :
              /\ s[k] \in A /\ Cardinality(Ahead(R, A, s[k])) = k - 1
              /\ \A x \in A : Cardinality(Ahead(R, A, x)) = k - 1 => x = s[k]
  <1> DEFINE n == Cardinality(A)
  <1>1. n \in Nat /\ s \in [1 .. n -> A]
    BY FS_CardinalityType DEF Sorts
  <1>2. \A i, j \in 1 .. n : i < j => <<s[i], s[j]>> \in R
    BY DEF Sorts
  <1>3. s \in Injection(1 .. n, A)
    <2>1. ASSUME NEW i \in 1 .. n, NEW j \in 1 .. n, s[i] = s[j]
          PROVE  i = j
      <3>1. s[i] \in A /\ <<s[i], s[i]>> \notin R
        BY <1>1 DEF Orders
      <3>2. ~(i < j) /\ ~(j < i)
        BY <1>2, <2>1, <3>1
      <3> QED
        BY <3>2
    <2> QED
      BY <1>1, <2>1 DEF Injection, IsInjective
  <1>4. IsFiniteSet(1 .. n) /\ Cardinality(1 .. n) = n
    BY <1>1, FS_Interval
  <1>5. s \in Surjection(1 .. n, A)
    <2> HIDE DEF n
    <2>1. Cardinality(1 .. n) = Cardinality(A)
      BY <1>4 DEF n
    <2> QED
      BY <1>3, <1>4, <2>1, FS_Injection
  <1>6. \A x \in A : \E k \in 1 .. n : s[k] = x
    BY <1>5 DEF Surjection
  <1>7. ASSUME NEW k \in 1 .. n
        PROVE  s[k] \in A /\ Cardinality(Ahead(R, A, s[k])) = k - 1
    <2> DEFINE B == 1 .. k - 1
               T == Ahead(R, A, s[k])
               f == [i \in B |-> s[i]]
    <2>1. s[k] \in A /\ k - 1 \in Nat
      BY <1>1
    <2>2. \A i \in B : s[i] \in T /\ i \in 1 .. n
      BY <1>1, <1>2 DEF Ahead
    <2>3. ASSUME NEW x \in T
          PROVE  \E i \in B : s[i] = x
      <3>1. x \in A /\ <<x, s[k]>> \in R
        BY DEF Ahead
      <3>2. PICK i \in 1 .. n : s[i] = x
        BY <1>6, <3>1
      <3>3. i # k
        BY <2>1, <3>1, <3>2 DEF Orders
      <3>4. ~(k < i)
        BY <1>2, <2>1, <3>1, <3>2 DEF Orders
      <3> QED
        BY <1>1, <3>2, <3>3, <3>4
    <2>4. f \in Bijection(B, T)
      <3> HIDE DEF T
      <3>1. f \in [B -> T]
        BY <2>2
      <3>2. \A i, j \in B : f[i] = f[j] => i = j
        BY <1>3, <2>2 DEF Injection, IsInjective
      <3>3. \A x \in T : \E i \in B : f[i] = x
        BY <2>3
      <3> HIDE DEF f
      <3> QED
        BY <3>1, <3>2, <3>3 DEF Bijection, Injection, Surjection, IsInjective
    <2>5. ExistsBijection(1 .. k - 1, T)
      BY <2>4 DEF ExistsBijection
    <2> HIDE DEF T
    <2>6. Cardinality(T) = k - 1
      BY <2>1, <2>5, FS_CountingElements
    <2> QED
      BY <2>1, <2>6 DEF T
  <1>8. ASSUME NEW k \in 1 .. n, NEW x \in A, Cardinality(Ahead(R, A, x)) = k - 1
        PROVE  x = s[k]
    <2>1. PICK j \in 1 .. n : s[j] = x
      BY <1>6
    <2>2. j - 1 = k - 1
      BY <1>7, <1>8, <2>1
    <2> QED
      BY <1>1, <2>1, <2>2
  <1> QED
    BY <1>6, <1>7, <1>8

-------------------------------------------------------------------------------
(* Listed paths                                                            *)

(* A property of 0 that is handed on holds up to n: S is where it holds.   *)
LEMMA Reaches ==
  ASSUME NEW n \in Nat, NEW S, 0 \in S, \A j \in 1 .. n : j - 1 \in S => j \in S
  PROVE  0 .. n \subseteq S
  <1> DEFINE Bad == (0 .. n) \ S
  <1> SUFFICES ASSUME Bad # {} PROVE FALSE
    OBVIOUS
  <1>0. Bad \in SUBSET Nat
    OBVIOUS
  <1>1. PICK j \in Bad : \A i \in Bad : j <= i
    <2> HIDE DEF Bad
    <2> QED BY <1>0, Least
  <1>2. j \in 1 .. n /\ j - 1 \in 0 .. n /\ j - 1 \notin Bad
    BY <1>1
  <1> QED
    BY <1>1, <1>2

(* A trail, step by step.                                                  *)
LEMMA TrailSteps ==
  ASSUME NEW k, NEW r, NEW path, path.names \in Seq(Names \cup {DotDot})
  PROVE  /\ Trail(k, r, path)[0] =
              LET start == IF path.absolute THEN Top ELSE r IN
              IF k[start] = "none" THEN None ELSE start
         /\ \A j \in 1 .. Len(path.names) :
              Trail(k, r, path)[j] = Follow(k, Trail(k, r, path)[j - 1], path.names[j])
  <1>1. Len(path.names) \in Nat
    OBVIOUS
  <1> QED
    BY <1>1, TrailIsDefined

(* Where nothing is, nothing follows.                                      *)
LEMMA LeadsAllAlong ==
  ASSUME NEW k, NEW r, NEW path, path.names \in Seq(Names \cup {DotDot}),
         Target(k, r, path) # None
  PROVE  \A j \in 0 .. Len(path.names) : Trail(k, r, path)[j] # None
  <1> DEFINE trail == Trail(k, r, path)
             n == Len(path.names)
             S == {j \in 0 .. n : trail[n - j] # None}
  <1>1. n \in Nat /\ trail[n] # None
    BY DEF Target
  <1>2. \A j \in 1 .. n : trail[j - 1] = None => trail[j] = None
    BY TrailSteps DEF Follow
  <1> HIDE DEF trail, n
  <1>3. ASSUME NEW j \in 1 .. n, j - 1 \in S
        PROVE  j \in S
    <2>1. n - (j - 1) \in 1 .. n /\ n - (j - 1) - 1 = n - j /\ j \in 0 .. n
      BY <1>1
    <2>2. trail[n - (j - 1)] # None
      BY <1>3
    <2> QED
      BY <1>2, <2>1, <2>2
  <1>4. 0 .. n \subseteq S
    <2>1. 0 \in S
      BY <1>1
    <2> HIDE DEF S
    <2> QED
      BY <1>1, <1>3, <2>1, Reaches
  <1>5. ASSUME NEW j \in 0 .. n
        PROVE  trail[j] # None
    <2>1. n - j \in 0 .. n /\ n - (n - j) = j
      BY <1>1
    <2> QED
      BY <1>4, <2>1
  <1> QED
    BY <1>5 DEF trail, n

(* A path with more names behind it goes on from where it led.             *)
LEMMA GoesOn ==
  ASSUME NEW k, NEW r, NEW p \in Paths, NEW names \in Seq(Names),
         k[Target(k, r, p)] # "none"
  PROVE  Target(k, r, Display(p, names))
           = Target(k, Target(k, r, p), [absolute |-> FALSE, names |-> names])
  <1> DEFINE d == Display(p, names)
             rest == [absolute |-> FALSE, names |-> names]
             aim == Target(k, r, p)
             m == Len(p.names)
             n == Len(names)
             whole == Trail(k, r, d)
             front == Trail(k, r, p)
             back == Trail(k, aim, rest)
  <1>1. /\ d.absolute = p.absolute /\ d.names = p.names \o names
        /\ p.names \in Seq(Names \cup {DotDot}) /\ names \in Seq(Names \cup {DotDot})
        /\ rest.names = names /\ ~rest.absolute
    BY DEF Display, Paths
  <1>2. /\ m \in Nat /\ n \in Nat /\ Len(d.names) = m + n
        /\ d.names \in Seq(Names \cup {DotDot})
        /\ \A j \in 1 .. m : d.names[j] = p.names[j]
        /\ \A j \in 1 .. n : d.names[m + j] = names[j]
    BY <1>1
  <1> HIDE DEF d, rest
  <1>3. /\ whole[0] = front[0]
        /\ \A j \in 1 .. m + n : whole[j] = Follow(k, whole[j - 1], d.names[j])
    <2> DEFINE first == IF k[IF p.absolute THEN Top ELSE r] = "none" THEN None
                        ELSE IF p.absolute THEN Top ELSE r
    <2>0. whole[0] = first
      <3>1. whole[0] = LET start == IF d.absolute THEN Top ELSE r IN
                       IF k[start] = "none" THEN None ELSE start
        BY <1>2, TrailSteps
      <3>2. (d.absolute <=> p.absolute)
        BY <1>1
      <3> HIDE DEF whole
      <3> QED
        BY <3>1, <3>2
    <2>1. whole[0] = front[0]
      <3>1. front[0] = first
        BY <1>1, TrailSteps
      <3> HIDE DEF whole, front
      <3> QED
        BY <2>0, <3>1
    <2>2. \A j \in 1 .. Len(d.names) : whole[j] = Follow(k, whole[j - 1], d.names[j])
      BY <1>2, TrailSteps
    <2> QED
      BY <1>2, <2>1, <2>2
  <1>4. \A j \in 1 .. m : front[j] = Follow(k, front[j - 1], p.names[j])
    BY <1>1, TrailSteps
  <1>5. /\ back[0] = aim
        /\ \A j \in 1 .. n : back[j] = Follow(k, back[j - 1], names[j])
    BY <1>1, TrailSteps
  <1>6. aim = front[m] /\ Target(k, r, d) = whole[m + n] /\ Target(k, aim, rest) = back[n]
    BY <1>1, <1>2 DEF Target
  <1> DEFINE F == {j \in 0 .. m : whole[j] = front[j]}
             B == {j \in 0 .. n : whole[m + j] = back[j]}
  <1> HIDE DEF whole, front, back, m, n, aim
  <1>7. 0 .. m \subseteq F
    <2>1. 0 \in F
      BY <1>2, <1>3
    <2>2. ASSUME NEW j \in 1 .. m, j - 1 \in F
          PROVE  j \in F
      <3>1. j \in 1 .. m + n /\ j \in 0 .. m
        BY <1>2
      <3> QED
        BY <1>2, <1>3, <1>4, <2>2, <3>1
    <2> HIDE DEF F
    <2> QED
      BY <1>2, <2>1, <2>2, Reaches
  <1>8. 0 .. n \subseteq B
    <2>1. 0 \in B
      <3>1. m \in F /\ m + 0 = m
        BY <1>2, <1>7
      <3> QED
        BY <1>2, <1>5, <1>6, <3>1
    <2>2. ASSUME NEW j \in 1 .. n, j - 1 \in B
          PROVE  j \in B
      <3>1. PICK i \in 1 .. m + n : i = m + j /\ j \in 0 .. n /\ m + (j - 1) = i - 1
        BY <1>2
      <3>2. whole[i] = Follow(k, whole[i - 1], d.names[i])
        BY <1>3
      <3>3. whole[i - 1] = back[j - 1]
        BY <2>2, <3>1
      <3>4. d.names[i] = names[j]
        BY <1>2, <3>1
      <3>5. whole[i] = back[j]
        BY <1>5, <3>2, <3>3, <3>4
      <3> QED
        BY <3>1, <3>5
    <2> HIDE DEF B
    <2> QED
      BY <1>2, <2>1, <2>2, Reaches
  <1>9. whole[m + n] = back[n]
    BY <1>2, <1>8
  <1> QED
    BY <1>6, <1>9 DEF aim, d, rest

LEMMA TargetIsPlace ==
  ASSUME NEW k \in Kinds, NEW r \in Places, NEW path \in Paths, Target(k, r, path) # None
  PROVE  Target(k, r, path) \in Places
  <1>1. path.names \in Seq(Names \cup {DotDot})
    BY DEF Paths
  <1>2. Len(path.names) \in 0 .. Len(path.names)
    BY <1>1
  <1>3. \A j \in 0 .. Len(path.names) : Trail(k, r, path)[j] \in Places \cup {None}
    BY <1>1, TargetTyped DEF Kinds
  <1> QED
    BY <1>2, <1>3 DEF Target

(* What a walk from a place finds is within whatever that place is within. *)
LEMMA WalksDown ==
  ASSUME NEW k, NEW aim \in Places, NEW names \in Below[aim],
         Target(k, aim, [absolute |-> FALSE, names |-> names]) # None
  PROVE  /\ names \in Seq(Names)
         /\ Above[aim] \subseteq Above[Target(k, aim, [absolute |-> FALSE, names |-> names])]
  <1> DEFINE rest == [absolute |-> FALSE, names |-> names]
             n == Len(names)
             back == Trail(k, aim, rest)
  <1>1. /\ names \in Seq(Names) /\ n \in Nat /\ rest.names = names /\ ~rest.absolute
        /\ rest.names \in Seq(Names \cup {DotDot})
        /\ \A j \in 1 .. n : names[j] \in Names /\ names[j] # DotDot
    <2>1. names \in Seq(Names)
      BY ListingAssumption
    <2>2. \A j \in 1 .. n : names[j] \in Names
      BY <2>1
    <2>3. names \in Seq(Names \cup {DotDot})
      BY <2>1
    <2> QED
      BY <2>1, <2>2, <2>3, TreeAssumption
  <1>2. PICK step \in [0 .. n -> Places] :
          /\ step[0] = aim
          /\ \A j \in 1 .. n : /\ Link[step[j - 1]][names[j]] = step[j]
                               /\ Parent[step[j]] = step[j - 1] /\ step[j] # Top
    BY ListingAssumption
  <1>3. \A j \in 0 .. n : back[j] # None
    BY <1>1, LeadsAllAlong
  <1>4. /\ back[0] = (IF k[aim] = "none" THEN None ELSE aim)
        /\ \A j \in 1 .. n : back[j] = Follow(k, back[j - 1], names[j])
    BY <1>1, TrailSteps
  <1>5. Target(k, aim, rest) = back[n]
    BY <1>1 DEF Target
  <1> HIDE DEF back, rest, n
  <1> DEFINE S == {j \in 0 .. n : back[j] = step[j] /\ Above[aim] \subseteq Above[step[j]]}
  <1>6. 0 \in S
    BY <1>1, <1>2, <1>3, <1>4
  <1>7. ASSUME NEW j \in 1 .. n, j - 1 \in S
        PROVE  j \in S
    <2>1. j \in 0 .. n /\ j - 1 \in 0 .. n
      BY <1>1
    <2>2. back[j] = Follow(k, step[j - 1], names[j]) /\ back[j] # None
      BY <1>3, <1>4, <1>7, <2>1
    <2>3. back[j] = Link[step[j - 1]][names[j]]
      BY <1>1, <2>2 DEF Follow
    <2>4. back[j] = step[j]
      BY <1>2, <2>3
    <2>5. step[j] \in Places \ {Top} /\ Parent[step[j]] = step[j - 1]
      BY <1>2, <2>1
    <2>6. Above[step[j]] = {step[j]} \cup Above[step[j - 1]]
      BY <2>5, TreeAssumption
    <2> QED
      BY <1>7, <2>1, <2>4, <2>6
  <1>8. n \in S
    <2> HIDE DEF S
    <2>1. 0 .. n \subseteq S
      BY <1>1, <1>6, <1>7, Reaches
    <2> QED
      BY <1>1, <2>1
  <1> QED
    BY <1>1, <1>5, <1>8 DEF rest

(* The path a listing shows for a file leads to it and is as confined as   *)
(* the path of the request was.                                            *)
LEMMA LeadsBack ==
  ASSUME NEW k \in Kinds, NEW r \in Places, NEW p \in Paths, NEW restrict,
         Target(k, r, p) # None, k[Target(k, r, p)] = "dir", Resolves(k, r, restrict, p),
         NEW names \in Below[Target(k, r, p)],
         Target(k, Target(k, r, p), [absolute |-> FALSE, names |-> names]) # None
  PROVE  /\ Target(k, r, Display(p, names))
              = Target(k, Target(k, r, p), [absolute |-> FALSE, names |-> names])
         /\ Resolves(k, r, restrict, Display(p, names))
  <1> DEFINE d == Display(p, names)
             aim == Target(k, r, p)
             file == Target(k, aim, [absolute |-> FALSE, names |-> names])
  <1>1. aim \in Places
    BY TargetIsPlace
  <1>2. names \in Seq(Names) /\ Above[aim] \subseteq Above[file]
    BY <1>1, WalksDown
  <1>3. Target(k, r, d) = file
    BY <1>2, GoesOn
  <1>4. ASSUME Confined(k, r, p)
        PROVE  Confined(k, r, d)
    <2>1. p.names \in Seq(Names \cup {DotDot})
      BY DEF Paths
    <2>2. Within(r, aim) /\ \A j \in 1 .. Len(p.names) : p.names[j] # DotDot
      BY <1>4, <2>1, ConfinedWhereItLeads
    <2>3. Within(r, file)
      BY <1>2, <2>2 DEF Within
    <2>4. d.names = p.names \o names /\ d.names \in Seq(Names \cup {DotDot})
      <3>1. d.names = p.names \o names
        BY DEF Display, Paths
      <3>2. names \in Seq(Names \cup {DotDot})
        BY <1>2
      <3> HIDE DEF d
      <3> QED
        BY <2>1, <3>1, <3>2
    <2>5. \A j \in 1 .. Len(names) : names[j] # DotDot
      BY <1>2, TreeAssumption
    <2>6. \A j \in 1 .. Len(d.names) : d.names[j] # DotDot
      <3> HIDE DEF d
      <3> QED
        BY <1>2, <2>1, <2>2, <2>4, <2>5
    <2> HIDE DEF d, file
    <2> QED
      BY <1>3, <2>3, <2>4, <2>6, ConfinedWhereItLeads DEF file
  <1> QED
    BY <1>3, <1>4 DEF Resolves

-------------------------------------------------------------------------------
(* The listing of a request                                                *)

EntryOf(aim, names) == [file |-> names, modified |-> modified[FileBelow(aim, names)]]

(* The files below a place that a request asks for.                        *)
Wanted(q, aim) ==
  {names \in Below[aim] : FileBelow(aim, names) # None /\ Reports(q, names)}

WantedEntries(q, aim) == {EntryOf(aim, names) : names \in Wanted(q, aim)}

Before(q, aim) ==
  {pair \in Wanted(q, aim) \X Wanted(q, aim) :
     Precedes(EntryOf(aim, pair[1]), EntryOf(aim, pair[2]))}

(* Newest first and ties by path is a total order of the wanted files.     *)
LEMMA BeforeOrders ==
  ASSUME Placed, NEW q, NEW aim \in Places
  PROVE  /\ IsFiniteSet(Wanted(q, aim)) /\ Orders(Before(q, aim), Wanted(q, aim))
         /\ \A m, n \in Wanted(q, aim) :
              <<m, n>> \in Before(q, aim) <=> Precedes(EntryOf(aim, m), EntryOf(aim, n))
  <1> DEFINE A == Wanted(q, aim)
             R == Before(q, aim)
             T(m) == EntryOf(aim, m).modified
  <1>1. IsFiniteSet(A)
    <2>1. IsFiniteSet(Below[aim]) /\ A \in SUBSET Below[aim]
      BY ListingAssumption DEF Wanted
    <2> QED
      BY <2>1, FS_Subset
  <1>2. ASSUME NEW m \in A
        PROVE  T(m) \in Int /\ Rank[m] \in Nat /\ EntryOf(aim, m).file = m
    <2>1. FileBelow(aim, m) # None /\ m \in Below[aim]
      BY DEF Wanted
    <2>2. [absolute |-> FALSE, names |-> m] \in Paths
      <3>1. m \in Seq(Names)
        BY <2>1, ListingAssumption
      <3>2. m \in Seq(Names \cup {DotDot})
        BY <3>1
      <3> QED
        BY <3>2 DEF Paths
    <2>3. FileBelow(aim, m) \in Places
      BY <2>1, <2>2, TargetIsPlace DEF FileBelow, Placed
    <2>4. modified[FileBelow(aim, m)] \in Times
      BY <2>3 DEF Placed
    <2>5. \A t \in Times : t \in Int
      BY ListingAssumption DEF Times, Epoch
    <2> QED
      BY <2>1, <2>4, <2>5, ListingAssumption DEF EntryOf
  <1>3. \A m, n \in A : Rank[m] = Rank[n] => m = n
    BY ListingAssumption DEF Wanted
  <1>4. \A m, n \in A : <<m, n>> \in R <=> Precedes(EntryOf(aim, m), EntryOf(aim, n))
    BY DEF Before
  <1>5. \A m, n \in A : <<m, n>> \in R <=>
                          (T(m) > T(n) \/ (T(m) = T(n) /\ Rank[m] < Rank[n]))
    BY <1>2, <1>4 DEF Precedes
  <1> HIDE DEF T, R, A
  <1>6. \A m \in A : <<m, m>> \notin R
    BY <1>2, <1>5
  <1>7. ASSUME NEW x \in A, NEW y \in A, NEW z \in A, <<x, y>> \in R, <<y, z>> \in R
        PROVE  <<x, z>> \in R
    <2>1. T(x) \in Int /\ T(y) \in Int /\ T(z) \in Int
          /\ Rank[x] \in Nat /\ Rank[y] \in Nat /\ Rank[z] \in Nat
      BY <1>2
    <2>2. /\ T(x) > T(y) \/ (T(x) = T(y) /\ Rank[x] < Rank[y])
          /\ T(y) > T(z) \/ (T(y) = T(z) /\ Rank[y] < Rank[z])
      BY <1>5, <1>7
    <2>3. T(x) > T(z) \/ (T(x) = T(z) /\ Rank[x] < Rank[z])
      BY <2>1, <2>2
    <2> QED
      BY <1>5, <2>3
  <1>8. ASSUME NEW x \in A, NEW y \in A
        PROVE  x = y \/ <<x, y>> \in R \/ <<y, x>> \in R
    <2>1. T(x) \in Int /\ T(y) \in Int /\ Rank[x] \in Nat /\ Rank[y] \in Nat
      BY <1>2
    <2>2. CASE T(x) = T(y) /\ Rank[x] = Rank[y]
      BY <1>3, <2>2
    <2>3. CASE ~(T(x) = T(y) /\ Rank[x] = Rank[y])
      <3>1. \/ T(x) > T(y) \/ (T(x) = T(y) /\ Rank[x] < Rank[y])
            \/ T(y) > T(x) \/ (T(y) = T(x) /\ Rank[y] < Rank[x])
        BY <2>1, <2>3
      <3> QED
        BY <1>5, <3>1
    <2> QED
      BY <2>2, <2>3
  <1>9. Orders(R, A)
    BY <1>6, <1>7, <1>8 DEF Orders
  <1> QED
    BY <1>1, <1>4, <1>9 DEF A, R

(* Sorting the entries of the wanted files and cutting the list shows      *)
(* those that few enough others come before.                               *)
LEMMA ListingIsPromised ==
  ASSUME Placed, NEW q \in ToolRequests, NEW aim \in Places, NEW entries,
         entries = WantedEntries(q, aim),
         NEW list, list = Listing(q.path, entries, q.cap)
  PROVE  /\ [code |-> "ok", paths |-> list.paths, truncated |-> list.truncated]
              = PromisedListing(q, aim)
         /\ \A k \in DOMAIN list.paths : \E names \in Wanted(q, aim) :
              list.paths[k] = Display(q.path, names)
  <1> DEFINE A == Wanted(q, aim)
             R == Before(q, aim)
             n == Cardinality(A)
             E(m) == EntryOf(aim, m)
             shown == 1 .. Smaller(n, q.cap)
             s == Sorted(entries)
             Ranked(k) == CHOOSE m \in A : Cardinality({l \in A : Precedes(E(l), E(m))}) = k - 1
  <1>1. /\ IsFiniteSet(A) /\ Orders(R, A) /\ n \in Nat /\ q.cap \in Nat
        /\ \A m, l \in A : <<m, l>> \in R <=> Precedes(E(m), E(l))
    BY BeforeOrders, FS_CardinalityType, ServerAssumption
  <1>2. \A m \in A : E(m).file = m /\ E(m) \in entries
    BY DEF EntryOf, WantedEntries
  <1>3. \A e \in entries : e.file \in A /\ e = E(e.file)
    BY DEF EntryOf, WantedEntries
  <1>4. Cardinality(entries) = n
    <2> DEFINE f == [m \in A |-> E(m)]
    <2>1. f \in Bijection(A, entries)
      <3>1. f \in [A -> entries]
        BY <1>2
      <3>2. \A m, l \in A : f[m] = f[l] => m = l
        BY <1>2
      <3>3. \A e \in entries : \E m \in A : f[m] = e
        BY <1>3
      <3> HIDE DEF f, A
      <3> QED
        BY <3>1, <3>2, <3>3 DEF Bijection, Injection, Surjection, IsInjective
    <2> HIDE DEF f, A
    <2> QED
      BY <1>1, <2>1, FS_Bijection DEF ExistsBijection
  <1>5. /\ s \in [1 .. n -> entries]
        /\ \A i, j \in 1 .. n : i < j => Precedes(s[i], s[j])
    <2>1. PICK t : Sorts(t, R, A)
      BY <1>1, SortExists
    <2> DEFINE u == [i \in 1 .. n |-> E(t[i])]
    <2>2. t \in [1 .. n -> A] /\ \A i, j \in 1 .. n : i < j => <<t[i], t[j]>> \in R
      BY <2>1 DEF Sorts
    <2>3. u \in [1 .. n -> entries]
      BY <1>2, <2>2
    <2>4. \A i, j \in 1 .. n : i < j => Precedes(u[i], u[j])
      BY <1>1, <2>2
    <2> HIDE DEF u
    <2>5. \E sorted \in [1 .. Cardinality(entries) -> entries] :
            \A i, j \in DOMAIN sorted : i < j => Precedes(sorted[i], sorted[j])
      BY <1>4, <2>3, <2>4
    <2>6. /\ s \in [1 .. Cardinality(entries) -> entries]
          /\ \A i, j \in DOMAIN s : i < j => Precedes(s[i], s[j])
      BY <2>5 DEF Sorted
    <2> QED
      BY <1>4, <2>6
  <1> HIDE DEF s
  <1> DEFINE t == [i \in 1 .. n |-> s[i].file]
  <1>6. Sorts(t, R, A)
    <2>1. t \in [1 .. n -> A]
      BY <1>3, <1>5
    <2>2. \A i, j \in 1 .. n : i < j => <<t[i], t[j]>> \in R
      <3>1. \A i \in 1 .. n : t[i] \in A /\ E(t[i]) = s[i]
        BY <1>3, <1>5
      <3> QED
        BY <1>1, <1>5, <3>1
    <2> HIDE DEF t
    <2> QED
      BY <2>1, <2>2 DEF Sorts
  <1>7. \A k \in 1 .. n : t[k] \in A /\ Ranked(k) = t[k]
    <2>1. /\ \A k \in 1 .. n : /\ t[k] \in A /\ Cardinality(Ahead(R, A, t[k])) = k - 1
                               /\ \A m \in A : Cardinality(Ahead(R, A, m)) = k - 1 => m = t[k]
      <3> HIDE DEF t, R, A
      <3> QED
        BY <1>1, <1>6, SortCounts DEF A
    <2>2. ASSUME NEW m \in A
          PROVE  {l \in A : Precedes(E(l), E(m))} = Ahead(R, A, m)
      <3> HIDE DEF R, E, A
      <3> QED
        BY <1>1 DEF Ahead
    <2>3. ASSUME NEW k \in 1 .. n
          PROVE  t[k] \in A /\ Ranked(k) = t[k]
      <3>1. /\ t[k] \in A
            /\ Cardinality({l \in A : Precedes(E(l), E(t[k]))}) = k - 1
            /\ \A m \in A : Cardinality({l \in A : Precedes(E(l), E(m))}) = k - 1 => m = t[k]
        <4> HIDE DEF t, E, R, A
        <4> QED
          BY <2>1, <2>2
      <3> HIDE DEF t, E, A
      <3> QED
        BY <3>1
    <2> QED
      BY <2>3
  <1>8. shown \subseteq 1 .. n
    BY <1>1 DEF Smaller
  <1>9. /\ list.paths = [k \in shown |-> Display(q.path, s[k].file)]
        /\ list.truncated = (n > q.cap)
    BY <1>4 DEF Listing, s
  <1>10. PromisedListing(q, aim)
           = [code |-> "ok", paths |-> [k \in shown |-> Display(q.path, Ranked(k))],
              truncated |-> n > q.cap]
    BY DEF PromisedListing, Wanted, EntryOf
  <1> DEFINE P == [k \in shown |-> Display(q.path, t[k])]
  <1>11. list.paths = P
    <2>1. \A k \in shown : s[k].file = t[k]
      BY <1>8
    <2> HIDE DEF t
    <2> QED
      BY <1>9, <2>1
  <1>12. [k \in shown |-> Display(q.path, Ranked(k))] = P
    <2>1. \A k \in shown : Ranked(k) = t[k]
      BY <1>7, <1>8
    <2> HIDE DEF t, Ranked
    <2> QED
      BY <2>1
  <1>13. \A k \in shown : t[k] \in A
    BY <1>7, <1>8
  <1> HIDE DEF t, Ranked, shown, A, n
  <1> QED
    BY <1>9, <1>10, <1>11, <1>12, <1>13 DEF A

-------------------------------------------------------------------------------
(* One root per call                                                       *)

(* A call that was sent is in one message or was received.                 *)
CallsOnTheirWay ==
  \A k \in DOMAIN inbox : inbox[k].what = "call" =>
    /\ call[inbox[k].call].phase = "sent"
    /\ \A j \in DOMAIN inbox : inbox[j].what = "call" /\ inbox[j].call = inbox[k].call => j = k

(* The wanted files a walk has passed.                                     *)
Passed(c) == Wanted(call[c].request, Aim(c)) \ call[c].todo

WalkSoFar(c) ==
  /\ call[c].todo \subseteq Below[Aim(c)]
  /\ call[c].listed \subseteq Passed(c)
  /\ call[c].entries = {EntryOf(Aim(c), names) : names \in Passed(c) \ call[c].listed}

AimsAtDirectory(c) ==
  /\ call[c].root \in Places
  /\ Resolves(kind, call[c].root, config.restrict, call[c].request.path)
  /\ Aim(c) # None /\ kind[Aim(c)] = "dir"

(* What is known of a call by what it has done.                            *)
Holds(c) ==
  /\ Open(c) => root \in held[c]
  /\ call[c].phase \notin {"walk", "answered"} => call[c].listed = {} /\ call[c].entries = {}
  /\ call[c].phase \in {"resolve", "act", "stat", "walk"} =>
       /\ call[c].root \in held[c] \cap Places
       /\ call[c].request.tool # "unknown" /\ call[c].request.parses
  /\ call[c].phase = "act" => call[c].request.tool = "file"
  /\ call[c].phase \in {"stat", "walk"} =>
       call[c].request.tool = "glob" /\ GlobRefusal(call[c].request) = "none"

(* What is known of it while the files stay as they were at its dispatch.  *)
Sees(c) ==
  /\ call[c].phase \in {"act", "stat"} =>
       Resolves(kind, call[c].root, config.restrict, call[c].request.path)
  /\ call[c].phase = "walk" => AimsAtDirectory(c) /\ WalkSoFar(c)
  /\ call[c].phase = "answered" =>
       /\ \E r \in held[c] : call[c].reply = PromisedReply(call[c].request, r)
       /\ call[c].reply.code = "ok" /\ call[c].request.tool = "glob" =>
            /\ AimsAtDirectory(c)
            /\ \A k \in DOMAIN call[c].reply.paths :
                 \E names \in Wanted(call[c].request, Aim(c)) :
                   call[c].reply.paths[k] = Display(call[c].request.path, names)

CallInv ==
  /\ DOMAIN held = Calls
  /\ CallsOnTheirWay
  /\ \A c \in Calls : Holds(c) /\ (found[c] # None => Sees(c))

(* What is promised of a request depends on the files and the mode alone.  *)
LEMMA PromiseKept ==
  ASSUME UNCHANGED <<kind, modified, config>>
  PROVE  \A q, r : PromisedReply(q, r)' = PromisedReply(q, r)
  <1>1. \A p, names : FileBelow(p, names)' = FileBelow(p, names)
    BY DEF FileBelow
  <1>2. ASSUME NEW q, NEW p
        PROVE  PromisedListing(q, p)' = PromisedListing(q, p)
    <2> DEFINE Entry(names) == [file |-> names, modified |-> modified[FileBelow(p, names)]]
               all == {names \in Below[p] : FileBelow(p, names) # None /\ Reports(q, names)}
               InFront(names) == {m \in all : Precedes(Entry(m), Entry(names))}
               at(k) == CHOOSE names \in all : Cardinality(InFront(names)) = k - 1
               count == Cardinality(all)
    <2>1. PromisedListing(q, p)
            = [code |-> "ok",
               paths |-> [k \in 1 .. Smaller(count, q.cap) |-> Display(q.path, at(k))],
               truncated |-> count > q.cap]
      BY DEF PromisedListing
    <2>2. PromisedListing(q, p)'
            = [code |-> "ok",
               paths |-> [k \in 1 .. Smaller(count', q.cap) |-> Display(q.path, at(k)')],
               truncated |-> count' > q.cap]
      BY DEF PromisedListing
    <2>3. all' = all
      BY <1>1
    <2>4. \A names : Entry(names)' = Entry(names)
      BY <1>1
    <2> HIDE DEF Entry, all
    <2>5. \A names : InFront(names)' = InFront(names)
      BY <2>3, <2>4
    <2> HIDE DEF InFront
    <2>6. \A k : at(k)' = at(k)
      BY <2>3, <2>5
    <2>7. count' = count
      BY <2>3
    <2> HIDE DEF at, count
    <2> QED
      BY <2>1, <2>2, <2>6, <2>7
  <1> QED
    BY <1>2 DEF PromisedReply

(* A call that does not move.                                              *)
LEMMA HoldsOn ==
  ASSUME NEW c, call'[c] = call[c], held[c] \subseteq held'[c], Open(c) => root' \in held'[c],
         Holds(c)
  PROVE  Holds(c)'
  BY DEF Holds, Open

LEMMA SeesOn ==
  ASSUME UNCHANGED <<kind, modified, config>>, NEW c, call'[c] = call[c],
         held[c] \subseteq held'[c], Sees(c)
  PROVE  Sees(c)'
  <1>1. Aim(c)' = Aim(c)
    BY DEF Aim
  <1>2. AimsAtDirectory(c) => AimsAtDirectory(c)'
    BY <1>1 DEF AimsAtDirectory
  <1>3. Wanted(call[c].request, Aim(c))' = Wanted(call[c].request, Aim(c))
    BY <1>1 DEF Wanted, FileBelow
  <1>4. WalkSoFar(c) => WalkSoFar(c)'
    BY <1>1, <1>3 DEF WalkSoFar, Passed, EntryOf, FileBelow
  <1>5. \A r : PromisedReply(call[c].request, r)' = PromisedReply(call[c].request, r)
    BY PromiseKept
  <1> QED
    BY <1>1, <1>2, <1>3, <1>4, <1>5 DEF Sees

(* Messages leave the inbox or other messages come, and no call that was   *)
(* sent moves.                                                             *)
LEMMA MessagesStay ==
  ASSUME CallsOnTheirWay, inbox \in Seq(Messages),
         \/ UNCHANGED inbox
         \/ \E m \in Messages : inbox' = Append(inbox, m) /\ m.what # "call"
         \/ inbox # <<>> /\ inbox' = Tail(inbox),
         \A k \in DOMAIN inbox : inbox[k].what = "call" => call'[inbox[k].call].phase = "sent"
  PROVE  CallsOnTheirWay'
  <1>1. CASE UNCHANGED inbox
    BY <1>1 DEF CallsOnTheirWay
  <1>2. ASSUME NEW m \in Messages, inbox' = Append(inbox, m), m.what # "call"
        PROVE  CallsOnTheirWay'
    BY <1>2, Arrives DEF CallsOnTheirWay
  <1>3. CASE inbox # <<>> /\ inbox' = Tail(inbox)
    <2>1. /\ \A k \in DOMAIN inbox' : k + 1 \in DOMAIN inbox /\ inbox'[k] = inbox[k + 1]
          /\ \A j, k \in DOMAIN inbox' : j # k => j + 1 # k + 1
      BY <1>3, Leaves
    <2> QED
      BY <2>1 DEF CallsOnTheirWay
  <1> QED
    BY <1>1, <1>2, <1>3

(* No call moves.                                                          *)
LEMMA NoCallMoves ==
  ASSUME CallInv, CallShapes, AdoptionInv,
         UNCHANGED <<call, config>>, DOMAIN held' = Calls,
         \A c \in Calls : held[c] \subseteq held'[c] /\ (Open(c) => root' \in held'[c]),
         \/ UNCHANGED <<kind, modified, found>>
         \/ \A c \in Calls : found'[c] = None,
         \/ UNCHANGED inbox
         \/ \E m \in Messages : inbox' = Append(inbox, m) /\ m.what # "call"
         \/ inbox # <<>> /\ inbox' = Tail(inbox)
  PROVE  CallInv'
  <1>1. CallsOnTheirWay'
    <2>1. CallsOnTheirWay /\ inbox \in Seq(Messages)
      BY DEF CallInv, AdoptionInv, SessionTypes
    <2>2. \A k \in DOMAIN inbox : inbox[k].what = "call" => call'[inbox[k].call].phase = "sent"
      BY <2>1 DEF CallsOnTheirWay
    <2> QED
      BY <2>1, <2>2, MessagesStay
  <1>2. ASSUME NEW c \in Calls
        PROVE  Holds(c)' /\ (found'[c] # None => Sees(c)')
    <2>1. Holds(c) /\ (found[c] # None => Sees(c)) /\ call'[c] = call[c]
      BY DEF CallInv
    <2>2. Holds(c)'
      BY <2>1, HoldsOn
    <2>3. ASSUME found'[c] # None
          PROVE  Sees(c)'
      BY <2>1, <2>3, SeesOn
    <2> QED
      BY <2>2, <2>3
  <1> QED
    BY <1>1, <1>2 DEF CallInv

(* One call that is past its message moves, and works.                     *)
LEMMA CallWorks ==
  ASSUME CallInv, CallShapes, AdoptionInv, NEW c \in Calls, CallUnchanged,
         call[c].phase # "sent",
         \A d \in Calls \ {c} : call'[d] = call[d] /\ found'[d] = found[d],
         Holds(c)', found'[c] # None => Sees(c)'
  PROVE  CallInv'
  <1>0. UNCHANGED <<kind, modified, config, root, inbox, held>>
    BY DEF CallUnchanged, world
  <1>1. CallsOnTheirWay'
    <2>1. CallsOnTheirWay /\ inbox \in Seq(Messages)
      BY DEF CallInv, AdoptionInv, SessionTypes
    <2>2. ASSUME NEW k \in DOMAIN inbox, inbox[k].what = "call"
          PROVE  call'[inbox[k].call].phase = "sent"
      <3>1. inbox[k] \in Messages
        BY <2>1
      <3>2. inbox[k].call \in Calls \ {c} /\ call[inbox[k].call].phase = "sent"
        BY <2>1, <2>2, <3>1, MessageShape DEF CallsOnTheirWay
      <3> QED
        BY <3>2
    <2> QED
      BY <1>0, <2>1, <2>2, MessagesStay
  <1>2. ASSUME NEW d \in Calls \ {c}
        PROVE  Holds(d)' /\ (found'[d] # None => Sees(d)')
    <2>1. Holds(d) /\ (found[d] # None => Sees(d)) /\ call'[d] = call[d] /\ found'[d] = found[d]
      BY DEF CallInv
    <2>2. held[d] \subseteq held'[d] /\ (Open(d) => root' \in held'[d])
      BY <1>0, <2>1 DEF Holds
    <2>3. Holds(d)'
      BY <2>1, <2>2, HoldsOn
    <2>4. ASSUME found'[d] # None
          PROVE  Sees(d)'
      BY <1>0, <2>1, <2>2, <2>4, SeesOn
    <2> QED
      BY <2>3, <2>4
  <1> QED
    BY <1>0, <1>1, <1>2 DEF CallInv

LEMMA SendOneRoot ==
  ASSUME CallInv, CallShapes, AdoptionInv, NEW c \in Calls, SendCall(c)
  PROVE  CallInv'
  <1>1. PICK q \in ToolRequests :
          inbox' = Append(inbox, [what |-> "call", call |-> c, request |-> q])
    BY DEF SendCall
  <1> DEFINE m == [what |-> "call", call |-> c, request |-> q]
  <1>2. m \in Messages /\ m.what = "call" /\ m.call = c
    BY DEF Messages
  <1>3. /\ UNCHANGED <<kind, modified, config, root, found>>
        /\ call[c].phase = "idle" /\ call' = [call EXCEPT ![c].phase = "sent"]
        /\ held' = [held EXCEPT ![c] = {root}] /\ inbox \in Seq(Messages)
    BY DEF SendCall, world, AdoptionInv, SessionTypes
  <1>4. /\ \A d \in Calls \ {c} : call'[d] = call[d] /\ held'[d] = held[d]
        /\ call'[c].phase = "sent" /\ held'[c] = {root} /\ DOMAIN held' = Calls
        /\ call'[c].listed = call[c].listed /\ call'[c].entries = call[c].entries
    BY <1>3 DEF CallInv, CallShapes, CallFields
  <1>5. CallsOnTheirWay'
    <2>1. /\ DOMAIN inbox' = DOMAIN inbox \cup {Len(inbox) + 1}
          /\ inbox'[Len(inbox) + 1] = m
          /\ \A k \in DOMAIN inbox : inbox'[k] = inbox[k]
      <3> HIDE DEF m
      <3> QED
        BY <1>1, <1>2, <1>3, Arrives DEF m
    <2>2. ASSUME NEW k \in DOMAIN inbox, inbox[k].what = "call"
          PROVE  /\ inbox[k].call \in Calls \ {c} /\ call[inbox[k].call].phase = "sent"
                 /\ \A j \in DOMAIN inbox :
                      inbox[j].what = "call" /\ inbox[j].call = inbox[k].call => j = k
      <3>1. inbox[k] \in Messages
        BY <1>3
      <3> QED
        BY <1>3, <2>2, <3>1, MessageShape DEF CallInv, CallsOnTheirWay
    <2> HIDE DEF m
    <2> QED
      BY <1>2, <1>4, <2>1, <2>2 DEF CallsOnTheirWay
  <1>6. ASSUME NEW d \in Calls \ {c}
        PROVE  Holds(d)' /\ (found'[d] # None => Sees(d)')
    <2>1. Holds(d) /\ (found[d] # None => Sees(d)) /\ call'[d] = call[d] /\ found'[d] = found[d]
      BY <1>3, <1>4 DEF CallInv
    <2>2. held[d] \subseteq held'[d] /\ (Open(d) => root' \in held'[d])
      BY <1>3, <1>4, <2>1 DEF Holds
    <2>3. Holds(d)'
      BY <2>1, <2>2, HoldsOn
    <2>4. ASSUME found'[d] # None
          PROVE  Sees(d)'
      BY <1>3, <2>1, <2>2, <2>4, SeesOn
    <2> QED
      BY <2>3, <2>4
  <1>7. Holds(c)' /\ Sees(c)'
    <2>1. Holds(c)
      BY DEF CallInv
    <2> QED
      BY <1>3, <1>4, <2>1 DEF Holds, Sees, Open
  <1> QED
    BY <1>4, <1>5, <1>6, <1>7 DEF CallInv

LEMMA ReceiveOneRoot ==
  ASSUME CallInv, CallShapes, AdoptionInv, ReceiveCall
  PROVE  CallInv'
  <1>1. /\ UNCHANGED <<kind, modified, config, root, found, held>>
        /\ inbox # <<>> /\ inbox' = Tail(inbox) /\ inbox \in Seq(Messages)
        /\ Head(inbox) = inbox[1] /\ 1 \in DOMAIN inbox /\ inbox[1].what = "call"
        /\ inbox[1] \in Messages
    <2>1. inbox \in Seq(Messages) /\ inbox # <<>> /\ Head(inbox).what = "call"
          /\ inbox' = Tail(inbox)
      BY DEF ReceiveCall, Receives, AdoptionInv, SessionTypes
    <2>2. Head(inbox) = inbox[1] /\ 1 \in DOMAIN inbox /\ inbox[1] \in Messages
      BY <2>1
    <2> QED
      BY <2>1, <2>2 DEF ReceiveCall, Receives, world
  <1>2. PICK c \in Calls :
          /\ c = inbox[1].call
          /\ call' = [call EXCEPT ![c].phase = "received", ![c].request = inbox[1].request]
    BY <1>1, MessageShape DEF ReceiveCall
  <1>3. call[c].phase = "sent"
    BY <1>1, <1>2 DEF CallInv, CallsOnTheirWay
  <1>4. /\ \A d \in Calls \ {c} : call'[d] = call[d]
        /\ call'[c].phase = "received"
        /\ call'[c].listed = call[c].listed /\ call'[c].entries = call[c].entries
    BY <1>2 DEF CallShapes, CallFields
  <1>5. CallsOnTheirWay'
    <2>1. /\ \A k \in DOMAIN inbox' : k + 1 \in DOMAIN inbox /\ k + 1 # 1
                                      /\ inbox'[k] = inbox[k + 1]
          /\ \A j, k \in DOMAIN inbox' : j # k => j + 1 # k + 1
      BY <1>1, Leaves
    <2>2. ASSUME NEW k \in DOMAIN inbox', inbox'[k].what = "call"
          PROVE  /\ call'[inbox'[k].call].phase = "sent"
                 /\ \A j \in DOMAIN inbox' :
                      inbox'[j].what = "call" /\ inbox'[j].call = inbox'[k].call => j = k
      <3>1. k + 1 \in DOMAIN inbox /\ k + 1 # 1 /\ inbox'[k] = inbox[k + 1]
        BY <2>1
      <3>2. /\ call[inbox[k + 1].call].phase = "sent"
            /\ \A j \in DOMAIN inbox :
                 inbox[j].what = "call" /\ inbox[j].call = inbox[k + 1].call => j = k + 1
        BY <2>2, <3>1 DEF CallInv, CallsOnTheirWay
      <3>3. inbox[k + 1].call # c
        BY <1>1, <1>2, <3>1, <3>2
      <3>4. inbox[k + 1].call \in Calls
        <4>1. inbox[k + 1] \in Messages
          BY <1>1, <3>1
        <4> QED
          BY <2>2, <3>1, <4>1, MessageShape
      <3> QED
        BY <1>4, <2>1, <3>1, <3>2, <3>3, <3>4
    <2> QED
      BY <2>2 DEF CallsOnTheirWay
  <1>6. ASSUME NEW d \in Calls \ {c}
        PROVE  Holds(d)' /\ (found'[d] # None => Sees(d)')
    <2>1. Holds(d) /\ (found[d] # None => Sees(d)) /\ call'[d] = call[d] /\ found'[d] = found[d]
      BY <1>1, <1>4 DEF CallInv
    <2>2. held[d] \subseteq held'[d] /\ (Open(d) => root' \in held'[d])
      BY <1>1, <2>1 DEF Holds
    <2>3. Holds(d)'
      BY <2>1, <2>2, HoldsOn
    <2>4. ASSUME found'[d] # None
          PROVE  Sees(d)'
      BY <1>1, <2>1, <2>2, <2>4, SeesOn
    <2> QED
      BY <2>3, <2>4
  <1>7. Holds(c)' /\ Sees(c)'
    <2>1. Holds(c)
      BY <1>2 DEF CallInv
    <2> QED
      BY <1>1, <1>3, <1>4, <2>1 DEF Holds, Sees, Open
  <1> QED
    BY <1>1, <1>5, <1>6, <1>7 DEF CallInv

(* A call is answered as one of its roots would have it.                   *)
LEMMA AnswerOneRoot ==
  ASSUME CallInv, CallShapes, AdoptionInv, NEW c \in Calls, CallUnchanged,
         call[c].phase \notin {"idle", "sent"},
         \A d \in Calls \ {c} : found'[d] = found[d],
         NEW reply, Answer(c, reply),
         found'[c] # None =>
           /\ \E r \in held[c] : reply = PromisedReply(call[c].request, r)
           /\ reply.code = "ok" /\ call[c].request.tool = "glob" =>
                /\ AimsAtDirectory(c)
                /\ \A k \in DOMAIN reply.paths :
                     \E names \in Wanted(call[c].request, Aim(c)) :
                       reply.paths[k] = Display(call[c].request.path, names)
  PROVE  CallInv'
  <1>1. /\ \A d \in Calls \ {c} : call'[d] = call[d]
        /\ call'[c].phase = "answered" /\ call'[c].reply = reply
        /\ call'[c].root = call[c].root /\ call'[c].request = call[c].request
    BY AnswerShape
  <1>2. UNCHANGED <<kind, modified, config, root, inbox, held>>
    BY DEF CallUnchanged, world
  <1>3. Holds(c)'
    BY <1>1 DEF Holds, Open
  <1>4. ASSUME found'[c] # None
        PROVE  Sees(c)'
    <2>1. Aim(c)' = Aim(c)
      BY <1>1, <1>2 DEF Aim
    <2>2. AimsAtDirectory(c) => AimsAtDirectory(c)'
      BY <1>1, <1>2, <2>1 DEF AimsAtDirectory
    <2>3. Wanted(call[c].request, Aim(c))' = Wanted(call[c].request, Aim(c))
      BY <1>1, <1>2, <2>1 DEF Wanted, FileBelow
    <2>4. \A r : PromisedReply(call[c].request, r)' = PromisedReply(call[c].request, r)
      BY <1>1, <1>2, PromiseKept
    <2> QED
      BY <1>1, <1>2, <1>4, <2>1, <2>2, <2>3, <2>4 DEF Sees
  <1> QED
    BY <1>1, <1>3, <1>4, CallWorks

LEMMA DispatchOneRoot ==
  ASSUME CallInv, CallShapes, AdoptionInv, Placed, NEW c \in Calls, Dispatch(c)
  PROVE  CallInv'
  <1> DEFINE q == call[c].request
  <1>1. /\ call[c].phase = "received" /\ CallUnchanged
        /\ \A d \in Calls \ {c} : found'[d] = found[d]
        /\ Holds(c) /\ root \in held[c] /\ root \in Places
    BY DEF Dispatch, CallInv, Holds, Open, Placed
  <1>2. CASE q.tool = "unknown" /\ Refuse(c, "unknown_tool")
    <2>1. Answer(c, [code |-> "unknown_tool"])
          /\ [code |-> "unknown_tool"] = PromisedReply(q, root)
          /\ [code |-> "unknown_tool"].code # "ok"
      BY <1>2 DEF Refuse, PromisedReply
    <2> QED
      BY <1>1, <2>1, AnswerOneRoot
  <1>3. CASE q.tool # "unknown" /\ ~q.parses /\ Refuse(c, "invalid_arguments")
    <2>1. Answer(c, [code |-> "invalid_arguments"])
          /\ [code |-> "invalid_arguments"] = PromisedReply(q, root)
          /\ [code |-> "invalid_arguments"].code # "ok"
      BY <1>3 DEF Refuse, PromisedReply
    <2> QED
      BY <1>1, <2>1, AnswerOneRoot
  <1>4. CASE /\ q.tool # "unknown" /\ q.parses
             /\ call' = [call EXCEPT ![c].phase = "resolve", ![c].root = root]
    <2>1. /\ \A d \in Calls \ {c} : call'[d] = call[d]
          /\ call'[c].phase = "resolve" /\ call'[c].root = root
          /\ call'[c].request = call[c].request
          /\ call'[c].listed = call[c].listed /\ call'[c].entries = call[c].entries
      BY <1>4 DEF CallShapes, CallFields
    <2>2. held' = held /\ root' = root
      BY <1>1 DEF CallUnchanged
    <2>3. Holds(c)' /\ Sees(c)'
      BY <1>1, <1>4, <2>1, <2>2 DEF Holds, Sees, Open
    <2> QED
      BY <1>1, <2>1, <2>3, CallWorks
  <1> QED
    BY <1>2, <1>3, <1>4 DEF Dispatch

LEMMA ResolveOneRoot ==
  ASSUME CallInv, CallShapes, AdoptionInv, NEW c \in Calls, Resolve(c)
  PROVE  CallInv'
  <1> DEFINE q == call[c].request
             r == call[c].root
  <1>1. /\ call[c].phase = "resolve" /\ CallUnchanged /\ found' = found
        /\ Holds(c) /\ r \in held[c] \cap Places /\ q.tool # "unknown" /\ q.parses
        /\ root \in held[c] /\ q \in ToolRequests
    BY DEF Resolve, CallInv, Holds, Open, CallShapes
  <1>2. CASE q.tool = "glob" /\ GlobRefusal(q) # "none" /\ Refuse(c, GlobRefusal(q))
    <2>1. Answer(c, [code |-> GlobRefusal(q)])
          /\ [code |-> GlobRefusal(q)] = PromisedReply(q, r)
          /\ [code |-> GlobRefusal(q)].code # "ok"
      BY <1>1, <1>2 DEF Refuse, PromisedReply, GlobRefusal
    <2> QED
      BY <1>1, <2>1, AnswerOneRoot
  <1>3. CASE /\ q.tool = "glob" => GlobRefusal(q) = "none"
             /\ ~Resolves(kind, r, config.restrict, q.path) /\ Refuse(c, "root_escape")
    <2>1. Answer(c, [code |-> "root_escape"])
          /\ [code |-> "root_escape"] = PromisedReply(q, r)
          /\ [code |-> "root_escape"].code # "ok"
      BY <1>1, <1>3 DEF Refuse, PromisedReply
    <2> QED
      BY <1>1, <2>1, AnswerOneRoot
  <1>4. CASE /\ q.tool = "glob" => GlobRefusal(q) = "none"
             /\ Resolves(kind, r, config.restrict, q.path)
             /\ call' = [call EXCEPT ![c].phase = IF q.tool = "glob" THEN "stat" ELSE "act"]
    <2>1. /\ \A d \in Calls \ {c} : call'[d] = call[d]
          /\ call'[c].phase = IF q.tool = "glob" THEN "stat" ELSE "act"
          /\ call'[c].root = r /\ call'[c].request = q
          /\ call'[c].listed = call[c].listed /\ call'[c].entries = call[c].entries
      BY <1>4 DEF CallShapes, CallFields
    <2>2. held' = held /\ root' = root /\ kind' = kind /\ config' = config
      BY <1>1 DEF CallUnchanged, world
    <2>3. q.tool \in {"glob", "file"}
      BY <1>1, ServerAssumption DEF Tools
    <2> HIDE DEF q, r
    <2>4. Holds(c)'
      BY <1>1, <1>4, <2>1, <2>2, <2>3 DEF Holds, Open, q, r
    <2>5. Sees(c)'
      BY <1>4, <2>1, <2>2, <2>3 DEF Sees
    <2> QED
      BY <1>1, <2>1, <2>4, <2>5, CallWorks
  <1> QED
    BY <1>2, <1>3, <1>4 DEF Resolve

LEMMA ActOneRoot ==
  ASSUME CallInv, CallShapes, AdoptionInv, NEW c \in Calls, ActOnFile(c)
  PROVE  CallInv'
  <1> DEFINE q == call[c].request
             r == call[c].root
  <1>1. /\ call[c].phase = "act" /\ CallUnchanged /\ found' = found
        /\ r \in held[c] /\ q.tool = "file" /\ q.parses
        /\ found[c] # None => Resolves(kind, r, config.restrict, q.path)
    BY DEF ActOnFile, CallInv, Holds, Sees
  <1>2. PICK reply :
          /\ Answer(c, reply)
          /\ reply = IF Aim(c) = None THEN [code |-> "not_found"]
                     ELSE IF kind[Aim(c)] # "file" THEN [code |-> "io"]
                     ELSE [code |-> "ok", place |-> Aim(c)]
    BY DEF ActOnFile, Refuse
  <1>3. found[c] # None => reply = PromisedReply(q, r)
    BY <1>1, <1>2 DEF PromisedReply, Aim
  <1> QED
    BY <1>1, <1>2, <1>3, AnswerOneRoot

LEMMA StartOneRoot ==
  ASSUME CallInv, CallShapes, AdoptionInv, NEW c \in Calls, StartWalk(c)
  PROVE  CallInv'
  <1> DEFINE q == call[c].request
             r == call[c].root
  <1>1. /\ call[c].phase = "stat" /\ CallUnchanged /\ found' = found
        /\ root \in held[c] /\ r \in held[c] /\ r \in Places
        /\ q.tool = "glob" /\ q.parses /\ GlobRefusal(q) = "none"
        /\ call[c].listed = {} /\ call[c].entries = {}
        /\ found[c] # None => Resolves(kind, r, config.restrict, q.path)
    BY DEF StartWalk, CallInv, Holds, Sees, Open
  <1>2. ASSUME NEW reply, Answer(c, reply),
               \/ Aim(c) = None /\ reply = [code |-> "not_found"]
               \/ Aim(c) # None /\ kind[Aim(c)] # "dir" /\ reply = [code |-> "not_a_file"]
        PROVE  CallInv'
    <2>1. found[c] # None => reply = PromisedReply(q, r)
      BY <1>1, <1>2 DEF PromisedReply, Aim
    <2>2. reply.code # "ok"
      BY <1>2
    <2> QED
      BY <1>1, <1>2, <2>1, <2>2, AnswerOneRoot
  <1>3. CASE /\ Aim(c) # None /\ kind[Aim(c)] = "dir"
             /\ call' = [call EXCEPT ![c].phase = "walk", ![c].todo = Below[Aim(c)]]
    <2>1. /\ \A d \in Calls \ {c} : call'[d] = call[d]
          /\ call'[c].phase = "walk" /\ call'[c].root = r /\ call'[c].request = q
          /\ call'[c].todo = Below[Aim(c)]
          /\ call'[c].listed = {} /\ call'[c].entries = {}
      BY <1>1, <1>3 DEF CallShapes, CallFields
    <2>2. /\ held' = held /\ root' = root /\ kind' = kind /\ config' = config
          /\ modified' = modified
      BY <1>1 DEF CallUnchanged, world
    <2>3. Holds(c)'
      BY <1>1, <2>1, <2>2 DEF Holds, Open
    <2>4. Aim(c)' = Aim(c)
      BY <2>1, <2>2 DEF Aim
    <2>5. (AimsAtDirectory(c)' /\ WalkSoFar(c)') \/ found'[c] = None
      <3>1. CASE found[c] # None
        <4>1. AimsAtDirectory(c)'
          BY <1>1, <1>3, <2>1, <2>2, <2>4, <3>1 DEF AimsAtDirectory
        <4>2. Passed(c)' = {}
          BY <2>1, <2>4 DEF Passed, Wanted
        <4>3. WalkSoFar(c)'
          BY <2>1, <2>4, <4>2 DEF WalkSoFar
        <4> QED
          BY <4>1, <4>3
      <3>2. CASE found[c] = None
        BY <1>1, <3>2
      <3> QED
        BY <3>1, <3>2
    <2>6. found'[c] # None => Sees(c)'
      BY <2>1, <2>5 DEF Sees
    <2> QED
      BY <1>1, <2>1, <2>3, <2>6, CallWorks
  <1>4. \/ Aim(c) = None /\ Answer(c, [code |-> "not_found"])
        \/ /\ Aim(c) # None /\ kind[Aim(c)] # "dir"
           /\ Answer(c, [code |-> "not_a_file"])
        \/ /\ Aim(c) # None /\ kind[Aim(c)] = "dir"
           /\ call' = [call EXCEPT ![c].phase = "walk", ![c].todo = Below[Aim(c)]]
    BY DEF StartWalk, Refuse
  <1> QED
    BY <1>2, <1>3, <1>4

(* A walk goes on, and what it has collected fits.                         *)
LEMMA WalkOneRoot ==
  ASSUME CallInv, CallShapes, AdoptionInv, NEW c \in Calls, CallUnchanged, found' = found,
         call[c].phase = "walk",
         NEW todo, NEW listed, NEW entries,
         call' = [call EXCEPT ![c].todo = todo, ![c].listed = listed, ![c].entries = entries],
         found[c] # None =>
           /\ todo \subseteq Below[Aim(c)]
           /\ listed \subseteq Wanted(call[c].request, Aim(c)) \ todo
           /\ entries = {EntryOf(Aim(c), names) :
                           names \in (Wanted(call[c].request, Aim(c)) \ todo) \ listed}
  PROVE  CallInv'
  <1>1. /\ \A d \in Calls \ {c} : call'[d] = call[d]
        /\ call'[c].phase = "walk" /\ call'[c].root = call[c].root
        /\ call'[c].request = call[c].request
        /\ call'[c].todo = todo /\ call'[c].listed = listed /\ call'[c].entries = entries
    BY DEF CallShapes, CallFields
  <1>2. /\ held' = held /\ root' = root /\ kind' = kind /\ config' = config
        /\ modified' = modified
    BY DEF CallUnchanged, world
  <1>3. Holds(c) /\ (found[c] # None => AimsAtDirectory(c))
    BY DEF CallInv, Sees
  <1>4. Holds(c)'
    BY <1>1, <1>2, <1>3 DEF Holds, Open
  <1>5. ASSUME found[c] # None
        PROVE  Sees(c)'
    <2>1. Aim(c)' = Aim(c)
      BY <1>1, <1>2 DEF Aim
    <2>2. AimsAtDirectory(c)'
      BY <1>1, <1>2, <1>3, <1>5, <2>1 DEF AimsAtDirectory
    <2>3. Passed(c)' = Wanted(call[c].request, Aim(c)) \ todo
      BY <1>1, <1>2, <2>1 DEF Passed, Wanted, FileBelow
    <2>4. \A names : EntryOf(Aim(c), names)' = EntryOf(Aim(c), names)
      BY <1>2, <2>1 DEF EntryOf, FileBelow
    <2>5. WalkSoFar(c)'
      BY <1>1, <1>5, <2>1, <2>3, <2>4, ZenonT(40) DEF WalkSoFar
    <2> QED
      BY <1>1, <2>2, <2>5 DEF Sees
  <1> QED
    BY <1>1, <1>4, <1>5, CallWorks

LEMMA ListOneRoot ==
  ASSUME CallInv, CallShapes, AdoptionInv, NEW c \in Calls, NEW names \in call[c].todo,
         ListEntry(c, names)
  PROVE  CallInv'
  <1> DEFINE all == Wanted(call[c].request, Aim(c))
             todo == call[c].todo \ {names}
             listed == IF Aim(c) # None /\ FileBelow(Aim(c), names) # None
                          /\ Reports(call[c].request, names)
                       THEN call[c].listed \cup {names} ELSE call[c].listed
             entries == call[c].entries
  <1>1. /\ call[c].phase = "walk" /\ call[c].listed = {} /\ CallUnchanged /\ found' = found
        /\ call' = [call EXCEPT ![c].todo = todo, ![c].listed = listed]
    BY DEF ListEntry
  <1>2. call' = [call EXCEPT ![c].todo = todo, ![c].listed = listed, ![c].entries = entries]
    <2> HIDE DEF todo, listed
    <2> DEFINE x == [call EXCEPT ![c].todo = todo, ![c].listed = listed]
    <2>1. DOMAIN x[c] = CallFields /\ x[c].entries = call[c].entries /\ DOMAIN x = Calls
      BY DEF CallShapes, CallFields
    <2> QED
      BY <1>1, <2>1 DEF CallShapes, CallFields
  <1>3. ASSUME found[c] # None
        PROVE  /\ todo \subseteq Below[Aim(c)]
               /\ listed \subseteq all \ todo
               /\ entries = {EntryOf(Aim(c), m) : m \in (all \ todo) \ listed}
    <2>1. AimsAtDirectory(c) /\ WalkSoFar(c)
      BY <1>1, <1>3 DEF CallInv, Sees
    <2>2. /\ call[c].todo \subseteq Below[Aim(c)] /\ Aim(c) # None
          /\ call[c].entries = {EntryOf(Aim(c), m) : m \in (all \ call[c].todo)}
      BY <1>1, <2>1 DEF WalkSoFar, Passed, AimsAtDirectory
    <2>3. names \in Below[Aim(c)] /\ (names \in all <=> listed = {names})
          /\ (names \notin all <=> listed = {})
      BY <1>1, <2>2 DEF Wanted
    <2>4. (all \ todo) \ listed = all \ call[c].todo
      <3> HIDE DEF all, listed
      <3> QED
        BY <2>3
    <2>5. listed \subseteq all \ todo
      <3> HIDE DEF all, listed
      <3> QED
        BY <2>3
    <2> QED
      BY <2>2, <2>4, <2>5
  <1> HIDE DEF todo, listed, entries
  <1> QED
    BY <1>1, <1>2, <1>3, WalkOneRoot

LEMMA StatOneRoot ==
  ASSUME CallInv, CallShapes, AdoptionInv, NEW c \in Calls, NEW names \in call[c].listed,
         StatEntry(c, names)
  PROVE  CallInv'
  <1> DEFINE all == Wanted(call[c].request, Aim(c))
             file == IF Aim(c) = None THEN None ELSE FileBelow(Aim(c), names)
             time == IF file = None THEN Epoch ELSE modified[file]
             todo == call[c].todo
             listed == call[c].listed \ {names}
             entries == call[c].entries \cup {[file |-> names, modified |-> time]}
  <1>1. /\ call[c].phase = "walk" /\ CallUnchanged /\ found' = found
        /\ call' = [call EXCEPT ![c].listed = listed, ![c].entries = entries]
    BY DEF StatEntry
  <1>2. call' = [call EXCEPT ![c].todo = todo, ![c].listed = listed, ![c].entries = entries]
    <2> HIDE DEF listed, entries
    <2> QED
      BY <1>1 DEF CallShapes, CallFields
  <1>3. ASSUME found[c] # None
        PROVE  /\ todo \subseteq Below[Aim(c)]
               /\ listed \subseteq all \ todo
               /\ entries = {EntryOf(Aim(c), m) : m \in (all \ todo) \ listed}
    <2>1. AimsAtDirectory(c) /\ WalkSoFar(c)
      BY <1>1, <1>3 DEF CallInv, Sees
    <2>2. /\ todo \subseteq Below[Aim(c)] /\ Aim(c) # None
          /\ call[c].listed \subseteq all \ todo
          /\ call[c].entries = {EntryOf(Aim(c), m) : m \in (all \ todo) \ call[c].listed}
      BY <2>1 DEF WalkSoFar, Passed, AimsAtDirectory
    <2>3. FileBelow(Aim(c), names) # None /\ names \in all \ todo
      BY <2>2 DEF Wanted
    <2>4. [file |-> names, modified |-> time] = EntryOf(Aim(c), names)
      BY <2>2, <2>3 DEF EntryOf
    <2>5. (all \ todo) \ listed = ((all \ todo) \ call[c].listed) \cup {names}
      <3> HIDE DEF all
      <3> QED
        BY <2>3
    <2> HIDE DEF all, time, todo
    <2>6. entries = {EntryOf(Aim(c), m) : m \in (all \ todo) \ listed}
      BY <2>2, <2>4, <2>5
    <2> QED
      BY <2>2, <2>6
  <1> HIDE DEF todo, listed, entries
  <1> QED
    BY <1>1, <1>2, <1>3, WalkOneRoot

LEMMA AnswerGlobOneRoot ==
  ASSUME CallInv, CallShapes, AdoptionInv, Placed, NEW c \in Calls, AnswerGlob(c)
  PROVE  CallInv'
  <1> DEFINE q == call[c].request
             r == call[c].root
             list == Listing(q.path, call[c].entries, q.cap)
             reply == [code |-> "ok", paths |-> list.paths, truncated |-> list.truncated]
  <1>1. /\ call[c].phase = "walk" /\ CallUnchanged /\ found' = found
        /\ call[c].todo = {} /\ call[c].listed = {} /\ Answer(c, reply)
        /\ r \in held[c] /\ r \in Places /\ q.tool = "glob" /\ q.parses
        /\ GlobRefusal(q) = "none" /\ q \in ToolRequests
    BY DEF AnswerGlob, CallInv, Holds, CallShapes
  <1>2. ASSUME found[c] # None
        PROVE  /\ \E s \in held[c] : reply = PromisedReply(q, s)
               /\ AimsAtDirectory(c)
               /\ \A k \in DOMAIN reply.paths :
                    \E names \in Wanted(q, Aim(c)) : reply.paths[k] = Display(q.path, names)
    <2>1. AimsAtDirectory(c) /\ WalkSoFar(c)
      BY <1>1, <1>2 DEF CallInv, Sees
    <2>2. call[c].entries = {EntryOf(Aim(c), names) : names \in Wanted(q, Aim(c))}
      BY <1>1, <2>1 DEF WalkSoFar, Passed
    <2>3. Aim(c) \in Places
      <3>1. q.path \in Paths
        BY <1>1, ServerAssumption
      <3> QED
        BY <1>1, <2>1, <3>1, TargetIsPlace DEF AimsAtDirectory, Aim, Placed
    <2>4. /\ reply = PromisedListing(q, Aim(c))
          /\ \A k \in DOMAIN list.paths :
               \E names \in Wanted(q, Aim(c)) : list.paths[k] = Display(q.path, names)
      <3> HIDE DEF list
      <3>1. list = Listing(q.path, call[c].entries, q.cap)
        BY DEF list
      <3> HIDE DEF q
      <3>2. q \in ToolRequests
        BY <1>1
      <3>3. PICK aim \in Places : aim = Aim(c)
        BY <2>3
      <3>4. call[c].entries = WantedEntries(q, aim)
        BY <2>2, <3>3 DEF WantedEntries
      <3>5. /\ reply = PromisedListing(q, aim)
            /\ \A k \in DOMAIN list.paths :
                 \E names \in Wanted(q, aim) : list.paths[k] = Display(q.path, names)
        BY <3>1, <3>2, <3>4, ListingIsPromised
      <3> QED
        BY <3>3, <3>5
    <2>5. PromisedReply(q, r) = PromisedListing(q, Aim(c))
      BY <1>1, <2>1 DEF PromisedReply, AimsAtDirectory, Aim
    <2> HIDE DEF list
    <2>6. reply.paths = list.paths
      OBVIOUS
    <2> QED
      BY <1>1, <2>1, <2>4, <2>5, <2>6
  <1> HIDE DEF reply
  <1> QED
    BY <1>1, <1>2, AnswerOneRoot

LEMMA InstallOneRoot ==
  ASSUME CallInv, CallShapes, AdoptionInv, NEW t \in Tasks, InstallRoot(t)
  PROVE  CallInv'
  <1>1. UNCHANGED <<kind, modified, config, inbox, call, found>>
    BY DEF InstallRoot, world
  <1>2. /\ DOMAIN held' = Calls
        /\ \A c \in Calls : held'[c] = IF Open(c) THEN held[c] \cup {root'} ELSE held[c]
    BY DEF InstallRoot
  <1>3. \A c \in Calls : held[c] \subseteq held'[c] /\ (Open(c) => root' \in held'[c])
    BY <1>2
  <1> QED
    BY <1>1, <1>2, <1>3, NoCallMoves

LEMMA OneRootStep ==
  CallInv /\ CallShapes /\ AdoptionInv /\ Placed /\ [Next]_vars => CallInv'
  <1> SUFFICES ASSUME CallInv, CallShapes, AdoptionInv, Placed, [Next]_vars
               PROVE  CallInv'
    OBVIOUS
  <1>1. ASSUME UNCHANGED <<call, config, root, held, kind, modified, found>>,
               \/ UNCHANGED inbox
               \/ \E m \in Messages : inbox' = Append(inbox, m) /\ m.what # "call"
               \/ inbox # <<>> /\ inbox' = Tail(inbox)
        PROVE  CallInv'
    <2>1. DOMAIN held' = Calls
          /\ \A c \in Calls : held[c] \subseteq held'[c] /\ (Open(c) => root' \in held'[c])
      BY <1>1 DEF CallInv, Holds
    <2> QED
      BY <1>1, <2>1, NoCallMoves
  <1>2. CASE AnnounceList
    <2>1. [what |-> "list_changed"] \in Messages /\ [what |-> "list_changed"].what # "call"
      BY DEF Messages
    <2> QED
      BY <1>1, <1>2, <2>1 DEF AnnounceList, world
  <1>3. ASSUME NEW t \in Tasks, AnswerRootsRequest(t)
        PROVE  CallInv'
    <2>1. /\ [what |-> "roots", task |-> t, list |-> offered] \in Messages
          /\ [what |-> "error", task |-> t] \in Messages
          /\ [what |-> "roots", task |-> t, list |-> offered].what # "call"
          /\ [what |-> "error", task |-> t].what # "call"
      BY DEF Messages, AdoptionInv, SessionTypes
    <2>2. \E m \in Messages : inbox' = Append(inbox, m) /\ m.what # "call"
      BY <1>3, <2>1 DEF AnswerRootsRequest
    <2> QED
      BY <1>1, <1>3, <2>2 DEF AnswerRootsRequest, world
  <1>4. ASSUME NEW c \in Calls, SendCall(c)
        PROVE  CallInv'
    BY <1>4, SendOneRoot
  <1>5. CASE Loop
    <2>1. CASE SpawnAdoption \/ ReceiveRoots
      BY <1>1, <2>1 DEF SpawnAdoption, ReceiveRoots, Receives, world
    <2> QED
      BY <1>5, <2>1, ReceiveOneRoot DEF Loop
  <1>6. ASSUME NEW t \in Tasks, Adoption(t)
        PROVE  CallInv'
    <2>1. CASE AskForRoots(t) \/ TryRoot(t)
      BY <1>1, <2>1 DEF AskForRoots, TryRoot, world
    <2> QED
      BY <1>6, <2>1, InstallOneRoot DEF Adoption
  <1>7. ASSUME NEW c \in Calls, Work(c)
        PROVE  CallInv'
    BY <1>7, DispatchOneRoot, ResolveOneRoot, ActOneRoot, StartOneRoot, ListOneRoot,
       StatOneRoot, AnswerGlobOneRoot DEF Work
  <1>8. CASE \/ \E x \in Touchable : TouchFile(x)
             \/ \E x \in Movable : ChangePlace(x)
    <2>1. /\ UNCHANGED <<call, config, root, inbox, held>>
          /\ \A c \in Calls : found'[c] = None
      BY <1>8 DEF TouchFile, ChangePlace, Disturbs
    <2>2. DOMAIN held' = Calls
          /\ \A c \in Calls : held[c] \subseteq held'[c] /\ (Open(c) => root' \in held'[c])
      BY <2>1 DEF CallInv, Holds
    <2> QED
      BY <2>1, <2>2, NoCallMoves
  <1>9. CASE UNCHANGED vars
    BY <1>1, <1>9 DEF vars, world
  <1> QED
    BY <1>2, <1>3, <1>4, <1>5, <1>6, <1>7, <1>8, <1>9 DEF Next

LEMMA OneRootInit == Init => CallInv
  <1> SUFFICES ASSUME Init
               PROVE  CallInv
    OBVIOUS
  <1>1. \A k \in DOMAIN inbox : inbox[k].what # "call"
    BY DEF Init
  <1>2. DOMAIN held = Calls
    BY DEF Init
  <1>3. \A c \in Calls : /\ call[c].phase = "idle" /\ found[c] = None
                         /\ call[c].listed = {} /\ call[c].entries = {}
    BY DEF Init, NoCall
  <1> QED
    BY <1>1, <1>2, <1>3 DEF CallInv, CallsOnTheirWay, Holds, Open

LEMMA CallsHold == Spec => [](CallInv /\ CallShapes /\ Placed)
  <1>1. ConfinementInv => CallShapes
    BY DEF ConfinementInv
  <1> QED
    BY <1>1, AdoptionInit, AdoptionStep, ConfinementInit, ConfinementStep, PlacedInit,
       PlacedStep, OneRootInit, OneRootStep, PTL DEF Spec

(* Each call is answered as a single root would have it, and that root was *)
(* the server's at some moment of the call, however adoptions, other calls *)
(* and the service loop interleave with its steps (the snapshot of the     *)
(* root that call_tool takes). For a glob this covers the whole walk: the  *)
(* listing is that of every wanted file below the directory, sorted and    *)
(* cut as R024 says.                                                       *)
THEOREM AnswersUseOneRoot == Spec => []CallsUseOneRoot
  <1>1. CallInv => CallsUseOneRoot
    BY DEF CallInv, Sees, CallsUseOneRoot
  <1> QED
    BY <1>1, CallsHold, PTL

(* Every path of a listing, given back as it was reported, resolves from   *)
(* the root of its call to the file it stands for, under the confinement   *)
(* of that call: for every tree, links included, and every request path.   *)
THEOREM ListingsLeadBack == Spec => []ListedPathsLeadBack
  <1>1. CallInv /\ CallShapes /\ Placed => ListedPathsLeadBack
    <2> SUFFICES ASSUME CallInv, CallShapes, Placed, NEW c \in Calls,
                        call[c].phase = "answered", found[c] # None,
                        call[c].reply.code = "ok", call[c].request.tool = "glob",
                        NEW k \in DOMAIN call[c].reply.paths
                 PROVE  LET path == call[c].reply.paths[k]
                            place == Target(kind, call[c].root, path)
                        IN  /\ Resolves(kind, call[c].root, config.restrict, path)
                            /\ place # None
                            /\ \E names \in Below[Aim(c)] \cap call[c].request.matching :
                                 FileBelow(Aim(c), names) = place
      BY DEF ListedPathsLeadBack
    <2> DEFINE q == call[c].request
               aim == Target(kind, call[c].root, q.path)
    <2>1. AimsAtDirectory(c) /\ Aim(c) = aim
      BY DEF CallInv, Sees, Aim
    <2>2. PICK names \in Wanted(q, Aim(c)) : call[c].reply.paths[k] = Display(q.path, names)
      BY DEF CallInv, Sees
    <2> DEFINE file == Target(kind, aim, [absolute |-> FALSE, names |-> names])
    <2>3. /\ names \in Below[aim] /\ names \in q.matching
          /\ FileBelow(aim, names) = file /\ file # None
      BY <2>1, <2>2 DEF Wanted, FileBelow, Reports
    <2>4. q.path \in Paths /\ call[c].root \in Places /\ kind \in Kinds
      BY <2>1, ServerAssumption DEF CallShapes, AimsAtDirectory, Placed
    <2>5. /\ Target(kind, call[c].root, Display(q.path, names)) = file
          /\ Resolves(kind, call[c].root, config.restrict, Display(q.path, names))
      BY <2>1, <2>3, <2>4, LeadsBack DEF AimsAtDirectory, Aim
    <2> HIDE DEF file
    <2> QED
      BY <2>1, <2>2, <2>3, <2>5
  <1> QED
    BY <1>1, CallsHold, PTL

-------------------------------------------------------------------------------
(* Progress                                                                *)

(* The course of a call.                                                   *)
Stage == [idle |-> 0, sent |-> 1, received |-> 2, resolve |-> 3, act |-> 4, stat |-> 4,
          walk |-> 5, answered |-> 6]

Fewer(S, T) == S \subseteq T /\ S # T

(* A walk has fewer entries to come, or the same and fewer to look up.     *)
WalksOn(c) ==
  /\ call[c].phase = "walk" /\ call'[c].phase = "walk"
  /\ \/ Fewer(call'[c].todo, call[c].todo)
     \/ call'[c].todo = call[c].todo /\ Fewer(call'[c].listed, call[c].listed)

Advances(c) ==
  \/ call'[c] = call[c]
  \/ Stage[call'[c].phase] > Stage[call[c].phase]
  \/ WalksOn(c)

LEMMA OnlyOneWorks ==
  ASSUME CallShapes, NEW c \in Calls, Work(c), NEW d \in Calls, d # c
  PROVE  call'[d] = call[d]
  <1> USE DEF Answer, Refuse, CallShapes
  <1>1. CASE Dispatch(c) \/ Resolve(c) \/ ActOnFile(c)
    BY <1>1 DEF Dispatch, Resolve, ActOnFile
  <1>2. CASE StartWalk(c) \/ AnswerGlob(c)
    BY <1>2 DEF StartWalk, AnswerGlob
  <1>3. CASE \/ \E names \in call[c].todo : ListEntry(c, names)
             \/ \E names \in call[c].listed : StatEntry(c, names)
    BY <1>3 DEF ListEntry, StatEntry
  <1> QED
    BY <1>1, <1>2, <1>3 DEF Work

LEMMA CallAdvances ==
  ASSUME CallShapes, NEW c \in Calls, Work(c)
  PROVE  Advances(c)
  <1>0. c \in DOMAIN call /\ {"phase", "root", "todo", "listed", "reply"} \subseteq DOMAIN call[c]
    BY DEF CallShapes, CallFields
  <1>1. ASSUME NEW reply, Answer(c, reply)
        PROVE  call'[c].phase = "answered"
    BY <1>0, <1>1 DEF Answer
  <1>2. CASE Dispatch(c) \/ Resolve(c)
    <2>1. \/ call[c].phase = "received" /\ call'[c].phase \in {"resolve", "answered"}
          \/ call[c].phase = "resolve" /\ call'[c].phase \in {"stat", "act", "answered"}
      BY <1>0, <1>1, <1>2 DEF Dispatch, Resolve, Refuse
    <2> QED
      BY <2>1 DEF Advances, Stage
  <1>3. CASE ActOnFile(c) \/ StartWalk(c) \/ AnswerGlob(c)
    <2>1. \/ call[c].phase \in {"act", "walk"} /\ call'[c].phase = "answered"
          \/ call[c].phase = "stat" /\ call'[c].phase \in {"walk", "answered"}
      BY <1>0, <1>1, <1>3 DEF ActOnFile, StartWalk, AnswerGlob, Refuse
    <2> QED
      BY <2>1 DEF Advances, Stage
  <1>4. ASSUME NEW names \in call[c].todo, ListEntry(c, names)
        PROVE  Advances(c)
    <2>1. /\ call[c].phase = "walk" /\ call'[c].phase = "walk"
          /\ call'[c].todo = call[c].todo \ {names}
      BY <1>0, <1>4 DEF ListEntry
    <2> QED
      BY <2>1 DEF Advances, WalksOn, Fewer
  <1>5. ASSUME NEW names \in call[c].listed, StatEntry(c, names)
        PROVE  Advances(c)
    <2>1. /\ call[c].phase = "walk" /\ call'[c].phase = "walk"
          /\ call'[c].todo = call[c].todo /\ call'[c].listed = call[c].listed \ {names}
      BY <1>0, <1>5 DEF StatEntry
    <2> QED
      BY <2>1 DEF Advances, WalksOn, Fewer
  <1> QED
    BY <1>2, <1>3, <1>4, <1>5 DEF Work

(* A call that was dispatched runs to its answer: whatever step is taken,  *)
(* of its own, of another call, of an adoption or of another program, each *)
(* call stays as it is, gets to a later stage, or walks on with fewer      *)
(* entries before it. No change of the root or of the files makes it begin *)
(* again.                                                                  *)
THEOREM CallsAdvance == Spec => [][\A c \in Calls : Advances(c)]_vars
  <1>1. CallInv /\ CallShapes /\ AdoptionInv /\ [Next]_vars => [\A c \in Calls : Advances(c)]_vars
    <2> SUFFICES ASSUME CallInv, CallShapes, AdoptionInv, Next, NEW c \in Calls
                 PROVE  Advances(c)
      OBVIOUS
    <2>1. ASSUME NEW d \in Calls, Work(d)
          PROVE  Advances(c)
      BY <2>1, OnlyOneWorks, CallAdvances DEF Advances
    <2>2. ASSUME NEW d \in Calls, SendCall(d)
          PROVE  Advances(c)
      <3>1. d \in DOMAIN call /\ "phase" \in DOMAIN call[d]
        BY DEF CallShapes, CallFields
      <3>2. /\ call[d].phase = "idle" /\ call'[d].phase = "sent"
            /\ c # d => call'[c] = call[c]
        BY <2>2, <3>1 DEF SendCall, CallShapes
      <3> QED
        BY <3>2 DEF Advances, Stage
    <2>3. CASE ReceiveCall
      <3> DEFINE m == Head(inbox)
                 d == m.call
      <3>1. inbox # <<>> /\ m.what = "call" /\ inbox \in Seq(Messages)
        BY <2>3 DEF ReceiveCall, Receives, AdoptionInv, SessionTypes
      <3>2. 1 \in DOMAIN inbox /\ m = inbox[1] /\ m \in Messages
        BY <3>1
      <3>3. d \in Calls /\ call[d].phase = "sent"
        BY <3>1, <3>2, MessageShape DEF CallInv, CallsOnTheirWay
      <3>4. d \in DOMAIN call /\ {"phase", "request"} \subseteq DOMAIN call[d]
        BY <3>3 DEF CallShapes, CallFields
      <3>5. /\ call'[d].phase = "received"
            /\ c # d => call'[c] = call[c]
        BY <2>3, <3>3, <3>4 DEF ReceiveCall, CallShapes
      <3> QED
        BY <3>3, <3>5 DEF Advances, Stage
    <2>4. CASE AnnounceList \/ (\E t \in Tasks : AnswerRootsRequest(t)) \/ SpawnAdoption \/ ReceiveRoots
      BY <2>4 DEF AnnounceList, AnswerRootsRequest, SpawnAdoption, ReceiveRoots, Advances
    <2>5. CASE \E t \in Tasks : Adoption(t)
      BY <2>5 DEF Adoption, AskForRoots, TryRoot, InstallRoot, Advances
    <2>6. CASE \/ \E x \in Touchable : TouchFile(x)
               \/ \E x \in Movable : ChangePlace(x)
      BY <2>6 DEF TouchFile, ChangePlace, Disturbs, Advances
    <2> QED
      BY <2>1, <2>2, <2>3, <2>4, <2>5, <2>6 DEF Next, Loop
  <1> QED
    BY <1>1, AdoptionInit, AdoptionStep, CallsHold, PTL DEF Spec

===============================================================================
