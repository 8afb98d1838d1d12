-------------------------------- MODULE Server --------------------------------
(***************************************************************************)
(* One MCP session of the server (server.rs): the service loop, the        *)
(* adoption of the client's roots, and the tool calls, each of which works *)
(* on the workspace root it captured when it was dispatched. A call is a   *)
(* glob, entry by entry (glob.rs), or a call that resolves one path to an  *)
(* existing file and acts on it, as read does; what it does with the file  *)
(* is modelled elsewhere.                                                  *)
(*                                                                         *)
(* Messages of the client arrive in order. The loop hands a notification   *)
(* or a call to a task of its own, and a reply to the task that waits for  *)
(* it; from there on the order is the scheduler's. The client answers a    *)
(* roots/list request when it likes, with the list it has then, with an    *)
(* error, or never. Other programs touch files and remove or create        *)
(* directories and files meanwhile.                                        *)
(***************************************************************************)
EXTENDS GlobListing

CONSTANTS
  Calls,        \* tool calls
  ToolRequests, \* requests they may carry
  Lists,        \* lists of roots the client may have: sequences of Uris
  Startup,      \* the root at launch: --root, or the current directory
  Initial,      \* set of the file systems a session starts with
  Undecodable,  \* names that are not UTF-8
  Touchable,    \* files other programs touch
  Movable,      \* places they remove, create or replace
  MaxChanges,   \* bound: announcements of a new list
  MaxTouches    \* bound: steps of other programs

Tasks == 1 .. MaxChanges + 1   \* adoption tasks, in the order they are spawned

Uris == [scheme : {"file", "https"}, host : {"", "localhost", "other"},
         path : Paths \cup {None}]

Tools == {"glob", "file", "unknown"}

ASSUME ServerAssumption ==
  /\ Lists \subseteq Seq(Uris)
  /\ Startup \in Places
  /\ \A fs \in Initial : /\ fs.kind \in [Places -> {"dir", "file", "none"}]
                         /\ fs.modified \in [Places -> Times]
  /\ Undecodable \subseteq Names
  /\ Touchable \subseteq Places /\ Movable \subseteq Places \ {Top}
  /\ MaxChanges \in Nat /\ MaxTouches \in Nat
  /\ \A q \in ToolRequests :
       /\ q.tool \in Tools /\ q.parses \in BOOLEAN /\ q.compiles \in BOOLEAN
       /\ q.path \in Paths /\ q.cap \in Nat

VARIABLES
  kind,      \* what is at each place
  modified,  \* modification time of each place
  config,    \* --root given, roots capability of the client, --restrict
  root,      \* the server's workspace root
  inbox,     \* messages the server has not read yet
  offered,   \* the client's list of roots
  asking,    \* tasks whose roots/list request the client has not answered
  task,      \* adoption tasks
  call,      \* tool calls
  changes,   \* announcements so far
  touches,   \* steps of other programs so far
  (* history *)
  expected,  \* the root the documentation promises
  excused,   \* adoptions overlapped or failed, or roots came or went
  held,      \* held[c]: the roots the server had while call c was open
  found      \* found[c]: kind and modified at dispatch, None once they changed

world == <<kind, modified, touches>>
client == <<offered, asking, changes>>
vars == <<world, config, root, inbox, client, task, call,
          expected, excused, held, found>>

-------------------------------------------------------------------------------
(* Roots *)

(* file_uri_to_path: a file: URI of this host with a path in it. *)
UriPath(u) ==
  IF u.scheme = "file" /\ u.host \in {"", "localhost"} THEN u.path ELSE None

(* The directory set_root finds for a candidate, or None. *)
Candidate(u) ==
  IF UriPath(u) = None THEN None
  ELSE LET place == Target(kind, Top, UriPath(u)) IN
       IF place # None /\ kind[place] = "dir" THEN place ELSE None

Adopts == ~config.pinned /\ config.hasRoots

NoTask == [phase |-> "none", list |-> <<>>, next |-> 1, place |-> None]

(* An announcement or a reply on its way, or a task at work. *)
Adopting ==
  \/ \E k \in DOMAIN inbox : inbox[k].what # "call"
  \/ \E t \in Tasks : task[t].phase \notin {"none", "done"}

(* What the documentation promises after an announcement (server.rs 20-28, *)
(* README.md 53-60): the first usable root of the list, and the root there *)
(* was when none is usable.                                                *)
Promised(list, otherwise) ==
  LET usable == {k \in DOMAIN list : Candidate(list[k]) # None} IN
  IF ~Adopts \/ usable = {} THEN otherwise
  ELSE Candidate(list[CHOOSE k \in usable : \A j \in usable : k <= j])

(* A task that keeps or sets the root. *)
Finish(t) == task' = [task EXCEPT ![t].phase = "done"]

-------------------------------------------------------------------------------
(* Calls *)

NoRequest == [tool |-> "unknown"]
NoCall == [phase |-> "idle", request |-> NoRequest, root |-> None,
           todo |-> {}, listed |-> {}, entries |-> {}, reply |-> None]

Open(c) == call[c].phase \notin {"idle", "answered"}

Answer(c, reply) ==
  call' = [call EXCEPT ![c].phase = "answered", ![c].reply = reply]

Refuse(c, code) == Answer(c, [code |-> code])

(* Mutant: the path is resolved anew from the server's root.               *)
AimFromServerRoot(c) == Target(kind, root, call[c].request.path)

(* The place the call's path leads to, from the root it captured. *)
Aim(c) == Target(kind, call[c].root, call[c].request.path)

(* The file a walk from a place finds under these names, or None. *)
FileBelow(place, names) ==
  LET file == Target(kind, place, [absolute |-> FALSE, names |-> names]) IN
  IF file # None /\ kind[file] = "file" THEN file ELSE None

(* The path of an entry survives as UTF-8 text. *)
Encodes(path, names) ==
  \A k \in DOMAIN (path.names \o names) : (path.names \o names)[k] \notin Undecodable

Reports(request, names) ==
  names \in request.matching /\ Encodes(request.path, names)

-------------------------------------------------------------------------------
Init ==
  /\ \E fs \in Initial : kind = fs.kind /\ modified = fs.modified
  /\ config \in [pinned : BOOLEAN, hasRoots : BOOLEAN, restrict : BOOLEAN]
  /\ root = Startup
  /\ offered \in Lists
  /\ inbox = <<[what |-> "initialized"]>>
  /\ asking = {} /\ changes = 0 /\ touches = 0
  /\ task = [t \in Tasks |-> NoTask]
  /\ call = [c \in Calls |-> NoCall]
  /\ expected = Promised(offered, Startup)
  /\ excused = FALSE
  /\ held = [c \in Calls |-> {}]
  /\ found = [c \in Calls |-> None]

(* The client *)

AnnounceList ==
  /\ changes < MaxChanges
  /\ \E list \in Lists :
       /\ offered' = list
       /\ expected' = Promised(list, expected)
       /\ excused' = (Adopting \/ (excused /\ Promised(list, None) = None))
  /\ inbox' = Append(inbox, [what |-> "list_changed"])
  /\ changes' = changes + 1
  /\ UNCHANGED <<world, config, root, asking, task, call, held, found>>

AnswerRootsRequest(t) ==
  /\ t \in asking
  /\ asking' = asking \ {t}
  /\ \/ /\ inbox' = Append(inbox, [what |-> "roots", task |-> t, list |-> offered])
        /\ UNCHANGED excused
     \/ /\ inbox' = Append(inbox, [what |-> "error", task |-> t])
        /\ excused' = TRUE
  /\ UNCHANGED <<world, config, root, offered, changes, task, call,
                 expected, held, found>>

SendCall(c) ==
  /\ call[c].phase = "idle"
  /\ call' = [call EXCEPT ![c].phase = "sent"]
  /\ \E q \in ToolRequests :
       inbox' = Append(inbox, [what |-> "call", call |-> c, request |-> q])
  /\ held' = [held EXCEPT ![c] = {root}]
  /\ UNCHANGED <<world, config, root, client, task, expected, excused, found>>

(* The service loop *)

(* Mutant: the handler of a notification awaits the client's reply, and    *)
(* the loop with it.                                                       *)
ReceivesInTurn(whats) ==
  /\ \A t \in Tasks : task[t].phase # "asked"
  /\ inbox # <<>>
  /\ Head(inbox).what \in whats
  /\ inbox' = Tail(inbox)
  /\ UNCHANGED <<world, config, root, client, expected, excused, held, found>>

Receives(whats) ==
  /\ inbox # <<>>
  /\ Head(inbox).what \in whats
  /\ inbox' = Tail(inbox)
  /\ UNCHANGED <<world, config, root, client, expected, excused, held, found>>

SpawnAdoption ==
  /\ Receives({"initialized", "list_changed"})
  /\ \E t \in Tasks :
       /\ task[t].phase = "none"
       /\ \A s \in Tasks : s < t => task[s].phase # "none"
       /\ task' = [task EXCEPT ![t].phase = "spawned"]
  /\ UNCHANGED call

ReceiveRoots ==
  /\ Receives({"roots", "error"})
  /\ LET m == Head(inbox) IN
     IF m.what = "error" THEN Finish(m.task)
     ELSE task' = [task EXCEPT ![m.task].phase = "try", ![m.task].list = m.list]
  /\ UNCHANGED call

ReceiveCall ==
  /\ Receives({"call"})
  /\ LET m == Head(inbox) IN
     call' = [call EXCEPT ![m.call].phase = "received", ![m.call].request = m.request]
  /\ UNCHANGED task

(* Adoption *)

AskForRoots(t) ==
  /\ task[t].phase = "spawned"
  /\ IF Adopts
       THEN /\ asking' = asking \cup {t}
            /\ task' = [task EXCEPT ![t].phase = "asked"]
       ELSE Finish(t) /\ UNCHANGED asking
  /\ UNCHANGED <<world, config, root, inbox, offered, changes, call,
                 expected, excused, held, found>>

(* Mutant: a candidate is set whether or not it could be canonicalized.    *)
TryRootUnchecked(t) ==
  /\ task[t].phase = "try"
  /\ LET k == task[t].next IN
     IF k > Len(task[t].list) THEN Finish(t)
     ELSE task' = [task EXCEPT ![t].phase = "install",
                               ![t].place = Candidate(task[t].list[k])]
  /\ UNCHANGED <<world, config, root, inbox, client, call,
                 expected, excused, held, found>>

TryRoot(t) ==
  /\ task[t].phase = "try"
  /\ LET k == task[t].next IN
     IF k > Len(task[t].list) THEN Finish(t)
     ELSE IF config.pinned \/ Candidate(task[t].list[k]) = None
       THEN task' = [task EXCEPT ![t].next = k + 1]
       ELSE task' = [task EXCEPT ![t].phase = "install",
                                 ![t].place = Candidate(task[t].list[k])]
  /\ UNCHANGED <<world, config, root, inbox, client, call,
                 expected, excused, held, found>>

(* Mutant: the task goes on to the next candidate: the last usable wins.   *)
InstallRootAndGoOn(t) ==
  /\ task[t].phase = "install"
  /\ root' = task[t].place
  /\ task' = [task EXCEPT ![t].phase = "try", ![t].next = @ + 1]
  /\ held' = [c \in Calls |-> IF Open(c) THEN held[c] \cup {root'} ELSE held[c]]
  /\ UNCHANGED <<world, config, inbox, client, call, expected, excused, found>>

InstallRoot(t) ==
  /\ task[t].phase = "install"
  /\ root' = task[t].place
  /\ Finish(t)
  /\ held' = [c \in Calls |-> IF Open(c) THEN held[c] \cup {root'} ELSE held[c]]
  /\ UNCHANGED <<world, config, inbox, client, call, expected, excused, found>>

(* Tool calls *)

CallUnchanged == UNCHANGED <<world, config, root, inbox, client, task,
                             expected, excused, held>>

Dispatch(c) ==
  /\ call[c].phase = "received"
  /\ LET q == call[c].request IN
     IF q.tool = "unknown" THEN Refuse(c, "unknown_tool")
     ELSE IF ~q.parses THEN Refuse(c, "invalid_arguments")
     ELSE call' = [call EXCEPT ![c].phase = "resolve", ![c].root = root]
  /\ found' = [found EXCEPT ![c] = [kind |-> kind, modified |-> modified]]
  /\ CallUnchanged

(* What stops a glob before its path is looked at. *)
GlobRefusal(q) ==
  IF q.cap = 0 THEN "invalid_request"
  ELSE IF ~q.compiles THEN "invalid_pattern" ELSE "none"

Resolve(c) ==
  /\ call[c].phase = "resolve"
  /\ LET q == call[c].request IN
     IF q.tool = "glob" /\ GlobRefusal(q) # "none" THEN Refuse(c, GlobRefusal(q))
     ELSE IF ~Resolves(kind, call[c].root, config.restrict, q.path)
       THEN Refuse(c, "root_escape")
     ELSE call' = [call EXCEPT ![c].phase = IF q.tool = "glob" THEN "stat" ELSE "act"]
  /\ CallUnchanged /\ UNCHANGED found

ActOnFile(c) ==
  /\ call[c].phase = "act"
  /\ IF Aim(c) = None THEN Refuse(c, "not_found")
     ELSE IF kind[Aim(c)] # "file" THEN Refuse(c, "io")
     ELSE Answer(c, [code |-> "ok", place |-> Aim(c)])
  /\ CallUnchanged /\ UNCHANGED found

StartWalk(c) ==
  /\ call[c].phase = "stat"
  /\ IF Aim(c) = None THEN Refuse(c, "not_found")
     ELSE IF kind[Aim(c)] # "dir" THEN Refuse(c, "not_a_file")
     ELSE call' = [call EXCEPT ![c].phase = "walk", ![c].todo = Below[Aim(c)]]
  /\ CallUnchanged /\ UNCHANGED found

(* The walk yields a name, or is past where it would be. *)
ListEntry(c, names) ==
  /\ call[c].phase = "walk" /\ call[c].listed = {}
  /\ names \in call[c].todo
  /\ call' = [call EXCEPT
       ![c].todo = @ \ {names},
       ![c].listed = IF /\ Aim(c) # None
                        /\ FileBelow(Aim(c), names) # None
                        /\ Reports(call[c].request, names)
                     THEN @ \cup {names} ELSE @]
  /\ CallUnchanged /\ UNCHANGED found

(* The modification time of an entry; the epoch when it cannot be read. *)
StatEntry(c, names) ==
  /\ call[c].phase = "walk"
  /\ names \in call[c].listed
  /\ LET file == IF Aim(c) = None THEN None ELSE FileBelow(Aim(c), names)
         time == IF file = None THEN Epoch ELSE modified[file]
     IN  call' = [call EXCEPT
           ![c].listed = @ \ {names},
           ![c].entries = @ \cup {[file |-> names, modified |-> time]}]
  /\ CallUnchanged /\ UNCHANGED found

AnswerGlob(c) ==
  /\ call[c].phase = "walk"
  /\ call[c].todo = {} /\ call[c].listed = {}
  /\ LET q == call[c].request
         list == Listing(q.path, call[c].entries, q.cap)
     IN  Answer(c, [code |-> "ok", paths |-> list.paths, truncated |-> list.truncated])
  /\ CallUnchanged /\ UNCHANGED found

(* Other programs *)

Disturbs ==
  /\ touches < MaxTouches
  /\ touches' = touches + 1
  /\ found' = [c \in Calls |-> None]
  /\ UNCHANGED <<config, root, inbox, client, task, call, expected, held>>

TouchFile(x) ==
  /\ kind[x] = "file"
  /\ \E time \in Times \ {modified[x]} : modified' = [modified EXCEPT ![x] = time]
  /\ UNCHANGED <<kind, excused>>
  /\ Disturbs

(* A file or directory appears or goes; nothing is left to be under it.    *)
ChangePlace(x) ==
  /\ \E what \in {"dir", "file", "none"} \ {kind[x]} :
       /\ kind' = [y \in Places |-> IF y = x THEN what
                                    ELSE IF x \in Above[y] THEN "none" ELSE kind[y]]
       /\ what # "none" => kind[Parent[x]] = "dir"
  /\ excused' = (excused \/ \E list \in Lists : \E k \in DOMAIN list :
                               Candidate(list[k])' # Candidate(list[k]))
  /\ UNCHANGED modified
  /\ Disturbs

-------------------------------------------------------------------------------
Loop == SpawnAdoption \/ ReceiveRoots \/ ReceiveCall

Adoption(t) == AskForRoots(t) \/ TryRoot(t) \/ InstallRoot(t)

Work(c) ==
  \/ Dispatch(c) \/ Resolve(c) \/ ActOnFile(c) \/ StartWalk(c) \/ AnswerGlob(c)
  \/ \E names \in call[c].todo : ListEntry(c, names)
  \/ \E names \in call[c].listed : StatEntry(c, names)

Next ==
  \/ AnnounceList
  \/ \E t \in Tasks : AnswerRootsRequest(t)
  \/ \E c \in Calls : SendCall(c)
  \/ Loop
  \/ \E t \in Tasks : Adoption(t)
  \/ \E c \in Calls : Work(c)
  \/ \E x \in Touchable : TouchFile(x)
  \/ \E x \in Movable : ChangePlace(x)

Spec == Init /\ [][Next]_vars

FairSpec ==
  /\ Spec
  /\ WF_vars(Loop)
  /\ \A c \in Calls : WF_vars(Work(c))

-------------------------------------------------------------------------------
(* Properties *)

Messages ==
  [what : {"initialized", "list_changed"}]
    \cup [what : {"call"}, call : Calls, request : ToolRequests]
    \cup [what : {"error"}, task : Tasks]
    \cup [what : {"roots"}, task : Tasks, list : Lists]

(* Root, client and tasks hold what the code can put there. *)
TypeOK ==
  /\ config \in [pinned : BOOLEAN, hasRoots : BOOLEAN, restrict : BOOLEAN]
  /\ root \in Places /\ expected \in Places
  /\ kind \in [Places -> {"dir", "file", "none"}]
  /\ modified \in [Places -> Times]
  /\ inbox \in Seq(Messages)
  /\ offered \in Lists /\ asking \subseteq Tasks
  /\ excused \in BOOLEAN
  /\ task \in [Tasks -> [phase : {"none", "spawned", "asked", "try", "install", "done"},
                         list : Lists \cup {<<>>}, next : Nat,
                         place : Places \cup {None}]]

(* Once the adoptions an announcement set off have ended, the root is the  *)
(* first usable one of the client's latest list, or the one there was when *)
(* none is usable, and the startup root for good when it is pinned or the  *)
(* client has no roots. Excepted are announcements made while an earlier   *)
(* adoption was still at work, failed requests, and roots that become      *)
(* usable or stop being so; the next announcement of a usable root that is *)
(* handled alone puts it right again.                                      *)
QuietRootIsLatest ==
  ~Adopting /\ (~excused \/ ~Adopts) => root = expected

(* What R024 promises of a glob from a directory: of the regular files     *)
(* that match, those that fewer than max_results others come before.       *)
PromisedListing(q, aim) ==
  LET Entry(names) == [file |-> names, modified |-> modified[FileBelow(aim, names)]]
      all == {names \in Below[aim] : FileBelow(aim, names) # None /\ Reports(q, names)}
      Ahead(names) == {m \in all : Precedes(Entry(m), Entry(names))}
      count == Cardinality(all)
  IN  [code |-> "ok",
       paths |-> [k \in 1 .. Smaller(count, q.cap) |->
                    Display(q.path, CHOOSE names \in all : Cardinality(Ahead(names)) = k - 1)],
       truncated |-> count > q.cap]

(* What the documentation promises of a call that works on one root. *)
PromisedReply(q, r) ==
  LET aim == Target(kind, r, q.path)
      Error(code) == [code |-> code]
  IN  IF q.tool = "unknown" THEN Error("unknown_tool")
      ELSE IF ~q.parses THEN Error("invalid_arguments")
      ELSE IF q.tool = "glob" /\ GlobRefusal(q) # "none" THEN Error(GlobRefusal(q))
      ELSE IF ~Resolves(kind, r, config.restrict, q.path) THEN Error("root_escape")
      ELSE IF aim = None THEN Error("not_found")
      ELSE IF q.tool = "glob"
        THEN IF kind[aim] # "dir" THEN Error("not_a_file") ELSE PromisedListing(q, aim)
      ELSE IF kind[aim] # "file" THEN Error("io")
      ELSE [code |-> "ok", place |-> aim]

(* However the root moves while a call runs, its answer is the one a       *)
(* single root gives, which was the server's at some moment of the call:   *)
(* nothing mixes two roots. Files are taken to stay as they are meanwhile. *)
CallsUseOneRoot ==
  \A c \in Calls :
    call[c].phase = "answered" /\ found[c] # None =>
      \E r \in held[c] : call[c].reply = PromisedReply(call[c].request, r)

(* A listed path can be passed on as it is: from the root of its call, and *)
(* under its confinement, it leads to a file below the directory asked for *)
(* that the pattern matches, whether the request named that directory      *)
(* relative to the root, absolutely, through a link or not at all.         *)
ListedPathsLeadBack ==
  \A c \in Calls :
    /\ call[c].phase = "answered" /\ found[c] # None
    /\ call[c].reply.code = "ok" /\ call[c].request.tool = "glob"
    => \A k \in DOMAIN call[c].reply.paths :
         LET path == call[c].reply.paths[k]
             place == Target(kind, call[c].root, path)
         IN  /\ Resolves(kind, call[c].root, config.restrict, path)
             /\ place # None
             /\ \E names \in Below[Aim(c)] \cap call[c].request.matching :
                  FileBelow(Aim(c), names) = place

(* Under --restrict what a call acts on lies within its root, links        *)
(* followed, and a path without ".." that leads there is not refused.      *)
RestrictedCallsStayInside ==
  \A c \in Calls :
    call[c].phase = "answered" /\ found[c] # None /\ call[c].root # None /\ config.restrict =>
      LET q == call[c].request IN
      /\ call[c].reply.code = "ok" => Within(call[c].root, Aim(c))
      /\ /\ call[c].reply.code = "root_escape" /\ Aim(c) # None
         /\ \A k \in DOMAIN q.path.names : q.path.names[k] # DotDot
         => ~Within(call[c].root, Aim(c))

(* Every call is answered, although the client may never answer a roots    *)
(* request and an adoption task may never be scheduled: neither the loop   *)
(* nor a call waits for them.                                              *)
CallsAreAnswered ==
  \A c \in Calls : call[c].phase = "sent" ~> call[c].phase = "answered"

===============================================================================
