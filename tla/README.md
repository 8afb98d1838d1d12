# hashline: specification, model checking and proofs

hashline is an MCP server that lets a client read, edit and write text files
under versioned coordinates. Every snapshot of a file has an identity (a keyed
hash of its exact bytes, under a seed drawn when the process starts), positions
are `LINE@BYTE` tokens of one snapshot, and a mutation names the snapshot it was
decided against. This directory holds TLA+ models of that machinery, TLC
configurations that check them on small instances, and TLAPS proofs of the most
important properties for every instance. Paths below are relative to the
repository; `edit/mod.rs` and the like are under its `src/`.

## 1. Inventory

| part | source | state | operations | modelled in |
|---|---|---|---|---|
| mutation path | `edit/mod.rs`, `write.rs`, `persist.rs` | path-lock table, temp files, destination files | `edit`, `write`, `atomic_write`, `atomic_create`, `confirm_stamp`, `lose_create_race` | `GuardedWrite` |
| its promise | `docs/protocol.md` R019, R020, R023 | one register per file, the operands of each call | ask, land, succeed, fail | `VersionedFile` |
| file stamps | `snapshot.rs` 120-360 | inode, length, mtime, ctime, racy flag | capture, compare, confirm after rename | `FileStamps` |
| stable load | `snapshot.rs` 640-800 | one attempt's descriptors, buffers, stamps | open, read, fstat, stat, second reading, retry | `StableRead` |
| snapshot cache | `cache.rs` | per shard: entries, byte count, in-flight cells | `get_or_load`, `get`, `verify_racy_resident`, `insert`, `invalidate` | `SnapshotCache` |
| line offsets, positions, context | `snapshot.rs`, `protocol.rs` | line starts | boundary lookup, slice, context | `LineText` |
| edit batch | `edit/engine.rs`, `protocol.rs` 1430-1720 | resolved edits, cursor, output | fast engine, reference fallback | `EditBatch` |
| paged read | `read.rs`, `render.rs`, `protocol.rs` | none in the server; the client holds a footer | first page, next page, cursor validation | `PagedRead` |
| grep | `grep.rs` | atomic counters, shared error slot, collected files | parallel walk, span merge, match budget | `GrepWalk`, `GrepSection` |
| durability modes | `persist.rs` | page cache and directory against the medium | flush by mode, rename or link, sync of the parent | `Durability` |
| its promise | `docs/protocol.md` R019 | a log with a safe prefix | land, harden, answer, lose | `DurableRegister` |
| server and root adoption | `server.rs` | workspace root, adoption tasks, calls | `set_root`, `adopt_client_roots`, dispatch | `Server` |
| paths and confinement | `util.rs` | none | `resolve_path`, `confine_to_root` | `PathResolution` |
| glob | `glob.rs` | none | walk, sort, cut | `GlobListing`, `Server` |
| CLI, wire types, tests | `main.rs`, `protocol.rs`, ... | none of interest | | the root's start state in `Server` |

**How they interact.** A tool call is dispatched by the server, takes the
workspace root it sees then, and runs its blocking body as one `spawn_blocking`
task. `read` and (for its base) `edit` and `write` obtain snapshots: `read`
through the cache, the mutations by loading. The cache stats the path, serves a
resident snapshot when its stamp proves it current, verifies its bytes when the
stamp is racy, and otherwise lets one call per path load while the others wait
on its cell. An edit resolves its batch against the snapshot, then persists:
take the path lock, stage a temp file, compare the destination with the base
snapshot's stamp (and bytes, when the stamp is racy), rename or link, confirm
the stamp, release the lock, insert the new snapshot into the cache, answer.
Adoption of the client's roots runs in tasks of its own beside all this, and may
replace the root while calls that captured the old one are under way.

**What is hard.** Everything is check-then-act on a file system other programs
write too. Metadata is trusted instead of bytes only when its timestamps are old
enough (the racy window); several threads share a lock table, a cache and
single-flight cells; a failure may happen between any two system calls; the
server may die there; and a read is many requests over a file that changes in
between. The line of each of these hazards, and the property meant for it, is in
`PROJECT.json`.

**What makes each part correct.**

* Mutation path: a guarded call lands on exactly the bytes its client named, or
  changes nothing and says so; exclusive creates have one winner; a temp file
  outlives its request only if its removal failed or was never reached; what
  enters the cache is true of the file; every request is answered.
* Stamps and load: bytes are those the path held at one moment, and their stamp
  describes them for as long as it compares equal.
* Cache: no hit on bytes the file does not hold, one load per path at a time,
  exact byte budget, no waiter left behind, no inherited error.
* Edit batch: the answer is a function of the request alone, and an applied
  batch is the text R006 describes.
* Paging: pages collected by footers are consecutive lines of one snapshot; a
  stale cursor conflicts, always.
* Grep: whoever stops the walk, no hit is lost or reported twice; a response
  below its match budget is complete; an oversized file that was met is never
  passed over; a section is its matches with their context.
* Durability: a power loss leaves one request's bytes whole, loses the latest
  first, and keeps what `full` was answered for.
* Server: the root settles on the client's latest usable one; a call works on one
  root, stays inside it under `--restrict`, and is answered whatever the client
  does.
* Glob: paths it lists lead back to the files listed, newest first, cut exactly.

## 2. Modules

| module | is about | extends |
|---|---|---|
| `FileStamps`, `LineText`, `PathResolution` | operators on stamps, texts and paths | |
| `GuardedWrite` | edit and write against other programs | `FileStamps` |
| `VersionedFile` | abstract: what `GuardedWrite` implements | |
| `Durability` | the same persistence against power losses | |
| `DurableRegister` | abstract: what `Durability` implements | |
| `StableRead` | one load | `FileStamps` |
| `SnapshotCache` | one shard of the cache | `FileStamps` |
| `EditBatch`, `PagedRead` | applying a batch, paging | `LineText` |
| `GrepSection`, `GrepWalk` | a section, a grep request | `LineText`, `GrepSection` |
| `GlobListing`, `Server` | a listing, a session | `PathResolution`, `GlobListing` |

`MC...` modules only give values to constants; `..._proofs` modules
hold theorems. The row of every definition in `PROJECT.json` "map" names the
lines it models. Definitions whose comment begins with "Mutant" are deliberate
errors of the code, used to show that a property can fail; no behaviour uses
them.

### GuardedWrite: edit and write, down to the system calls

A request `r` has a program counter `pc[r]`; one action is one system call
others can observe, with what the task computes up to the next.

| `pc` | what comes next | action | code |
|---|---|---|---|
| idle | load, validate, decide | `Begin` (`DecideEdit`, `DecideWrite`) | `edit/mod.rs` 60-183, `write.rs` 53-130 |
| wantLock | take the path's mutex | `AcquireLock` | `persist.rs` `path_lock` |
| locked | create and fill the temp file | `StageTemp`, `StageTempFails` | `write_unique_temp` |
| staged | stat the destination | `CheckStamp`, `CheckStampFails` | `atomic_write` |
| verify | read and hash it, racy stamps only | `VerifyBytes`, `VerifyBytesFails` | `atomic_write` |
| commit | rename, or hard link for a create | `Rename`, `Link`, `LinkLoses`, `RenameOrLinkFails` | `atomic_write`, `atomic_create` |
| unlink | drop the temp name | `UnlinkTemp` | `atomic_create` |
| landed | confirm the stamp, unlock | `Confirm` | `confirm_stamp` |
| publish | cache insert, answer | `Publish` | `publish`, tail of `write.rs` |
| lost | reload, report the winner | `LoseCreateRace` | `lose_create_race` |

Other programs rewrite a file in place, rename one over it or remove it;
`Tick` is the timestamp clock; `CrashRestart` ends every task, frees the locks
and the cache, leaves temp files and draws a new seed. An identity is the pair
of its bytes and the seed it was minted under, so keyed hashes are taken to be
free of collisions. Inode numbers are reused. A rename and a link move `ctime`
and nothing else, as on Unix. `replaced`, `raced`, `touched`, `stuck`, `minted` and
`removed` are history variables: they record what a step met and no guard reads
them. `temp[r]` is the inode the request's temp name links on disk, and outlives the
request where the code lets it: every removal is `let _ = fs::remove_file(..)`, so
`RemoveTemp` may fail and nobody notices (`persist.rs` 178-234, 314, 357), and the `?`
at 175-176 returns without one (`CheckStampFails`, its last disjunct). After a failed
removal in `atomic_create` the temp name stays a second link to the destination. A temp
that could not be written in full may hold part of the bytes. Parent directories exist; what survives a power loss is the subject of
`Durability`.

`VersionedFile` says the same with registers: a request asks with a call, which
fixes its operands; it changes its file in one step, from the value its own call
expects to the bytes its own call gives, or changes nothing; success is answered
only after that step. The mapping is the identity on contents, `job` for `call`,
`replaced[r] # None` for `landed` and the reply for `answer`.

### StableRead: one load

A file is a sequence of blocks. The reader opens, stats the descriptor, reads
block by block, stats the descriptor and the path, and for a racy stamp opens
the path anew and reads it again; any comparison that fails costs one of the two
attempts. Writers overwrite a block, append, truncate, replace and remove between
any two steps.

### SnapshotCache: one shard

An action is one critical section of the shard mutex or one system call of
`get_or_load`: `Call` (stat), `Get`, `Peek`, `OpenResident`, `CompareBytes`,
`ConfirmResident`, `Refresh`, `GiveUp`, `Restat`, `Claim`, `TakeCell`, `Load`,
`Store`, `Clear`. The cell a call creates carries the call's name. Persisted
edits are publishers, which land (`Land`) and insert later (`PublishInsert`),
as `GuardedWrite` does it after its lock is released. Shards are alike and share
nothing, so one is modelled; eviction is in arbitrary order, as the iteration of
a `HashMap` is.

### EditBatch and LineText

A text is its line starts and its length; an output byte is known by the source
offset, or the operation, it comes from. The passes are those of the code:
validate, resolve one operation a step, overlaps, size, sort, splice one
operation a step. The fast engine gives up at its first obstacle and the
reference starts over.

### PagedRead

One request is one step, since it renders from one immutable snapshot. The
client pages by footers, starts over, or sends any other cursor, while the file
changes, changes back, vanishes, and the server restarts.

### GrepWalk and GrepSection

A request walks a fixed tree. A worker is given any entry not visited yet
(`Visit`), searches it and passes it over (`Pass`), fails on it (`Fail`) or adds
its matches to the shared counter and the file to its own hits (`Count`); the
last two may tell the walker to stop (`Stop`), which other workers see only
later. A worker that ends hands over its hits (`End`); when all have, `Respond`
sorts and cuts them (`Assemble`). Files are numbered in the order of their paths,
which is the order of the response. An explicit file skips all of this. What the
regular expression matches and which entries the ignore rules leave are inputs.
A section (`Section`) is written per match: a match opens a span unless its
window touches the one before. The body is computed with the response and not
at the search, which no one can tell while the tree stays as it is.

### Durability and DurableRegister

The requests that write one destination, with the page cache and the medium
beneath it. `mem[i]` and `disk[i]` say how much of an inode was written and how
much of that is on the medium; `landed` is the sequence of inodes that were
renamed or linked to the destination and `committed` how many of these entries
are on the medium. `Begin`, `Stage`, `Write`, `Flush`, `Check`, `Install`,
`SyncParent` and `Answer` follow `atomic_write` and `atomic_create` under the path
lock, and every system call up to the rename or link may fail (`Refuse`). The
kernel writes back (`WriteBack`) and commits (`CommitEntry`, `CommitParent`) when
it likes, in the order the entries were made, and, for a file behind a barrier or
on a file system with ordered data, not before the bytes. `Kill` ends the
requests; `PowerLoss` also leaves only what is on the medium. A parent made by
`create_dir_all` is "new" until its own entry is committed, and is lost with all
in it before.

| mode | `Flush` | `SyncParent` |
|---|---|---|
| full | waits for the medium | on Unix commits every entry so far, or fails unnoticed |
| barrier | waits, or on macOS orders the entry behind the bytes | nothing |
| none | nothing | nothing |

`durable` records the requests `full` made a promise to: those answered with
success whose parent was synced and is itself on the medium. `DurableRegister`
is a log of what landed, of which a prefix is safe: a loss cuts it back to that
prefix, an error is answered by requests that changed nothing, a success by one
whose bytes landed, a durable success by one in the safe prefix. The mapping is
`landed` for the log and `committed` for the prefix, or 0 while the parent is new.

### Server, PathResolution and GlobListing

A session: `inbox` holds what the client sent and the service loop has not read.
The loop hands each notification to an adoption task of its own (`SpawnAdoption`),
replies to the task that waits (`ReceiveRoots`) and calls to theirs
(`ReceiveCall`); the client answers a `roots/list` request with the list it has
then, with an error, or never. A task asks (`AskForRoots`), tries candidates in
order (`TryRoot`, which looks at the file system) and installs the first that is a
directory (`InstallRoot`, under the write lock): between the two other programs
may act. A call captures the root at `Dispatch`; then a glob resolves, stats,
walks entry by entry (`ListEntry`, `StatEntry`) and answers, and any other call
resolves one path to an existing file and acts on it (`ActOnFile`), standing for
`read`, `grep`, `edit` and `write`, whose own modules say the rest. Other programs
touch, create and remove files and directories.

`PathResolution` is the operating system's lookup over a tree of canonical
places with links and `..`, and `confine_to_root` over it: `..` is refused, and the
deepest existing ancestor must lie within the root. `expected`, `excused`, `held`
and `found` are history: the root the documentation promises, whether adoptions
overlapped, failed or met changing directories, the roots there were during a
call, and the files as they were at its dispatch until they changed.

## 3. Runs

| run | what it asks | bounds |
|---|---|---|
| `write_external` | types; `NoLostUpdate`, `AnswerMatchesDisk`, `CreatesAreExclusive`, `PublishedStampsAreTruthful`, `InodesAccountedFor` with another program at work, removals that fail and a crash | 2 requests, 1 file, 4 inodes, 1 outside step, 1 crash and restart, 3 clock values |
| `write_closed` | the path implements `VersionedFile`, each request under its own call; writers are serialized; a restart voids identities; every request is answered | 2 requests, 1 crash, no outside writer |
| `cache_fresh` | `EntriesAreTruthful`, `ServesAreFresh`, `OneLoaderPerPath` | 2 reads, 1 publisher, 1 path, 1 rewrite in place, 3 clock values, window 1 |
| `cache_budget` | `BudgetIsExact` | 2 paths, sizes 1 to 3 in a shard of 2, an invalidation |
| `cache_live` | `CallsReturn`, `CellsAreTransient` | 2 reads, 1 publisher, a removal, replacement or invalidation |
| `read_stable` | `BytesWereTheFile`, `StampDescribesBytes`, `EveryFailedAttemptWasDisturbed` | files of 0 to 2 blocks, 3 writes, both attempts |
| `edit_batch` | `AnswerIsTheReferences`, `SplicedAsRequested`, `CursorNeverPassesAnEdit` | every batch of up to 3 operations against 3 texts |
| `read_pages` | `PagesAreOneSnapshot`, `StaleCursorsConflict` | 3 contents of 1 to 6 lines, 3 changes, 1 restart |
| `grep_walk` | `HitsAreAccountedFor`, `FoundFilesFillTheBudget`, `BelowBudgetIsComplete`, `OversizedFailsTheWalk`, `SectionsShowTheWindows`, `RequestReturns` | 3 workers, 6 trees of up to 4 entries, budgets 1 to 3, context 0 to 2, every kind of entry |
| `server_roots` | `QuietRootIsLatest`, `CallsUseOneRoot`, `ListedPathsLeadBack`, `RestrictedCallsStayInside`, `CallsAreAnswered` | a tree of 8 places with a link out of the root, 3 lists of roots, 1 new announcement, 1 call out of 7, 1 step of another program, pinned or not, with and without roots capability and `--restrict` |
| `durability` | `DestinationIsWhole`; the path implements `DurableRegister` | 2 requests of any operation and mode, files of 2 halves, 2 kills or power losses, every platform, data ordered or not, parent missing or there |
| `edit_create_overwrites` | reproduces a disagreement of section 6 | 2 edits, 1 missing file |

**Why these bounds are enough for the questions.** A lost update, a stale hit or
a leaked lock takes two actors and one outside step at the wrong moment; every
run has both, at every pair of steps. Two contents of equal length are the case
a stamp cannot tell apart inside a tick, and an empty one the case edit treats
like an absent file. With three clock values a stamp can be captured inside the
window, at its edge and past it. In `GuardedWrite` the window is 0 ticks: "racy"
then means "captured in the tick of the write", the narrowest window for which
the argument of the code holds. Contents `{a, w, b}` of 1, 2 and 3 bytes in a
shard of 2 give every case of insertion: fits, evicts, too large. Texts of an
edit batch are the empty one, one that ends in LF and one that does not: the
terminal boundary, an empty last line and a last line without LF. Three
operations suffice for R006, which relates pairs, plus one in between. The trees
of `grep_walk` hold a file that alone exceeds the walk's threshold (8 times the
budget, as in the code), three that exceed it together, and two oversized ones;
three workers let one stop the walk while a second fails and a third still
searches. In `server_roots` two adoption tasks are enough for one to overtake the
other, and the one outside step meets every point of an adoption and of a walk;
the requests reach the same file relative, absolute, through the link and through
`..`, and with a name that is not UTF-8; a listing from an absolute directory is left
to the theorem. In `durability` two crashes let a second
one meet what the first left, with a request in between, and two halves are
enough for a file to be torn.

**Time.** `MaxStall` bounds the ticks a verification or a read attempt takes and
`MaxLag` those between stamping bytes and inserting them. The passing cache and
load runs keep `MaxStall + MaxLag <= RacyWindow`. This is an assumption about
the machine and not something the code ensures: section 6 says what happens
beyond it. `read_stable` bounds outside changes to 3, one fewer than the four that
`BytesWereTheFile` leaves a load exposed to (section 6); the theorem about it has no
such bound.

**Deadlock** is not checked: once all requests are answered, and every bound
used up, nothing is left to do. That no request waits forever is stated by the
liveness properties instead.

**Fairness.** `FairSpec` asks weak fairness of `Progress` for each request or
call and of nothing else: tokio's blocking pool runs a task it was given to the
end, and the operating system returns from every system call. `GrepWalk` asks it
of each worker thread and of the thread that waits for them. `Server` asks it of
the service loop and of each call's task, and not of adoption tasks nor of the
client: a call may not depend on them. Begin, outside
programs, the clock and crashes are never forced. Weak fairness suffices for a
mutex because no one takes it twice: the requests of an instance are finite, so a
waiter is eventually the only one.

## 4. Proofs

For every value of the constants, under the assumptions the modules name
(`StampAssumption`, `CacheAssumption`, `WriteAssumption`, `BatchAssumption`, `ReadAssumption`,
`GrepAssumption`, `TreeAssumption`, `ListingAssumption`, `ServerAssumption`,
`DurabilityAssumption`), which TLC evaluates in the runs.

* `TypeCorrect`: `Spec => []TypeOK` of `GuardedWrite`. Types alone are not
  inductive: that a rename finds a real inode in `temp[r]` needs `Structure`,
  which adds that a request between staging and landing has its temp (`TempsHeld`),
  that temps are private, that an inode is in use exactly when an entry or a temp
  name links it, and that two entries never share one.
* `TempsAreAccountedFor`: `InodesAccountedFor`, from the same invariant: no inode is
  forgotten, and a temp name is left on disk only by a crash, a failed removal or
  undecodable metadata. It is not a claim that nothing is ever left (section 6).
* `WritersAreSerialized`: `SerializedWriters`, from `LockHeld` (a request in the
  locked part holds the mutex of its spelling). It assumes `NoAliases`: no two
  spellings name one file. Section 6 says what happens otherwise.
* `NoUpdateIsLost`: `NoLostUpdate`, also under `NoAliases`. The invariant
  `Guarded` adds what a check establishes: a base stamp that is not racy is older
  than the clock, and while it equals the destination's the destination holds the
  expected bytes (`BaseIsTruthful`; every later write moves `ctime` past it), so
  after the check and until another program writes, the destination holds what
  the client named (`CheckedIsCurrent`). The locks keep the server's own requests
  out in between.
* `AnswersAreHonest`: `AnswerMatchesDisk`. `Settled` says for each step of a
  request whether its bytes have landed, so an answer can say it truthfully on
  every exit, the lost race of a create included.
* `IdentitiesDieWithTheProcess`: the action property `OldSnapshotsAuthorizeNothing`.
  `MintedHere`: a request between its decision and its landing named an identity of
  the present process; a restart ends all that did.
* `CacheCanBeTrusted`: `PublishedStampsAreTruthful`, under `NoAliases`. A temp holds
  the bytes of its request (`TempsHold`), so does the destination until the stamp is
  confirmed (`LandedStays`), and from then on the stamp vouches for them
  (`Trustworthy`): a stamp that is not racy is older than the clock, so whatever
  changes the file later moves its `ctime` past it.
* `CreatesHaveOneWinner`: `CreatesAreExclusive`, aliases or not. `Counted` bounds the
  creates of a file that landed by the times it was removed, and one more while it is
  there; `Planned` says which requests go by `link`.
* `KeepsThePromise`: `Spec => ImplementsVersionedFile`. Every step maps to one step
  of `VersionedFile` or to a stutter, from `Guarded`, `Settled` and `Alone` before
  and after it: `Begin` to `Ask`, `Rename` and `Link` to `Land`, which the call `Begin`
  recorded has to permit on the value there is. It assumes `NoAliases`, `NoCreatingEdits` (no edit of the empty file,
  which may create one: section 6) and no other program (`ExternalKinds = {}`);
  without any of the three the promise is broken, and it is the runs and findings
  that say how.
* `LocksAreReleased` and `RequestsAdvance`: what `EveryRequestIsAnswered` rests on
  besides fairness. A held lock is held by a request that is past `path_lock`, on that
  name (`LocksAreManned`), so nobody waits for one that waits; and every step leaves
  each request where it is or takes it nearer to its answer, in the order of `Stage`.
* `SpliceIsForward`: `CursorNeverPassesAnEdit` of `EditBatch`. `SpliceInv`
  collects what each pass has established: resolved positions, no overlap,
  sorted order. The core is a lemma that two operations in sorted order that do
  not overlap are disjoint, `ByteAt` being monotonic in the ordinal.
* `BatchIsTyped`: types of `EditBatch`, from `SpliceInv`: the splice stays within
  the source because every slice of it goes forward.
* `AnswersAreTheReferences`: `AnswerIsTheReferences`. `Judged` says that how far a
  pass has come is what it found nothing wrong with; `OverlapIsConflict` is the
  lemma that the three disjuncts of `overlaps` are the conflicts of R006, stated by
  the lines an operation removes.
* `SplicesAreTheRequest`: `SplicedAsRequested`. `Spliced` says that before the nth
  operation the output is what R006 describes up to the boundary behind the
  operations spliced, with the insertions among them that stand there. Three lemmas
  carry a step: between operations the lines stay (`LinesStay`, by induction over
  boundaries), inside a replacement nothing is written (`LinesGo`), and one operation
  more is what its boundary asks for (`OneMoreSpliced`). That the sort leaves no
  operation out is `SortIsComplete`; that the length is the predicted one,
  `LengthIsPredicted`, by induction over the operations spliced.
* `PagesMakeOneSnapshot`: `PagesAreOneSnapshot` of `PagedRead`. `ReadInv` adds that
  a footer carries the identity of the header; a page is served only under that
  identity, so its lines continue the others.
* `FootersStartPages`: a footer is the start of a line of the snapshot its page was
  rendered from, and while that snapshot is the file's it is answered with the page
  that starts there, by `ReadInv` and the types.
* `StaleCursorsAreRefused`: `StaleCursorsConflict`, from `CursorInv`. The lemma `ContextIsCentered` says that the two clamps of
  `reference_context` leave exactly the lines at most two away.
* `HitsAreKept` and `WalksFailOnOversized`: `HitsAreAccountedFor` and
  `OversizedFailsTheWalk` of `GrepWalk`, for any tree and any number of workers.
  `WalkInv` says who holds what: an entry is pending, with one worker, or
  collected (`HeldOnce`), a visited match is held by someone (`NoneDropped`),
  and the slot is filled exactly for what workers met and are done with
  (`SlotIsTruthful`).
* `WalkIsTyped`: types of `GrepWalk` and the codes of its answers.
* `BudgetIsFilled`: `FoundFilesFillTheBudget`. `Fits` says of `assemble_output`'s
  loop that, up to a file, it reports the found files before which the budget was not
  used up; the proof is an induction over the files, skipped, shown or left out.
* `BelowBudgetAllIsFound`: `BelowBudgetIsComplete`. The shared counter is the sum of the
  matches of the files passed, so a walk that somebody stopped has found more than its
  budget, and a response with less comes from a walk that visited all.
* `SectionsAreTheWindows`: `SectionsShowTheWindows`, for every text and context width.
  An induction over the matches says of each open span which lines it shows
  (`SpanShows`) and that a marker precedes it exactly when lines were left out.
* `WalksEnd`: what `RequestReturns` rests on besides fairness: each step of the walk
  takes an entry off the pending ones or brings one worker further, so the number of
  steps is bounded by the tree.
* `LoadIsTyped`, `QuietFilesAreRead`: types and `EveryFailedAttemptWasDisturbed` of
  `StableRead`, which counts changes over the whole call: a load that gives up met as
  many as it made attempts. `Disturbed` counts them: each earlier attempt saw a change of its own, and
  an attempt during which nothing changed compares equal (`Quiet`).
* `OldStampsDescribeTheBytes` and `OldStampsAreWholeFiles`: `StampDescribesBytes`, and
  that the bytes a load returns under a stamp that is not racy were the file's all at
  once during the call. Both assume `Timely`, that an attempt takes no longer than the
  racy window (`MaxStall <= RacyWindow`), which section 6 says the code does not
  ensure. `Aged` is the argument of the code's comment: a stamp that is not racy when
  it is captured is older than the attempt, so nothing changed while it read.
* `LoadsAreWholeFiles`: `BytesWereTheFile`, under `Timely`, and `MixturesTakeChanges`,
  the same without a clock: a mixture of versions takes two changes during the call,
  and four if the stamp is racy. `Unmixed` says what has been read after so many
  changes: after one, what is left of the file completes it to a version (`OneVersion`),
  or the file has become shorter than it, which the stamp shows. The second reading
  starts over: with one change more it has one version as well, or ends short of the
  mixture it would have to confirm.
* `CellsDoNotOutliveCalls` and `OneLoader`: `CellsAreTransient` and, while nobody
  invalidates, `OneLoaderPerPath` of `SnapshotCache`, for any number of calls on
  any paths. `CellInv` says that a call that has yet to claim has its own cell to
  itself (`OwnCellIsFresh`), that a loader holds its cell and settles it before it
  clears the path (`LoadersHold`), that the cell in flight on a path has a call of
  that path to settle or clear it (`FlightsAreManned`), and that whoever loads
  does so in that cell (`LoadersAreInFlight`), so that two loaders of a path would
  hold one mutex. An invalidation takes the cell off its path in the middle of a
  load, and a second load may then begin; production code never calls
  `invalidate`.
* `MetadataIsProof`: `EntriesAreTruthful`, under `Prompt` (`MaxStall + MaxLag <=
  RacyWindow`). The bytes a path held under each inode and `ctime` are collected in a
  function `t` the code does not have, and `Truthful(t)` says what each step of a call
  knows of it: what is in the cache (`InCache`), was loaded (`Loads`), is being
  compared (`Readings`) or confirmed (`Confirmations`). `Residents` is what makes the
  refresh of an entry that was replaced in the meantime harmless.
* `CallsAreServedFresh`: `ServesAreFresh`, under `Prompt`, from `Truthful` and `Shared`:
  nobody has returned from a cell in flight (`FlightsAreOpen`), and bytes in a cell
  were seen by the call that settled it (`ReadyCellsAreSettled`).
* `BudgetIsKept` and `CacheIsTyped`: `BudgetIsExact` and types; the counter follows
  the sum of the entries' sizes through every insertion, eviction and removal, and
  no subtraction of `cache.rs` saturates.
* `CellsAreFreed` and `CallsAdvance`: what `CallsReturn` rests on besides fairness. A
  cell somebody waits for is free or held by a call in its loader (`HoldersLoad`), and
  every step leaves each call where it is or takes it to a later stage of
  `get_or_load`: nothing sends a call back.
* `RootSettles`: `QuietRootIsLatest` of `Server`. It is not inductive: between an
  announcement and the quiet after it, who carries the client's list changes
  hands four times. `AdoptionInv` says that a request of a task is with the client
  or answered by one message (`RequestsAreAnsweredOnce`), and that, while no
  adoption overlapped another, there is one thread of them (`OneThread`), which
  carries the latest list and has found nothing usable in what it has tried
  (`ThreadCarriesOffer`).
* `ConfinementHolds`: `RestrictedCallsStayInside`. `ConfinementInv` keeps what
  `confine_to_root` established through the steps of a call; its core is that a
  path which exists to the end is its own deepest ancestor, so that what is
  confined is where it leads.
* `SessionIsTyped`, `AnswersUseOneRoot`, `ListingsLeadBack`: types, `CallsUseOneRoot` and
  `ListedPathsLeadBack` of `Server`. `CallInv` follows a call from its one message
  (`CallsOnTheirWay`) to its answer: the root it captured was the server's during the
  call (`Holds`), and, while the files stay as they were, a walk has collected exactly
  the wanted files it passed (`WalkSoFar`). The sort and the cut are those of a
  permutation, which a section of lemmas says a sorted sequence is.
* `CallsAdvance` of `Server`: what `CallsAreAnswered` rests on besides fairness. Each
  step leaves a call as it is, takes it to a later stage, or leaves its walk fewer
  entries; `CallsOnTheirWay` is why a message never reaches a call twice.
* `DurabilityTypes`, `NeverTorn`, `FullSurvives`: types, `DestinationIsWhole` and
  `FullSurvivesPowerLoss` of `Durability`, from `DurInv`: how much of its file a
  request has written at each step (`Staged`), when it lands and is answered
  (`Orderly`), that what `full` promised is committed (`Kept`), and that from its
  flush on a protected file is whole, and on the medium unless its entry has to
  wait for it, hence behind every committed entry (`Bytes`).
* `IsADurableRegister`: `Spec => ImplementsDurableRegister`. Every step of
  `Durability` maps to one step of `DurableRegister` or to a stutter
  (`StepIsLogged`, from `DurInv` before and after it).

**Sums, flattened sequences and recursive functions.** The library's induction
theorems take an operator as a parameter and cannot be used here. The proofs state the
set of numbers, or of subsets, a claim holds for instead, and show that it has no
least exception, from the well-foundedness of `<` and of inclusion of finite sets
(`Reaches`, `SubsetInduction`). `Sum` lemmas (any element may be added last) and
`Flatten` lemmas (the last part is appended) follow for the folds of the community
modules, and are repeated in the modules that need them. For the same reason
`Assemble` in `GrepWalk` is a recursive function and a listing is sorted by a
definition (`Sorted` in `GlobListing`: the sequence of those elements that is in order)
rather than by a recursive operator.

**What the constants are assumed to be.** Each assumption is what the code provides:
at least one worker (`GrepAssumption`; the walker never starts none), contents that
are sequences of blocks, the empty one among them (`ReadAssumption`; a file may be
truncated), a finite set of paths in a shard, times and inodes that are numbers and
names. Nothing is assumed of the clock but that it does not run back; `Timely` and
`Prompt`, which would be assumptions about the machine, are hypotheses of the theorems
that need them and of no other.

**Only model-checked**: the liveness properties `EveryRequestIsAnswered`, `CallsReturn`,
`RequestReturns` and `CallsAreAnswered`. Temporal reasoning under fairness is outside the
prover used; what is proved of them is their safety half, that every step goes forward
and that what is waited for is held by somebody who can go on. Every other property of
the passing runs is stated by a theorem.

## 5. Not modelled

* That two spellings reach one file is a constant of `GuardedWrite` (`Canon`); how
  they do is `PathResolution`'s subject.
* The mutex of the path-lock map, held for one lookup (`persist.rs` 78-85); only the
  per-path mutexes are. In `SnapshotCache`, which call's cell a loader removes
  (`cache.rs` 282): the properties speak of what callers observe.
* In `Durability`: other programs (they are in `GuardedWrite`), what is left of
  temporary files after a power loss, directory entries committed out of order,
  more than one missing level of parents, and a medium that loses what it
  acknowledged.
* In `Server`: what a call does with the file it found (the other modules), the
  session's end, and files that change between the confinement of a path and
  its use, for which `RestrictedCallsStayInside` makes an exception.
* Parsing, JSON schemas, rendering of line contents, logging, the command line.
* Collisions of the identity hash; Windows and other platforms' stamps; unknown
  timestamps; the size and text policy (a load may fail for any reason, which
  stands for them).

## 6. Disagreements met

A run that reproduces one (a finding in `PROJECT.json`, with the sentence of the
documentation it contradicts):

* `edit_create_overwrites`: two edits create the same missing file; the second
  replaces the first one's bytes (`edit/mod.rs` 181: nothing is expected).

Others, which the bounds, assumptions and exemptions of the passing runs stand
for:

* Two spellings of one file take two path locks, and an update may be lost
  (`persist.rs` 77, against `docs/protocol.md` 428: "Same-server writes to one
  canonical path are serialized"). Hence `NoAliases`.
* One file whose matches exceed the walk's threshold stops the walk; if nothing
  else was collected, the response says `truncated=false` although files with
  matches were never visited (`grep.rs` 415 and 486, against `docs/protocol.md`
  341).
* Under `none` nothing orders the bytes of a file before its entry: unless the
  file system does, a power loss leaves a torn or an empty destination
  (`persist.rs` 302, against `persist.rs` 50 and `docs/protocol.md` 447-448: "No
  mode can tear the destination"). Hence `Protected` in `DestinationIsWhole`.
* A file created in a directory that was made for it may be lost under `full`,
  directory and all: nobody syncs the entry of a new directory (`persist.rs`
  164-166 and 351, against `docs/protocol.md` 443). A sync of the parent that
  fails, or a platform other than Unix, makes no difference to the answer
  (`persist.rs` 322-330). Hence the conditions of `durable`.
* Two announcements in quick succession set off two adoptions whose replies and
  checks interleave, and the older list may win (`server.rs` 483 and 488). The
  next announcement puts it right. Hence `excused` in `QuietRootIsLatest`.
* "The temp file is removed on failure" (`persist.rs` 277; the tests expect no stray
  temp file): a removal that fails is ignored, and the `?` at `persist.rs` 175-176 does
  not attempt one. On Unix and Windows decoding metadata never fails (`snapshot.rs`
  305-344), on other platforms it does where modification times are not kept. Hence
  `stuck` in `InodesAccountedFor`.
* A conflict found after staging has neither header nor context (`util.rs` 164,
  against `docs/protocol.md` 224).
* A call that joins a failed load of a missing file is told `io` instead of
  `not_found` (`cache.rs` 255 keeps the error as text; against
  `docs/protocol.md` 395).
* When a walk is stopped, which files were collected depends on the workers: a
  response is then not the first matching files in path order, two modes of one
  request need not agree, and an oversized file may not be met (`grep.rs` 415,
  against `docs/protocol.md` 323 and R016). `FoundFilesFillTheBudget` therefore
  speaks of the files found. Workers also collect up to 8 times the budget and
  not up to "the actual remaining global capacity" (`docs/protocol.md` 342).
* A request that joins a load in flight may be served bytes that were replaced
  before the request began (`cache.rs` 244, against `docs/protocol.md` 239).
  `ServesAreFresh` therefore lets a joined call have what the loading call saw.
* A load or verification slower than the racy window (2 s) trusts a stamp
  captured after the bytes were read: a rewrite within the old tick, behind the
  reader, goes unnoticed (`snapshot.rs` 768, `cache.rs` 147, against
  `snapshot.rs` 200 and 277). Hence `MaxStall + MaxLag <= RacyWindow`.
* Another program that rewrites the destination in place, at equal length and in
  the same tick, between the rename and `confirm_stamp`, has its file published
  as the server's bytes (`persist.rs` 246, against `edit/mod.rs` 127). Hence the
  exemption of `touched` requests in `PublishedStampsAreTruthful`.
* Two readings of a racy file that are both torn in the same way confirm each
  other (`snapshot.rs` 769). It takes four changes in step with the reader
  (`MixturesTakeChanges`): for a file of three blocks two writes between the blocks of
  the first reading, then another file renamed over it before the second reading opens
  the path, and a truncation during that one.
* The refresh after a verification compares the entry's stamp and not that the
  entry is still the one verified (`cache.rs` 155). Within the time
  bounds above `EntriesAreTruthful` holds all the same: an entry inserted that
  late holds bytes stamped that late.
* A resident entry that is still racy is dropped by every claim, so three racing
  misses of a fresh file may load it three times (`cache.rs` 240; the test at 431
  expects at most two).
* An edit of a missing file under a non-empty identity is refused with the
  header of the empty file (`edit/mod.rs` 154, against `docs/protocol.md` 233).

## 7. Plan

What is left, in order of what is most likely to be wrong:

1. `Workspace`: `GuardedWrite` and `SnapshotCache` over one file system, in place
   of the publishers, with a session that reads, edits and reads again; and a
   single abstract file both are shown to serve.
2. Directory entries committed out of order, and temporary files after a power
   loss, in `Durability`.

Theorems: what the workspace of item 1 keeps, from the invariants of its two parts.
