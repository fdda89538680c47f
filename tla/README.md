# FrankenFile in TLA+

FrankenFile hands files from one machine to browsers elsewhere: an operator
publishes a *drop* (files captured into a content-addressed store and named in a
SQLite database), reads out a short pickup *code*, and whoever types the code
gets a browser *session* that opens that one drop until it expires or is
revoked. This directory models the parts of the program in which order, time,
sharing or failure decide whether it is right, checks them with TLC on small
instances, and proves their safety properties, action properties and refinements
with TLAPS for every value of the constants.

All line numbers are those of the repository's `src/` directory (`db.rs` is
`src/db.rs` of the crate); `PROJECT.json` maps every definition to its lines.

## Inventory

| Part | Source | State | Operations |
|---|---|---|---|
| Registry of drops | `db.rs`, `storage.rs` | tables `drops`, `entries`, `sessions` | publish, reissue (recode), redeem, validate a session, revoke, retention |
| Failure budget | `db.rs`, `web.rs` | table `redemption_failures` | count a window, prune, charge; by redemptions and by the password gate |
| Console | `web.rs`, `db.rs` | table `admin_sessions` | unlock, lock, revoke, recode, submit |
| Console uploads | `web.rs` | `tmp/frankendrop-*`, the form being read | receive parts, name files, hand over to publication, clean up |
| Object store | `storage.rs` | `objects/`, `tmp/object-*.tmp` | capture a file, publish, `gc` |
| Archive cache | `archive.rs`, `web.rs`, `storage.rs` | table `archives`, `archives/*.zip`, `tmp/archive-*.tmp`, one lock per key | look up, build, install, record, `gc` |
| Byte ranges | `web.rs` | none (a response follows from a request and a file) | parse Range, If-Range, If-None-Match, serve |
| Fetch client | `fetch.rs` | cache directories with a marker file, staging directories | `frankenfile get` |
| Master key | `security.rs` | one file of 32 bytes | load or create |
| Codes, tags, passwords | `security.rs` | none | draw a code, normalize what is typed, key a tag, compare a password |
| Source capture | `storage.rs` | the walk over the inputs, the file being copied | walk paths, refuse links, detect a source that changes |
| References | `db.rs` | none of its own | resolve an id prefix (`LIKE`) inside `rotate_code` |
| Doctor | `storage.rs` | none of its own | compare references and objects, report |
| Commands | `main.rs` | one process each | load the key, commit, print |
| Audit trail | `db.rs` | table `audit_events` | append, age out |
| Pages, arguments, deployment | `ui.rs`, `main.rs`, `model.rs`, `deploy/` | none | rendering, parsing, units |

How they interact. One host runs a web server (axum on tokio, blocking work on
threads of `spawn_blocking`) and any number of short-lived commands (`create`,
`recode`, `revoke`, `gc`, `doctor`, `get`). They share one SQLite database and
one state directory and nothing else: no process knows of another. A database
write is one immediate transaction and so is atomic; what a handler does
*between* transactions (read the clock, choose a code, verify a password, look at
a file) is not. A file-system call is atomic; a sequence of them is not, and a
killed process or a dropped handler stops anywhere in it. The only lock above
these is the server's lock per archive.

What is hard, and what makes each part correct:

* **Registry.** Handlers read the clock before they wait for the write lock, so
  transactions run with stale times; a code is found free in one transaction and
  used in another; retention deletes rows that others refer to. Correct: a code
  names one drop; a session belongs to one stored drop, ends with it and is cut by
  its revocation; a drop is redeemed at most as often as it allows.
* **Failure budget.** Redemption counts and charges in one transaction, the
  password gate in three steps that overlap. Correct: the number of guesses
  answered in any minute is bounded, pruning is invisible, nobody is locked out
  for good.
* **Console.** Each handler has its own order of session, budget, origin and
  password, with awaits in between. Correct: wrong passwords are charged once,
  nothing reaches the password past a full budget, locked and expired sessions
  admit nobody.
* **Uploads.** Parts come in any order, names coincide, the client may leave at
  any moment while a thread reads its files. Correct: a drop has exactly the files
  that were sent; nothing is stored before authorization.
* **Object store.** Publications and `gc` share a directory without a lock.
  Correct: a drop in the database has its objects; what nothing references goes.
* **Archive cache.** Row and file are written in two steps; `gc` takes both away in
  two steps; the lock belongs to the handler, the build to a thread that outlives
  it. Correct: a live drop's archive can always be had; builds and temporary
  files are bounded by the faults that caused them.
* **Byte ranges.** Boundaries, and downloads resumed after the archive changed.
  Correct: the bytes RFC 9110 says, and no copy of two versions.
* **Fetch client.** Several processes, one destination, kills. Correct: a marked
  directory is whole; a reported result stays.
* **Source capture.** Others change the source between any two of listing,
  inspecting, opening, reading and looking again. Correct: a captured file is one
  moment of the file; what nobody touched is captured exactly.
* **Doctor.** It reads the references once and looks at objects for minutes, beside
  `gc` and publications. Correct: no lasting loss is missed, no alarm is its own.
* **Master key and commands.** Several first starts at once; codes printed after
  their commit; references chosen from an older list. Correct: one key; a printed
  code opens its drop while it may and never another; a recode changes what it names.

`PROJECT.json` lists the hazards one by one, at their lines, with the properties
that cover them.

## Modules

| Module | Models | Proofs |
|---|---|---|
| `FailureBudget` | `redemption_failures` and its two users | `AccessProofs` |
| `DropAccess` | abstract: what the registry promises, without codes, clocks or tables | |
| `DropRegistry` (extends `FailureBudget`) | drops, codes, sessions, retention | `AccessProofs` |
| `Console` (extends `FailureBudget`) | admin sessions and the handlers' order of checks | `AccessProofs` |
| `Upload` | one submission of the console | `UploadProofs` |
| `DropStore` | abstract: what the object store promises for a drop, without files, transactions or collectors | |
| `ObjectStore` | publications and `gc` | `ObjectStoreProofs` |
| `Doctor` (extends `ObjectStore`) | `doctor` beside them | `ObjectStoreProofs` |
| `Capture` | the walk of `create_drop` and `capture_file`, beside changes of the source | `CaptureProofs` |
| `ArchiveCache` | one cache entry, requests, `gc` | `ArchiveCacheProofs` |
| `RangeRequest` | ranges, validators and a client that resumes and revalidates | `RangeRequestProofs` |
| `FetchClient` | `frankenfile get` | `FetchClientProofs` |
| `MasterKey` | `load_or_create` | `CommandLineProofs` |
| `CommandLine` (extends `MasterKey`) | create, recode, revoke and the server as processes; typed codes; references | `CommandLineProofs` |

A module of proofs is about one component and those that share its state:
`AccessProofs` has the budget and its two users, `ObjectStoreProofs` the doctor too,
`CommandLineProofs` the key.

Each `MC…` module instantiates its module for TLC. Definitions preceded by
"Mutant:" are plausible mistakes in the code, kept next to the definition they
would replace; no specification uses them, and each was seen to break the
property `PROJECT.json` lists it for.

### State and actions against the code

`FailureBudget`. `failures` is the table; `refusals` keeps every row ever added, so
that pruning can be compared with it. A handler's time is any value of
`ReadClock == (clock - MaxLag)..clock`: the code reads the clock and then waits for
the write lock. `RedeemThrottled`, `RedeemGranted` and `RedeemRefused` are the three
outcomes of `Database::redeem` as far as this table goes. The gate is
`GateCountGlobal` and `GateCountSource` (two autocommitted statements of
`failure_counts`), then `GatePunish` (`record_failure`) or `GateLeave`.

`DropRegistry`. One action per transaction: `Publish` (`insert_drop`), `Reissue`
(`rotate_code`), `RedeemRejected` and `RedeemAccepted` (`redeem`, with its pruning of
failures and sessions), `Revoke`, `ApplyRetention`. `AllocateCode` is the loop in
`create_drop` and `reissue_code` that finds a free code; `alloc` remembers it until
the inserting transaction. `published` and `holder` are history.

`Console`. `req` is the request each handler serves and the stage it has reached;
`Authorize` (`authorize_admin`), `Budget`, `Count`, `RefuseOrigin`, `PasswordRight`,
`PasswordWrong` follow the order of each handler, which differs: revoking and
recoding look at the origin before the budget, unlocking and submitting after it.
The budget's own actions are taken from `FailureBudget`.

`Upload`. `Password`, `Field`, `File`, `EmptyFile`, `EndOfForm` are the arms of the
multipart loop; `Capture`, `Commit`, `FailTask` are `create_drop` on its thread, which
goes on after `Drop` (the handler is dropped) and stops only at `Kill`. A name is a
stem and the counters appended to it, which is all that `uniquify_name` changes.

`ObjectStore`. `Copy`, `Probe`, `Reuse` / `Install`, `Seal` are the calls of
`capture_file`; `Commit` is `insert_drop`. `Collect`, `Visit`, `Purge`, `Unlink`,
`Finish` are `garbage_collect`, one object at a time. An object and its name are one
value, since the name is the hash of the bytes.

`Doctor`. `Examine` is the query for the references, `LookAt` the metadata of one
object, `Report` the end; every step of `ObjectStore` may come between. `lost` and
`disturbed` are history.

`Capture`. `Input`, `List`, `Inspect` are the loops of `create_drop` over its inputs
and over `walkdir`; `Before`, `Open`, `Read`, `Settle` are `capture_file`, one block per
`Read`; `Finish` looks at duplicate paths and the total. `Write`, `Place`, `Unlink` and
`Tick` are others who change the source and the clock of the file system, which is
as coarse as it is: `hidden` is history and says that a change left no new time.
A capture that ends well hands `ObjectStore!Begin` its set of contents.

`ArchiveCache`. `Ask`, `Acquire`, `Respond` and `Disconnect` are the handler;
`Lookup`, `Check`, `Build`, `Install`, `ReadBack`, `Record` and their failures are
`materialize` on its thread; `Collect`, `Purge`, `UnlinkZip`, `Unrecord` are `gc`, one
run at a time. Drops with one manifest share the entry, and its row names only the one
that first built it. `left` is history: the requests whose client disconnected while
their task ran on.

`RangeRequest`. `ParseRange` and `IfRangeMatches` are the functions of those names;
`Serve` is `serve_representation` as a function of a request. The client that
resumes a download is external and behaves as RFC 9110 says of If-Range. The
archive of a manifest changes only with the format version in its cache key
(`Deploy`), and keeps its bytes when it is built again (`Rebuild`). `Revalidate` asks
for a whole copy again with If-None-Match (`etag_matches`).

`FetchClient`. `ProbeHit` / `ProbeMiss` (`cached_result`), `Prepare`, `Redeem`,
`Download`, `Extract`, `Mark`, `Publish` (the rename), `Finish`. What the server's
codes name, and what users do to the directories, is external. `rename` onto a
directory succeeds only if that is empty.

`MasterKey`. `Look`, `ReadKey`, `Create` (`create_new`), `Write`; `Stop` at any point.

`CommandLine`. Each process comes by its key as in `MasterKey` (`KeyStep`) and then is
a server or runs a command: `Draw` (a free code), `Publish` (`insert_drop`) or `Rotate`
(`rotate_code`, with `Escaped` and `Like` for its query), and `Announce`, the printing.
`Found` is the query of `redeem` and `Redeem` a redemption that is granted; a row is
`active` until its drop ends, `fresh` until its code expires, and has redemptions `left`
(`Deactivate` and `ExpireCode` may come at any time). Whether the source of a redemption
is throttled is decided before that query and is `FailureBudget`'s.
`Normalize` is `normalize_code` on sequences of characters; `Spellings` is how people
write codes down. A tag is the key and the code it was made of.

## Runs

| Run | Module | Bounds | Shows |
|---|---|---|---|
| `lifecycle` | `DropRegistry` | 2 drops, 2 codes, 2 tokens, 2 allocators, clock to 3 | unique codes, complete revocation, refinement of `DropAccess` and of `FailureBudget` |
| `expiry` | `DropRegistry` | 1 drop that outlives its codes, 2 codes, 2 tokens, limit 1 or none, 1 gate, clock to 5 | scoped sessions, bounded redemptions, `ReissueAdmitted`, `AccessKept`, `PurgedInTheEnd` |
| `store` | `Doctor` | 2 collectors, 1 kill, and either 2 publishers, 2 drops, 1 object and a doctor, or 1 drop of 2 objects | which drops can lose objects; refinement of `DropStore`; temporary files; the doctor's report; orphans go in the end |
| `gc_overlap` | `ObjectStore` | 2 publishers, 2 collectors, 2 objects, 2 drops, 2 kills | *violation*, see below |
| `capture` | `Capture` | 5 paths in 3 levels, 3 trees, 3 input lists, files of 2 blocks, 3 changes, 2 ticks; 3 files and 4 blocks at most | one moment per file; untouched paths exact |
| `archive` | `ArchiveCache` | 2 faults, and either 3 requests of 3 drops, or 2 requests of 2 drops and 2 runs of `gc` | builds and files accounted for; live drops served |
| `ranges` | `RangeRequest` | 2 versions, sizes 0 to 3, positions 0 to 4 and absent and malformed, clock to 3 | exact ranges, honest and continued copies |
| `fetch` | `FetchClient` | 2 processes, 2 codes, 1 output directory, 3 drops, 3 changes, 1 kill, 2 edits | whole and stable results; staging directories |
| `upload` | `Upload` | 5 parts, 4 files, 3 names and a refused one | what was sent is what is published |
| `console` | `Console` | limits 2 and 1, window 1, lag 1, and one of three workloads: the table of failures by itself with 2 sources, 1 attempt at a time and a clock to 5; the same with 3 sources and 2 attempts at a time at time 0, after which the clock only passes (here the global limit is the one that binds); or 2 handlers, 2 tokens, 4 requests, 1 lost failure and a clock that only passes from 3 on | the window bounds, exact counts, `ThrottleLifts`; charges, sessions, refinement of the gate |
| `commands` | `CommandLine` | 2 processes with 2 starts each, 3 codes of 2 characters, and either one process at a time, 3 identifiers (two differ in case, one has `_`) and 4 references, or both side by side, 2 drops, codes that expire and a limit of 1 or none | one key; printed codes open their drop while they may and nothing else; what recodes change |
| `recode_case` | `CommandLine` | the same | *violation*, see below |

Why the bounds are enough. Every counter that a comparison in the code depends on
passes its limit by at least one: the failure limits are 1 and 2 and there are more
attempts than that; a redemption limit of 1 with tokens for 2; three builds, of which two can lose their
client; sizes 0, 1 and
more with positions beyond the last. Each race has both of its actors and, where a
third could matter (a second collector that removes what the first is about to, a
third drop for the code that changes), that one too. In `store`
the two workloads are separate because `create_drop` and `garbage_collect` treat
objects one by one: one object shows every race between publications, `gc` and the
doctor, and two objects are needed only where a run of `gc` stops at one and leaves the
other. In `capture` the tree has a nested directory, a sibling after it and an input
beside it, so that a walk that loses or doubles what is still to be visited is seen;
three changes are a removal, a replacement and a write. In `commands` two characters
make a code short enough for every separator at every place. `archive` and
`commands` are two workloads each and `console` three (a variable of their `MC` module
that never changes),
so that a bound that is wide where one question needs it can be narrow for the other;
each workload is a part of the component's own specification. The clock runs long
enough for a code, a session and a drop to expire, in that order, and for retention to follow,
with a lag of one second in every reading. What the bounded clock cuts off is
excluded in the liveness properties by a hypothesis about `MaxTime`. Symmetry is
used only in runs without liveness properties. Where a property is proved
(below), no bound is involved.

`CHECK_DEADLOCK FALSE` is given where the model comes to rest: a bounded clock or
number of requests or starts (`archive`, `console`, `ranges`, `commands`), a finished
submission or capture (`upload`, `capture`).

### Fairness

* `BudgetFairSpec`: the clock does not stop. Nothing is assumed of any client.
* `DropRegistry!FairSpec`: the clock does not stop, and `gc --execute` runs again and
  again: `deploy/frankenfile-gc.timer` has `OnCalendar=daily` and `Persistent=true`.
* `ObjectStore!FairSpec`: weak fairness of each collector's progress: the timer, and a
  run that is not killed goes on. Publishers may stop anywhere. `Doctor!GcFairness` is
  the same beside a doctor, of which nothing is asked.
* `ArchiveCache!FairSpec`: weak fairness of tasks (threads run) and of `gc` once
  started; strong fairness of `Acquire`, because tokio's mutex hands the lock out in
  the order of its queue; a client that keeps asking. `Disconnect` and the faults are
  never fair, and are bounded: a client that always disconnects is never served.

`ObjectStore!KillCollector` stands for a killed run, for an error of its walk (an entry
that vanishes between listing and `metadata()?`, `storage.rs:548` and `553`) and for an
error of the database. `MaxKills` bounds them together; nothing in the code bounds the
errors, so `OrphansAreReclaimed` says that `gc` reclaims once they stop.

### Violations

`gc_overlap`: `garbage_collect` reads the references, walks the objects and unlinks
them with no lock against `create_drop`. A publication that finds an object already
present, after `gc` has judged it unreachable, is committed and then loses it.
`product-contract.md:55` says the command line is safe while the server is running,
and `architecture.md:63-64` that a manifest is inserted only after every object is
durable. `OnlyRacedDropsLoseObjects` in `store` says exactly which drops are exposed.

`recode_case`: `LIKE` does not tell upper from lower case (`db.rs:460`), identifiers do,
and the query sees active drops only. The whole identifier of a drop that has ended is
therefore taken for the only active drop that differs from it in case: that drop gets a
new code and its old one is dead. `db.rs:444` and `storage.rs:323-324` say that a drop is
addressed by its ID or a unique prefix of it. (Whole random identifiers will hardly ever
differ in case alone; the first eight characters, which are accepted as a prefix, sooner
may.) `RecodesWhatIsNamed` in `commands` says what a recode may change instead: a
reference that names active drops letter for letter changes none but those.

### Other divergences met while modelling

Behaviours of the models that a document describes differently, and that the
checked properties take into account:

* Builds of one archive can overlap: `archive_response` drops the lock with its
  handler while `materialize` runs on (`web.rs:1161`), where `threat-model.md:43` counts
  on "singleflight archive builds". `BuildsAreAccountedFor` is what holds: each build
  beyond the first was left by a client that disconnected from it.
* An archive renamed into place whose row is not inserted (`archive.rs:96-113`), or
  whose row `gc` deletes just after a build upserted it (`storage.rs:582-585`), is never
  found by `gc` again; `README.md:119-120` says it reclaims the bytes.
  `FilesAreAccountedFor` says that only a fault or an overlapping `gc` can cause one.
* Files under `tmp/` left by kills (`storage.rs:407`, `archive.rs:89`) or by a console
  handler dropped while its files are captured (`web.rs:788-789`) are never reclaimed;
  `product-contract.md:57-58` says only unreachable objects can be left.
  `TempFilesAreAccountedFor` and `FilesAreAccountedFor` bound them, and so does
  `StagingIsAccountedFor` for the staging directories of `get`.
* If-Range by date accepts any date not before Last-Modified (`web.rs:1451`): after a
  rollback to an older archive format a client that resumes by date joins two
  archives. `CopiesAreHonest` is about clients that resume with the ETag, and its
  theorem says so in its assumption (`Validators \subseteq {"etag"}`).
* `get --output` into the directory of an earlier fetch reports that fetch, whatever
  code is given (`fetch.rs:217`). `CacheReportsWhatTheCodeNamed` is about the cache,
  where a place belongs to one code.
* `product-contract.md:49-51` says that `create` rejects changes of the input during
  capture. A file changed after it was copied, and an input directory replaced by a
  file before it is listed (walked as if empty), are not noticed; nor is a write that
  keeps the length within one tick of the time stamps. `EachFileIsOneMoment` and
  `UntouchedPathsAreExact` say what is captured then.
* The limit on the number of entries is looked at after each entry of a directory, not
  after an input that is itself a file (`storage.rs:216`).
* For the same reason a whole identifier of an active drop may be refused as ambiguous,
  beside an active drop that differs from it in case. `RecodesWhatIsNamed` allows the
  refusal.
* An alarm of `doctor` while `gc` runs may be a drop that was purged meanwhile;
  `AlarmsAreReal` is about a doctor that no `gc` disturbed.
* `frankendrop_lock` answers a failed deletion like a success (`web.rs:482`): the
  session then ends only with its lifetime. `LockedSessionsStayOut` counts a session as
  locked when its row is gone.
* `parse::<u64>` reads `+1` (`web.rs:1422`): such a range is served as without the sign.
* `get` refuses a drop that holds nothing but directories, and one whose top level has a
  file of the marker's name (`fetch.rs:112`).

## Proofs

TLAPS checks the following for every value of the constants that satisfies the
named assumptions.

| Theorem | States |
|---|---|
| `AccessProofs!WindowsAreBounded` | no window has more answered failures, of all sources or of one, than the limit plus the attempts that can be in flight |
| `AccessProofs!PruningIsInvisible` | a handler, however late within the lag, counts exactly the failures of its window |
| `AccessProofs!RegistryImplementsBudget`, `ConsoleImplementsGate`, `ConsoleKeepsTheBudget` | every step of the registry and of the console is a step of the budget, so the two above hold of both |
| `AccessProofs!TypeCorrect`, `CodesAreUnique`, `SessionsAreScoped`, `RevocationIsComplete`, `RedemptionsAreBounded` | the registry's invariants |
| `AccessProofs!ReissuesAreAdmitted` | the CHECK on `code_expires_at` never refuses a reissue |
| `AccessProofs!AccessIsKept` | an action property: no step takes a live session its drop |
| `AccessProofs!RegistryImplementsDropAccess`, `NothingOpensAnEndedDrop` | the registry implements `DropAccess`; read back from the tables, what opens something was issued for a drop that is live |
| `AccessProofs!EachWrongAnswerIsChargedOnce`, `LockedStaysLocked`, `SessionsComeToAnEnd` | the console charges each wrong password once; locked and expired sessions admit nobody |
| `UploadProofs!UploadTypeCorrect`, `UploadsAreWhole`, `StoringIsAuthorized`, `AnswersAreTrue` | a submission of any length is published with exactly its files, or not at all, and the client is told so |
| `ObjectStoreProofs!TypeCorrect`, `OnlyRacesLoseObjects` | types; a stored drop whose publication did not overlap `gc` has all its objects |
| `ObjectStoreProofs!StoreImplementsDropStore`, `DoctorOnlyLooks`, `PublishedDropsAreReadable` | the store implements `DropStore`, with a doctor beside it or not; read back from the files, a published drop that `gc` did not meet before is whole |
| `ObjectStoreProofs!TempFilesAreOfKills` | files under `tmp/` without a publication are no more than the kills |
| `ObjectStoreProofs!DoctorTypeCorrect` | types, and the store's safety, under the doctor's specification |
| `ObjectStoreProofs!LastingLossesAreReported`, `AlarmsAreLosses` | no lasting loss is missed; an alarm while `gc` is idle is a loss of a raced drop |
| `CaptureProofs!CaptureTypeCorrect`, `CapturedFilesAreOfOneMoment` | a captured file of any length is the file at one moment, unless a change left no new time |
| `CaptureProofs!UntouchedPathsStayExact` | a finished capture has exactly what the inputs hold wherever nobody interfered, and an untouched source is refused only for what it holds: for any tree, inputs, limits and number of changes |
| `ArchiveCacheProofs!CacheTypeCorrect`, `BuildsAreFew`, `FilesAreExplained` | of the builds at work at most one has its client, and every other was left by one that disconnected; no file without its cause |
| `RangeRequestProofs!TypeCorrect`, `RangesAreAlwaysExact` | types; `parse_range` is right for every size and header |
| `RangeRequestProofs!ResumedCopiesAreHonest`, `TransfersContinueCopies` | resuming with the ETag never mixes, skips or doubles bytes |
| `FetchClientProofs!MarkersAreTrue`, `StagingIsCleared`, `ReportsStayTrue`, `CacheIsOfTheCode` | marked directories are whole, reports stay true, the cache holds what its code named |
| `CommandLineProofs!ThereIsOneKey`, `KeyStays`, `CommandsShareTheKey` | one key, which is never replaced, for bare processes and for those that run commands |
| `CommandLineProofs!RecodesGoWhereTheyAreSent` | a recode changes the only active drop that begins with its reference, case apart, or nothing, and none but those that begin with it exactly if there are any |
| `CommandLineProofs!NoTwoDropsShareACode`, `SpellingsAreRead`, `AnnouncedCodesOpenTheirDrop` | until its drop is recoded a printed code, however it is written down, opens that drop while it is active and the code unexpired and not used up, and otherwise nothing |

**Budget.** The bound on a window (`GlobalBound`, `SourceBound`) is not inductive: a password attempt that has passed its
count adds a row later, whatever the table holds by then. The inductive invariant
`BudgetInv` is about a potential instead: for each window, the failures in it plus
the attempts that have been counted and could still fall into it never exceed the
limit plus the number of handlers; and `PrunedAreOld`, that what was pruned is older
than any window a lagging handler can count. Assumed (`BudgetAssumption`): limits are
positive, the lag and the window together are no longer than the age of pruning
(8 s and 60 s against 3600 s in the code), there are finitely many handlers.

**Registry.** `RegistryInv` joins the invariants with what they need of each other:
`RevocationIsComplete` needs that a session's drop is stored, which needs that
retention deletes sessions with their drop; `RedemptionsAreBounded` counts the
tokens ever issued through the history variable `holder`, because session rows are
pruned. Assumed (`RegistryAssumption`): a lifetime is longer than the lag, and the
retention not shorter than it. `ReissuesAreAdmitted` adds that a stored drop was
created at a time some clock had shown (`RowsAreDated`). `AccessIsKept` and the
refinement of `DropAccess` rest on one lemma about all transactions (`RowsGoOn`): a row
that stays keeps its drop and its times, a revocation is never taken back, what is new
was neither published nor issued before, and the clock does not go back. The refinement
mapping reads the phase of a drop and the sessions that open it off the tables at the
present time, so that a tick of the clock may end several drops at once; each action of
the registry is then one step of `DropAccess` or none.

**Console.** That each wrong password is charged once needs that a new row is none of
those there: rows of one source and one second are told apart by a number that is less
than their count (`Numbered`). Rows of sessions belong to issued tokens, end within a
lifetime of their issue and never come back after a lock (`RowsInv`); a request past its
authorization holds a session that was stored, unlocked and unexpired when it was looked
at (`RequestInv`). The budget's invariant is
taken over from its own proof through `ConsoleImplementsGate`, which needs
`PrunedAreOld` and the types. Assumed beyond `BudgetAssumption`: an admin session has a
lifetime, and `None` is no token and no request.

**Uploads.** `UploadInv` relates five lists: what was sent, the names given, the files in
the directory, what the task has captured and what is published. That names stay
distinct needs that `uniquify_name` ends: while parts come in, no more names are taken
than files were received, so one of the first counters is free by counting
(`UniqueNameIsFree`). The directory is removed only by a handler that knows how its task
ended (`FilesAreThere`); a dropped handler leaves it to the task.

**Object store.** That a drop has its objects is not inductive: what matters is what a
run of `gc` that is in progress will still unlink. Runs take no lock, so `IInv` adds,
for every run and every stored drop that is not raced: the run found the drop's
objects referenced, or the drop is one it doomed and has not yet purged, and it purges
before it unlinks (`CollectorsSpareTheRest`). That holds because a drop stored while a
run is in progress was stored before the run began or was raced (`OverlapIsRaced`), and
because a drop is published once and by one publisher, so that a doomed drop does not
come back (`PublishedOnce`). For `tmp/` the invariant says between which calls a
publication has a copy there. Assumed: `None` is no record (`NoneAssumption`); any sets
will do, infinite ones too.

`DropStore` says what a reader of a drop may count on: its contents never change, it
stays until it is overdue, and it can be read in whole unless it was exposed to `gc`,
which happens before it is published or not at all. The refinement mapping reads a
drop's phase off its row, the publications in progress and those begun; a drop is
readable when all its objects are files. Two facts carry the proof. Of the steps that
end no publication and touch no row, `OnlyRacedDropsLoseObjects` before and after says
that only exposed drops can waver (`OnlyRacedWaver`). And `gc` purges what it doomed
before its walk: each such drop still is overdue, or has left the store and does not
come back (`DoomedAreOverdue`, which needs `PublishedOnce`).

**Doctor.** Its steps leave the store alone and the store's steps are those of
`ObjectStore`, so `IInv` is also an invariant here. A loss not yet named is still to be
looked at and still absent (`LossIsAhead`); while no run of `gc` has begun or moved, rows
are only added, so what the query returned stays referenced (`QuietViewIsCurrent`), and
an absent object of it is by `OnlyRacedDropsLoseObjects` a raced drop's.

**Capture.** While a file is copied (`CopyInv`) either its bytes are those at the opening
and what was read is their beginning, or its timestamp is later than at the opening and
will stay later, or a change was hidden. It holds because no timestamp is of the future
and a change puts the present tick on the file; metadata found equal after the copy
leaves the first case, and the lengths compared make a beginning the whole. That the
path inspected, opened and copied is in the source follows from the looks at it, so
this half needs nothing of the order in which the walk lists directories.

`UntouchedPathsAreExact` does. `WholeInv` says that every path under an input already
begun that nobody disturbed is captured or still ahead of the walk (`NothingMissed`:
what the walk is at, what its listing will return, what is on its stack), that every
entry is explained by a path under an input (`NothingElse`), and, as long as nothing was
touched, that listings are current, no two things on the stack contain one another, and
what is ahead has no entry yet (`ListedInv`, `ApartInv`, `FreshInv`). Others spare what
they do not disturb (`SparedKeeps`), because a file is named by its path and a thing can
only be where its directory is (`TreeInv`). Refusals for a limit need counting: distinct
entries of an untouched source are no more than it holds, and neither are their blocks
(`EntriesFitTheSource`). To be reasoned about without induction over data, the order of
a listing (`Sorted`) and a sum of sizes (`BytesOf`) are defined by cardinalities.
Assumed (`CaptureAssumption`): finitely many paths, each with its prefixes, and trees in
which what exists is in directories.

**Archive cache.** A task at work has a request that waits for it and holds the lock, or
its request is in `left` (`LeftInv`): so a build that is not `left` is the holder's, and
there is one holder. Temporary files are counted against the tasks that write
(`LeftFiles`); a restart stops all of them at once, so a spill makes room for as many
files as there are requests.
For archives without a row the invariant says what gc and a build may rely on as long as
they have not met (`ApartInv`): then nobody writes while gc is under way, gc purges the
drop of a row only together with the archive, and nothing comes in behind the archive it
took. Assumed (`CacheAssumption`): finitely many requests, each for a drop.

**Ranges.** `parse_range` is compared with the positions RFC 9110 gives by cases on
which ends are present. For resumed copies the invariant adds that a response in
progress is of the version whose ETag the copy carries, starts where the copy ends
and reaches the end of that version. A first request and a revalidation that is not
answered with 304 share one lemma: a 200 starts a copy anew.

**Fetch client.** `FetchInv` says what each process knows at each stage about the place it
writes to (`RowInv`) and what stands behind a report (`ReportInv`): a process that comes to
the rename has all files of a drop its code has named; one that found a marker, or whose
rename succeeded, sees that payload in place. Staging directories are counted exactly:
those of processes at work and one for each kill. Assumed (`FetchAssumption`): the cache
and the directories of `--output` are apart, and `None` is none of them.

**Master key and commands.** `create_new` makes one process the writer; the invariant says that
its key is its own (named after its process and start), so no second process can
be in `Write`. `CommandInv` adds that rows and announcements name the run that made them,
that a run which has not committed has made none, and that what it prints is what it
wrote, unless the row has been written again since. That an expired, used-up or ended
row keeps its code tag is what leaves nothing else for that code to open. What a recode
changes is about `Escaped` and `Like`: every character an accepted reference can have
stands for itself, so a match is a prefix up to case (`LikeIsPrefix`), and a row is taken
only if it is the only match; what begins with the reference exactly is among the
matches (`ExactlyIsAlike`). Assumed (`AlphabetAssumption`, `TextAssumption`,
`LimitAssumption`): letters have one upper-case letter each, letters, digits, blanks and
hyphens differ, identifiers and references are texts, identifiers finitely many, and a
limit is a number or absent. That `Normalize` reads each spelling of a code (`SpellingsAreRead`) is proved for
codes of any length: `Compact` says which position of the text its k-th character comes
from, by counting the positions kept before it, instead of by the recursion of
`SelectSeq`, which no prover here unfolds; the lemmas count those positions for a text
with nothing to drop and for one with a single separator in it.

Only model-checked: everything under fairness (`ThrottleLifts`, `PurgedInTheEnd`,
`OrphansAreReclaimed`, `LiveDropIsServed`), which is out of the prover's reach. Every
other property of a passing run is a theorem.

## Assumptions and abstractions

* A handler's reading of the clock lags by at most `MaxLag`. The code's bound is the
  8 s of `busy_timeout` plus scheduling; a clock that is set back is not modelled.
* A failed transaction rolls back and is a stuttering step, except where the code
  drops the error and goes on (`punish_failure`: `PasswordWrongUnrecorded`).
* Hashes do not collide, tokens are drawn once, and a code that is drawn is any code.
* A console handler reads the clock once in the model and twice in the code (`web.rs:300`
  and `510`, `608` or `751`), a fraction of a second apart. The key file's type and mode
  (`security.rs:43-49`) and what `get` checks of a marker beyond its presence
  (`fetch.rs:230-240`) end in refusals that change nothing, and are left out.
* In `CommandLine` no drop is purged, so that an ended one keeps its code;
  `DropRegistry` has the purge.
* A kill loses no completed file-system call: durability under power loss (which
  directories are synced) is not modelled.

## Not modelled

* The random draw of codes and tokens, keyed hashes and Argon2: values that differ where
  their inputs do.
* Durability under power loss: which directories are synced (`storage.rs:470`).
* `audit_events` and `sessions.last_seen_at`: written, never read by a decision.
* Downloads of single files and folders, whose handlers are one authorization, one query
  and then the serving modelled in `RangeRequest` and `ArchiveCache`; HEAD, and headers
  that decide nothing; the HTML; the parsing of arguments and the output; the ZIP format
  and its limits (a build or an extraction succeeds or fails); names that
  `safe_component` refuses and inputs given through links; `doctor --deep`, since the
  bytes of an object do not change; the deployment units beyond the timer.

## Plan

Done, in this order: the budget and the registry with their abstract specification
and proofs; the object store; the archive cache; ranges; the fetch client; uploads; the
console; the master key; the doctor; source capture; the commands with typed codes and
references; then the proofs of each, and the abstract object store (`DropStore`).

Next, most important first:

1. The composition of `ObjectStore` with `ArchiveCache`, whose builds read objects and
   whose files `gc` removes after the objects.
2. Synced and unsynced directories under a power cut.
