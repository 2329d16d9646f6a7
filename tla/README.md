# Formal models of Chippytea

Chippytea finds disk space that can be given back, lets the user review it, moves it to Trash or
removes it, and pays for verified permanent cleanups in chips. This directory holds TLA+ models of
its Rust core (`core/src`) and of the part of the Swift application that talks to it, TLC
configurations that check them on small instances, and TLAPS proofs of the safety properties for
every instance.

Run everything from this directory: `tlc -config JournalQueue.cfg MCDiscoveryJournal` checks one
configuration, `tlapm CleanupLedgerSafety.tla` checks one module's proofs. `PROJECT.json` lists the
runs, the source lines each definition translates, the hazards with their lines, and the theorems.

## The system

| part | state it keeps | what changes it | modelled by |
|---|---|---|---|
| discovery journal, `store.rs`, `lib.rs` | queued and claimed scopes, open refreshes and what they have seen, rows, incomplete and limited grants, tombstones | events, scans, grants, helper batches, ends of passes, retention, cleanup, start | `DiscoveryJournal` |
| engine coordinator, `lib.rs` | runtime and store mutex, a condition variable, flags for pause, cancel, cleaning; one background worker | every request | `EngineGate`; the scan a user watches is `ForegroundScan` |
| reviews, `lib.rs` | pending reviews, reservations, cancel generation, the duplicate report, behind four mutexes | prepare, prepare_duplicate, check_duplicates, execute, keep, authorize, cancel, events | `ReviewDesk` |
| cleanup and restore, `cleanup.rs` | operations and receipts, the manifest, the item on disk | execute, restore, start | `CleanupLedger` |
| accounting and wallet, `accounting.rs`, `store.rs` | windows, allocations, earnings, wallet | end of a permanent cleanup, collect, start | `CleanupLedger`, which implements `RewardWallet` |
| scan helpers, `scan_worker.rs` | a queue of jobs, supervisors, a bounded mailbox per job, child processes | helper output, deadlines, aborts | `ScanHelper`; bytes and frames in `FrameStream` |
| scopes and hints, `refresh.rs`, `recommendations.rs` | the pool of recent-file hints | events, ends of scans | `EventScopes`, `RecentHints` |
| the scanner, `scanner.rs`, `lock_facts.rs` | per scan: frontier, deferred artifacts, caches | helper process | `Traversal`, `EvidenceCaches`, `ProjectEvidence`, `WorkspaceGlobs`, `GitLayout`, `Revalidation` |
| safety checks, `safety.rs` | none between calls | | `ScopeProof`, `MeasurementCursor`, `PinnedRead`, `DirectoryReader` |
| activity, `activity.rs` | a look at the processes, used again for a while; the identifiers of the running apps | each item to be cleaned | `ActivityCheck` |
| provider evidence, `project_providers.rs`, `scanner.rs` | none between calls | helper process | `ProviderEvidence` |
| installed tools, `managed_providers.rs`, `editor_review.rs`, `lib.rs`, `ManagedStorageView.swift` | the active and the last cancelled review, the one that is shown | the user, tools, the editor | `ManagedReview` |
| duplicates, `duplicates.rs` | none between calls | | `DuplicateAnalysis`, `StagedCopy` |
| probes and inventory, `probe.rs`, `docker_read.rs`, `storage_inventory.rs` | a pool of programs | read-only queries | `ProbePool`, `DockerRead`, `StorageInventory` |
| Swift application, `EngineBridge.swift`, `NativeServices.swift` | event mailbox and cursor, what is shown, queued cleanups | the system's events, the user | `EventDelivery`, `LibraryView` |

How they meet. File-system events and requests queue *scopes* in the journal. The worker claims a
scope, a helper process reads it, and its batches and its end are written back one transaction at a
time. Execute pauses the worker, hides each reviewed candidate behind a *tombstone*, queues its path
for another look, and carries the cleanup out with the store locked; the receipt and the credit are
written by the same transaction. On start, `recover_discovery` and `reconcile` settle whatever a
stopped program left behind.

What is hard here: a stop between any two transactions; a helper that answers after a cleanup; a
pass that ends early and must not prune; mutexes taken in several orders and flags read outside
them; a wakeup lost between a look and a wait; answers applied in another order than asked for;
files that change between any two system calls. `PROJECT.json` lists each at its line.

## How the modules are built

A module models one component: one action per transaction, lock section, system call or handler,
`Next`, `Spec`, and its properties at the end. Constants are sets of model values and bounds, with
named assumptions where a proof needs them. `MC…` modules give the constants small values.

Most components share no state (they meet through a handful of values that each of them takes as
nondeterministic input), so several can be checked by one run: `MCEngine`, `MCEngineLive`,
`MCReaders`, `MCLibrary` and `MCJournalShapes` have a variable `part`, chosen at the start, and every
behaviour is a behaviour of that part; the other parts rest. This is a disjoint union, not a
product: nothing is lost, and nothing about interaction is claimed. Where components do interact,
one module holds both sides: the journal with helpers and cleanups (`DiscoveryJournal`), the worker
with the requests (`EngineGate`, `ForegroundScan`), the ledger with the disk (`CleanupLedger`). In
`MCReaders`, `MCLibrary` and `MCJournalShapes` the parts use the same slots `x1`, `x2`, … for their
variables; the comment above each instance names its bounds.

Definitions whose comment begins "Faulty on purpose" are plausible mistakes in the code (a dropped
guard, a missing reset, a swapped order). No specification uses them. Some are the mutants of
`PROJECT.json`, one for every checked property; the others break one conjunct of a joint property
and are tried by hand the same way. The real definition follows the faulty one.

### DiscoveryJournal

One action per transaction or request of the journal. Paths are model values ordered by
`Above[p]` (the paths at or above p); `Grant[p]` is the granted folder p belongs to. `disk[p]` is
what is at p, and `Truth(p)` the row a look at all of p would yield.

| variable | code |
|---|---|
| `pending`, `before` | `pending_scopes` and the order of its rowids |
| `active`, `admitting` | `active_scopes`; the claim whose admission is not finished |
| `marker`, `unseen`, `omitted` | `refreshes`, `refresh_seen`, `refresh_admission` |
| `reader` | each grant's helper, with what it has looked at and sent |
| `rows`, `tomb` | `candidates`, `tombstones` (with or without a location) |
| `incomplete`, `limited`, `pressed`, `granted` | `incomplete_roots`, `derived_limited_roots`, `derived_admission_pressure`, `roots` |
| `worker`, `cleanup`, `review` | `scanning` with parking, `begin_mutation` … `end_mutation`, `reviews` |
| `disk`, `unheard`, `historyLost` | the disk, and changes the event source has not delivered yet, or lost |

`Receive`, `ReconcileEvents`, `RequestScan`, `Authorize`, `Reauthorize`, `Forget` queue or drop
work; `Launch`, `Claim`, `BeginRefresh`, `AdmissionFails`, `Read`, `SaveProvisional`, `SaveRow`,
`FinishComplete`, `FinishPartial`, `HelperFails`, `WorkerDone`, `WorkerFails`, `Cancel`, `Park` are
the worker; `MaintainDerived` is retention; `Prepare`, `ReviewExpires`, `BeginCleanup`, `Suppress`,
`QueueCleaned`, `EndCleanup` are a cleanup as the journal sees it; `Restart` is a stop and start,
with or without a new rule version.

A ticket and its marker are created and destroyed together, so generations are left out; kept
paths, statistics and payload bytes (only the number of rows is bounded) are left out; a
candidate's id stands for its path. The constant `Lapses` says which of two lapses of execute may
happen: `"unqueued"` (a stop between hiding and queueing) and `"unlocated"` (a tombstone made for a
row already gone). The properties they break have their own runs; the other runs that need such a
property exclude the lapse, and the theorems about it assume `Lapses = {}`.

### EngineGate, ForegroundScan, ReviewDesk

`EngineGate` is the mutual exclusion of requests, cancellation and the worker: `runtime` and `store`
name the holders of the two mutexes, `asleep` those who wait on `pause_changed`, the flags are the
atomics, `at[c]` is where a calling thread is in `execute`, `cancel_scan`, `launch_scan` and the
rest, `worker` where `run_discovery` is. A section under one lock is one step; a section that takes
a second lock inside first holds the outer one.

`ForegroundScan` follows one finite scan: `fg` is `ForegroundRequest` with its tickets, `saved` the
summaries written, `worker`, `active` and `pending` the background worker that serves it, one action
per section of the runtime lock.

`ReviewDesk` follows callers through `prepare`, `prepare_duplicate`, `check_duplicates`, `execute`,
`keep`, `authorize`, events and cancels over the four mutexes `runtime`, `reviews`, `store` and
`duplicate_state`: `desk[c]` is where a caller is and `mem[c]` what it has read and carries. The end
of an execute is four steps: the item is staged and verified (`Stage`), `mutation_cancel` is read for
the last time (`LookAtCancel`: `cleanup.rs:999` or 595, and `duplicates.rs:732` for a copy), the kept
file or the leaf is compared again (`CompareAgain`), and the native Trash or the unlink removes it
(`Remove`). `cancel_scan` shares no lock with these, so it may set its flag, and return, between the
last look and the removal: `overtaken` is a history variable that remembers the execute this
happened to, and `CancelIsFinal` allows its one item and no other.

### CleanupLedger and RewardWallet

One cleanup after another: the store is locked for a whole execute or restore, so there is one job
at a time, and `Restart`, `Cancel` and `EmptyTrash` may fall between any two of its steps.

| variable | code |
|---|---|
| `op` | `operations`: state, and of its receipt the outcome, `can_restore` and what the detail promises |
| `manifest` | operations with rows in `cleanup_entries` |
| `window`, `alloc`, `coins`, `paid`, `wallet` | `windows`, `allocations`, `earnings`, `wallet` |
| `job`, `cancel` | the running `execute_inner` or `restore`; `mutation_cancel` |
| `place` | where each item is and which operation moved it: the disk |

`job.pc` follows `execute_inner` from `prepare_operation` over the manifest, the rename to the
staged name, the verification, then Trash (`NativeTrash`, `TrashFails`) or removal (`OpenWindow`,
`RemoveLeaf`, `RemovalEnds`, `RemovalStops`), to the receipt (`Allocate`, `AllocationFails`,
`FinishOperation`, `FinishFails`) and the manifest's end (`Tidy`). `Excuse` is the second receipt
that request "execute" writes when an item returns an error. `MarkRestoring`, `MoveBack` and
`RestoreRefused` are `restore`; `Restart` runs `reconcile`.

The items of one request are jobs one after another; identity checks, fingerprints and kept copies
are one success or failure each; the samples of free space are reduced to the growth they support
(`0..MaxGrowth`), known or unknown; the user may empty Trash but does not put an item back by hand;
`reconcile`'s updates are one step, since repeating them changes nothing. `RewardWallet` is the
promise of the repository's README (one chip per 100 MB, smaller amounts carry forward, each chip is
collected once); it knows two numbers, and `CleanupLedger` implements it under
`credited <- wallet.credited, collected <- wallet.collected` (`CounterSpec`).

### ScanHelper and FrameStream

`ScanHelper` has the queue of jobs, what each supervisor does (`sup`), each job's mailbox (`mail`:
`events`, `closed`, `failed`), the coordinator's handle, the flags `aborted` and `started`, the child
process and what the coordinator was told. A supervisor takes a job, starts a child, writes the
request, reads frames (any frames, in any order), waits for both streams' end and the exit status,
reaps the child, and only then publishes a terminal event. `FrameStream` is the same stream as
bytes: a length prefix and a body, cut into chunks anywhere.

### The scanner, the safety checks and the disk

These modules make each system call a step, with other programs writing, renaming, replacing and
linking between any two. A *version* stands for all timestamps of an object (every change makes a
new one), a digest is free of collisions unless the module says otherwise.

| module | what it follows |
|---|---|
| `Traversal` | `ScanSession::scan`: the walk, the lanes, deferred artifacts and their measurement, the rows reported |
| `EvidenceCaches`, `ProjectEvidence`, `WorkspaceGlobs` | what a scan remembers of manifests and locks; who owns an artifact; workspace patterns |
| `GitLayout`, `Revalidation` | which repository Git would use and what is validated of it; the last look before a removal |
| `ScopeProof`, `PinnedRead` | observing one path below a grant; reading a small file and checking an exact child |
| `MeasurementCursor`, `DirectoryReader` | measuring an artifact twice; listing one folder in bulk with its fallback |
| `DuplicateAnalysis`, `StagedCopy` | grouping equal files under a read budget; the last comparison before a copy is deleted |
| `ProbePool`, `DockerRead`, `StorageInventory` | bounded read-only programs; an HTTP answer over a local socket; the overview of storage routes |
| `EventScopes`, `RecentHints` | from an event to a scope; the hints that spare a measurement |
| `ActivityCheck` | the look at all processes and its reuse; the reading of the Info.plist of the apps that run; what stands against a cleanup |
| `ProviderEvidence` | the markers of SwiftPM, Dart, Flutter, Zig, Gradle, .NET, Python and the web that make a folder their output |
| `ManagedReview` | the requests to review an installed tool and to stop, its commands and their judgement; the editor's list of obsolete extensions |

In `Traversal` the look at the processes is kept (`look`): the discovery takes one for the first quiet
artifact, later artifacts and the ends of measurements use it again, a failed one too, until five
seconds have passed (`Expire`; `SCAN_ACTIVITY_MAX_AGE`, `scanner.rs:52`). A failed look withholds
everything. A measurement keeps what it has walked (`seen`) and does not come back to it. So a scan
may offer what has changed since: `OfferedAsFound` speaks of the changes in `noted` only, a history
variable of those that what is still to be looked at will show: the evidence, which is read last; a
use that began when no look was kept, or whose look grew too old while the artifact waited; and what
was written in an artifact before its measurement had been there. The rest is left to the last look
before a removal, which measures again and takes a new look (`Revalidation`).

In `ActivityCheck` one use of each kind of visibility stands for a process, and a path is inside or
outside the location asked about; in `ProviderEvidence` a marker's content is what the adapter looks
for in it. .NET's settings in folders above the project are captured but their folders are not
compared again by `finish`, and the model does the same, so the properties speak of the project's
own markers where they say "all". In `ManagedReview` a request's way through the view, the bridge's
two queues and the engine is step by step, and what `probe.rs` and `docker_read.rs` do for it (their
own modules) is one step with any outcome they have.

### EventDelivery and LibraryView

`EventDelivery` follows changes from the watcher's queue through the bounded mailbox and the drain
to the engine's "dirty", "reconcile_events", "scan" and "cursor"; each `await` is two steps.
`LibraryView` has what the main actor shows: snapshots asked for from many places and applied in any
order, the queue of cleanups, and the balance.

## Runs

| run | instance | properties |
|---|---|---|
| `journal_queue` | two grants, one helper slot, gaps in the event history | `TypeOK`, `HiddenIsOwedALook`; `ScopesAreTaken`: no queued scope starves |
| `journal_shapes` | the journal over three shapes: an artifact inside another, a Cargo.lock with its target, two grants with gaps and both lapses | `PendingAntichain`, `ClaimDiscipline`, `HiddenStaysHidden`, `CoverageIsHonest`, `ShapesAreHonest`, `OnlyLooksDecide` |
| `journal_lapse`, `journal_tombstone`, `journal_abandoned` | one grant, one candidate | three disagreements, below |
| `engine` | gate with three callers; desk with two callers and two files; request over two folders | `GateIsSound` (`MutationIsAlone`, `SleepersAreWoken` and `NoStrandedWork` with three callers), `DuplicatesAreSafe`, `LocksAreSound`, `RequestIsKept`, `CancelIsFinal`, `CompletionIsEarned` |
| `engine_live` | two jobs, one supervisor, two slots; a request over one folder | `StreamIsOrdered`; `JobsEnd`, `RequestsEnd` |
| `gate_live` | two callers that may call anything, "unkeep" too | `MutationIsAlone`, `SleepersAreWoken`; `MutationsAreLetIn`, `CancelEndsWorker` |
| `gate_unkeep` | the same | a disagreement, below |
| `library` | ledger of two items and three operations; one watched folder; two items shown; events at every route | `TypeOK`, `BooksAgree`, `CreditIsEarned`, `LeftoversAreNamed`, `RestorableIsInTrash`, `CounterSpec`, `HistoryIsFinal`; `EventsArrive`; `ViewIsHonest`, `ViewMovesForward`; `ScopesServe` |
| `ledger_restore` | one item | a disagreement, below |
| `readers` | the twenty modules of the scanner, the safety checks, streams, hints, probes and tools | `AnswersWereThere`, `MeasurementIsTrue`, `ListedOnce`, `HelperIsUnderstood`, `ScanIsThorough`, `EvidenceIsSound`, `NothingIsOverlooked` |

A joint property (`CoverageIsHonest`, `DuplicatesAreSafe`, `AnswersWereThere`, …) is a conjunction of
properties that the component modules define and comment.

**Bounds.** In the journal a path holds nothing or something (`MaxVersion` = 1) and changes any number
of times, enough for a row to be stale, missing or left over; `MaxRows` puts the budget at its limit
with the second candidate; `ActiveScans` is the code's 2, and 1 where two grants are to compete;
three paths are the smallest tree with a candidate inside a candidate, and the smallest with a lock
beside a target. `FewUnheard` (journal_shapes) keeps at most one undelivered change in the tree and
the lock at a time; the two grants of `discs` have no such bound. In the ledger a coin is worth two
bytes and an item two or three, so that a credit can earn no coin, one coin, and leave a remainder;
two operations on one volume meet in `open_window_domain`; three operations (all on the cache,
`FewOperations`) let an item be trashed, restored and cleaned again, or fail, be excused and tried
again. Operation ids are symmetric; that run checks safety only. The desk has one change of one file,
one cancel, one grant change and one check: each of them can fall between any two steps of the other
caller, and twice would repeat the first. The gate has no bound but its callers. The readers have
as many changes by other programs as it takes to change and to undo: three for a path and a
measurement (a rename away, a replacement, a rename back), two for a file read in two parts, a
revalidation, a staged copy and a storage route, one for a cache and a duplicate group; three
entries in a folder fetched two at a time; five entries in a walk with one failure or change; two uses of an item in a revalidation, enough
for a hand-over between two looks; projects three
levels deep; patterns of two parts and paths of three; streams of eight bytes; answers of 24 tokens;
two callers and one supervisor of programs. Of two processes and the scanner's own, one that `Init`
chooses uses the location, and the look at them falls anywhere in two units of time with one move;
an app's file changes twice while it is read. A project has the markers of one tool or two and two
changes (the limit on the number of names that are listed is not reached); the editor has two
extensions and one change, and the user asks for two reviews and may stop each. Event delivery has three changes, one restart, one
fault, batches of one and a mailbox of two; the view three acts, one lost answer and three reads.

**Fairness.** `journal_queue` and `journal_abandoned` (`DiscoveryJournal!FairSpec`): the worker is a
running thread, so what it can do next it does (weak fairness of admission, parking and the steps of
a cleanup); a helper's end is strongly fair, since the supervisor's deadline ends a silent helper;
claiming, ending and launching are strongly fair because parking, cancelling and cleanups disable
them again and again, and each is retried by every resume, event and end of a cleanup; rule upgrades
are finite. `gate_live`: a thread that can go on does so, and a mutex that is free again and again
is taken in the end (strong fairness of every thread's next step). `engine_live` (`FairParts`):
supervisors run, the coordinator polls every handle it holds, launches and the second half of a
cancel are running threads, readers end by their deadline, and scopes are taken in the order they
were queued. Nothing is assumed of users, callers, children, the event source or crashes.

**Deadlock** is checked in the runs of one component; the four composite runs have parts that
really end (a scan that is over, a queue of bounded acts) and say `CHECK_DEADLOCK FALSE`.

## Disagreements found

- `journal_tombstone`: `store.rs:1738` says a new refresh "explicitly permits its next observation";
  a tombstone made for a row already gone has no location, is not lifted, and hides what the next
  complete pass reports.
- `journal_lapse`: execute hides a candidate (`lib.rs:1136`) and queues its path in another
  transaction; a stop between them leaves it hidden with nothing queued, which `store.rs:787`
  rules out for the same pattern elsewhere.
- `journal_abandoned`: `lib.rs:1892` promises that claims are retried "at the next worker
  admission"; `launch_scan` returns at line 1809 before recovering when nothing else is pending.
- `ledger_restore`: the site (`DemoPanel.tsx:83`) and the receipt promise Restore while the item is
  in Trash; a stop after restore marked its operation makes it interrupted, and Restore is gone.
- `gate_unkeep`: `lib.rs:2236` says a new durable event "cannot miss its worker"; "unkeep" lifts the
  pause and queues its path without `resume_cancelled_worker`, so a cancelled worker that still
  drains ends and leaves the scope with no worker and no pause.

Seen while modelling, with no statement in the repository to hold against them: a cancel waits for
the store lock of a running cleanup; an item (of a permanent cleanup, a leaf) whose execute has read
`mutation_cancel` for the last time is removed after `cancel_scan` has returned; a path kept between the duplicate query and the registration of
its file is only noticed by the next check; the summary of a request that was cancelled before its
launch and replaced by Resume may stay unsaved; a missing parent may come and go between the two
looks for an exact child; a second folder that is authorized is not queued when the application ends
before its scan request; a repository may move between levels during the last walk when none was
found; Git settings that follow a section's header in the same line are not looked at by
`validate_git_config` (`scanner.rs:3524`); the engine remembers one early cancellation of a review
(`lib.rs:582`), so a stopped review that still waits at the bridge runs after all when the user asks
for a second one and stops it, too (its result is never shown); a scan offers an artifact that has been in
use for less than five seconds, or in which a file was written behind the cursor of its measurement
(a suggestion only, as `scanner.rs:52` says: `revalidate` looks again); and the last look itself
approves an item that two processes hand to each other while `ActivitySnapshot::capture` looks at
them one after the other, though there is no moment when nobody works in it.

## Proofs

Eight modules hold theorems; each `THEOREM` below is checked to its last leaf.

| module | theorems |
|---|---|
| `DiscoveryJournalProofs` | `TypeCorrect`, `QueueIsAntichain`, `HiddenRowsStayHidden`, `LimitedGrantsAreIncomplete`, `ClaimsAreDisciplined`, `LooksDecide` (an action property), `IndexStaysWithinBudget`; assuming `Lapses = {}`, `HiddenPathsAreOwedALook`, `CoverageStaysHonest` |
| `EngineGateProofs` | `GateTypeCorrect`, `MutationsAreAlone`, `NoWakeUpIsLost`; assuming no caller may "unkeep", `NoWorkIsStranded` |
| `ReviewDeskProofs` | `DeskTypeCorrect`, `DuplicatesStaySafe`, `LocksStaySound`, `CancelsStayFinal` (an action property); of `StagedCopy`, `RetainedStaysEqual` |
| `ScanHelperProofs` | `StreamStaysOrdered`; of `ProbePool`, assuming `PoolAssumption`, `NoStrangerIsKilled`, `NoProgramIsLeft`, `WholeOutputOrNone`; of `ActivityCheck`, assuming `ActivityAssumption`, `ClearedStaysIdle`, `IdentifierStaysTrue` (action properties) |
| `CleanupLedgerSafety` | `LedgerTypeCorrect`, `CreditsAreEarned`, `LeftoversStayNamed`, `RestoreIsHonest`, `HistoryStaysFinal` (an action property), `BooksAgreeAlways`, `LedgerImplementsCounter` (the refinement of `RewardWallet`); of `Revalidation`, assuming `LookAssumption`, `ApprovedStaysSafe`, `GitIsNeverLeft` |
| `ForegroundScanProofs` | assuming `ScanAssumption`, `ScanTypeCorrect`, `SavesOnce`, `ServesTheActive`, `CompletesByReaders` (an action property); of `PinnedRead`, assuming `PinnedAssumption`, `BytesAreOfOneMoment`, `ChildStaysAllAlong` |
| `EventDeliveryProofs` | assuming `DeliveryAssumption`, `DeliveryTypeCorrect`, `NothingSkipped`, `NothingForgotten`, `MailboxStaysBounded`; of `ScopeProof`, assuming `ScopeAssumption`, `AnswersStayTrue`, `RecycledStaysApart`, `AncestorStaysBound` |
| `LibraryViewProofs` | assuming `ViewAssumption`, `ViewTypeCorrect`, `RemovedStaysGone`, `ViewNeverStepsBack`, `BalanceOnlyGrows` (the last two are action properties) |

**The journal.** The queue is an antichain because a batch is queued one scope at a time and each
addition drops what it covers. Claims are disciplined only together with what a helper owns (its
claim, its open refresh, an incomplete grant): `ClaimInv`. That a pass decides about a row only after
it looked there needs `PassInv`: a row that is still `unseen` was captured when the refresh began, and
what the helper has sent it has seen. The budget (`BudgetInv`) counts the rows of a finite index.
Coverage is the hardest. That a complete grant misses nothing is not inductive: it says nothing
about the pass that will make it complete. `CoverageInv` says, grant by grant, that where no helper
looks each item is *accounted for* (the index is right, hides it, or owes it another look) and no row
lies inside another (`OutsideIsAccounted`, `OutsideIsFlat`); that nothing encloses what the helper
looks at (`NothingAbove`); that whatever changed behind its back will be looked at again
(`ReadingIsAccounted`); and that what it sent is seen and shown unless it was refused
(`SeenIsReached`, `SentIsShown`). The end of a pass then turns the helper's half into the index's.
Two places of the model were wrong and were found by this proof: a helper's provisional batch is
accepted only while its refresh is open, and a complete pass has read all of its scope.

**The gate.** `GateInv` says who holds which mutex at each place, how the flags follow from the
places, that no two threads are between `begin_mutation` and `end_mutation`, and that whoever is
asleep waits for something that is not there yet. `NoWorkIsStranded` adds `WorkIsAnswered`: queued
work has a worker that will look again, a pause, or a thread on its way to launch one.

**The desk.** `DeskInv` first says which places hold which mutex, and that at most one caller is
between the beginning and the end of a cleanup or a check. From that alone no ring of waiting
callers closes, however many there are: it would need one that replaces a folder (holding `reviews`,
waiting for the store) beside one that checks (holding the store), and neither admits the other. A
kept file is safe because of three facts that have to be told together. What can still remove
something is *standing*: the current reviews and the one in execution (`Standing`); only an
admission adds to it, and what it adds agrees with the rest. Reports are numbered (`TokensAreOrdered`):
a choice can only be admitted from the report it was made from. And a cleanup has dropped the report
before it consumes a review (`EvidenceIsDropped`), so the file a choice was checked to keep cannot go
between that check and the admission (`ChosenStand`). A report is fresh because its files are
registered before they are compared (`ComparedIsRegistered`). A cancel reaches the review in
execution by its generation, or by `mutation_cancel`, or is between the two (`CancelReaches`); the
second flag alone would not do, since `begin_mutation` resets it. An execute goes past its last look
at the flag only while it is down, so it is current then or the cancel is still to set it, and each
cancel that sets it later is noted in `overtaken` (`CommitsAreCurrent`): `CancelsStayFinal` is what
remains true of a cancel that shares no lock with the removal.

**The watched scan.** `ScanInv` says of the stored summaries what became of their requests
(`SavedAsEnded`): nothing is saved of a request before it was attempted, and a request that is over
stays as it is. Each operation on a request is a lemma that it *develops* it (`Develops`): the same
generation and folders, never active again, unchanged once over; so the steps need only say which
operation they apply and whether they persist it. A folder is completed by nobody else because only
a scope of the whole folder has a ticket (`TicketsAreFull`), and a ticket is accepted only by the
request it was given for. That somebody ends an active request is inductive once one knows that
without a worker its folders are still queued, and that a pause comes with a cancel that has not
taken the lock yet (`WaitingIsQueued`). `ScanAssumption` bounds nothing the code bounds otherwise:
requests are for granted folders, and `None` is not a request; the run `engine` evaluates it.
The theorems are about `ForegroundScan` itself, the run's properties about its instance.

**The events.** That the durable cursor skips nothing depends on every cursor that may become
durable, and on the order of the work. `UnreadInv` follows one change that the journal has not been
told of: it lies ahead of the store's cursor, the bridge's, the watcher's first one, the one `refresh`
is saving and the one the drain is sending (`AheadOfCursors`); and as long as receipts can be trusted
it is in the batch that passes it or in one before (`InOrder`), from the work at hand through the queue
and the delayed cursor to the position of the stream. Trust is lost when a request fails and comes back
only with a new watcher, which replays from the cursor, or with a reconciliation, which tells
everything: for that continuation alone the order has to hold while `receiptFailed` is still set
(`Trusted`). `NoneLeft` is why a cursor may be sent when the last folder has answered: with no folder
left every event of the batch is told (`EventsAreHandled`). What the mailbox merges, drops or turns into
a loss keeps the order (`PutInOrder`). `DeliveryAssumption` states the clamps of
`FolderEventIngressLimits` (one event, two batches: with one, a loss could not wait beside the work at
hand) and that the drain's places are not folders; the run `library` evaluates it.

**The view.** A continuation is a composition of functions of the main actor's state (`Applied`,
`Edge`, `Reconciled`, `Started`, `Retired`, `Collecting`, `Polled`, `Reading`), so its proof is one
too: each function keeps `Fine` and may only lead on (`Leads`), and the steps compose. `Fine` relates
that state to everything under way. Reads are answered in the order they were asked for, and the later
one has seen the later state (`AnswersInv`, `QueueInv`): that is why it is enough to compare the number
of a read with that of the last one applied. One cleanup is in flight at a time (`ExecuteInv`), and what
was asked for before it has a number below `applied`, which starting it has raised (`StaleInv`); so no
read that may still be applied has seen the removed item (`GoneInv`). A resolved preview promises no
more than was earned (`ChipInv`), which is all the balance needs when the preview is retired or
replaced. `ViewAssumption` says that `None` is neither an item nor a preview; the run `library`
evaluates it. Nothing bounds the acts, the reads or the lost answers here.

**The helpers.** What a mailbox holds depends on what its supervisor knows. `HelperInv` relates them:
a job waits at one place of the queue or belongs to one supervisor; a mailbox that is not closed
holds no terminal event and has a slot left for one; one that closed well has a reaped child and no
supervisor any more; a supervisor that has read no scope has announced none, and one that is about
to push the end has reaped its child. Every action changes one supervisor with its job, or one job
(`SupervisorStep`, `JobStep`), so the rest is carried over by two lemmas.

**The programs.** `PoolInv` says who has a request: it waits in the queue, or one supervisor works on
it, or it is answered, and never two of these. So the only thread that kills or reaps a program is
the one that started it; a program that is not reaped keeps its number, so a signal cannot meet a
stranger that was given the number later. Failure may be told before the kill, but the supervisor
keeps the request until the program is reaped; output is told only when both pipes were read to their
end, so what was read is all that was written.

**The pair of a review.** A program that writes a file may put its mtime back but not its ctime. So as
long as the ctime of the copy is the one it had when it was opened, and the kept file is as it was
reviewed, the parts that were compared *are* equal, not only were so (`ComparedIsEqual`); the last
two checks establish the premise at one moment, and so the conclusion of all parts.

**What is read through a path.** `PinnedInv` has the same form: whatever was found out is true of the
file or the folder as long as its version is the one it was described with (`FileIsPinned`,
`ChildIsPinned`). Its version is only looked at from time to time, so a claim that the versions *are*
equal would not be inductive; a claim under that premise is, since every change of another program
gives new versions to what it changes (`WorldMoves`). The last look at the name makes the premise
true, and `NowHasBeen` says that what is at the path at that look has been there in the call.

**The ledger.** None of its invariants is inductive alone: what a receipt says is only right because
of where the running job is. `LedgerInv` adds where the job's item is at each step (`JobPlace`), what
a verdict may claim (`JobVerdict`), which row, window and manifest the job has (`JobRow`), that a
moved item was moved by an operation on that item (`Placed`), that unused ids have no credit
(`FreshRows`), and that only trashed or restoring rows say "trashed" (`OfferedByTrashed`). The books
are sums over operations, and induction over data is out of the provers' reach: `BooksInv` counts
instead the set of units (o, n) with n below the bytes credited to o, whose cardinality is the sum,
and uses the library's theorems about cardinality.

**What is observed below a grant.** `ScopeInv` says of each thing the observer learned under which
premise it still holds: what a directory was found to hold, as long as its version is the one it was
opened or observed with (`FirstIsThere`, `ObservedFits`, `FoundFits`). At the validation the version
may have moved already; so the claim about what was at the path then is made under the premise that no
directory has been touched *by now* (`WitnessFits`), and the last comparison makes that true. A number
identifies a leaf only together with its version: of two leaves with one number the later one is the
newer (`VolumeIsSound`), and one whose number was given away is gone for good (`NumbersTellApart`). The
leaf under change is the one first seen because its folder is as it was when it was opened, so both
looks saw the same entry. The proof found that the model freed a number although another folder still
held the leaf; it is free only when its last link is gone (`MoveLeaf`). The tree is that of the model,
of a depth of two; the changes and the attempts are not bounded.

**The last look.** Git answers about the moment it read the index, and `unchanged` compares only now
and then. `LookInv` says what is known under a premise: as long as the index is the one that was
captured, it tracks what it tracked at the capture, the bytes in the pipe are git's answer about it,
and after an empty answer that it tracks nothing (`AnswerIsKept`). The last comparison makes the premise
true. That nothing was tracked *meanwhile* follows, since a program that stages something makes an
index that was never there before (`RepositoriesMove`). What the walk of the last look has passed was
free of a repository at a moment of that look, and a use that was looked at, or that was not listed,
was not made at a moment of it (`LastLookSaw`). Each has its own moment: the processes are listed once
and looked at one by one, so the theorem does not say that the item was ever idle, only that no
process that has worked in it since before that look is overlooked; what is new in the meantime may be.
The properties are those `readers` checks of this part; the theorem is for any number of uses, levels
and changes.

**Who uses it.** While the processes are looked at one by one they start, exit and move, so a look is
true of no single moment. `ActivityInv` speaks only of a process that has been doing the same since
before the look (`Steady`): it is still to be looked at or its program and folder were seen
(`LookFits`); and of an app whose Info.plist was last touched before the look (`Lasting`): it is left,
being read, or its identifier is known (`OwnersFit`). Neither premise ever becomes true again, since
whoever moves or writes does so now. A look is reused only while it is younger than `MaxAge`, so what
stands against a cleanup for that long is steady or lasting when it is decided. That an identifier was
there rests on the same device as a last look: what was read is that of the file that was looked at,
as long as its version is the one that is there (`AsItWas`, `ReadFits`), and the last comparison makes
the premise true. Both theorems are for any number of processes, apps, changes and moves.

**Assumptions.** The named `ASSUME`s of the models (the shape of the tree, the grants and the bytes;
a coin is worth at least one byte; at least one slot in a mailbox; bounds are numbers; `None`, `"none"` and `Nobody` are
nothing else), and the operators `ScanAssumption`, `DeliveryAssumption` and `ViewAssumption`, all evaluated by TLC in
the runs, and `PoolAssumption`, `PinnedAssumption`, `LookAssumption`, `ScopeAssumption`,
`ActivityAssumption` (`None` is nothing else and owns nothing, a limit is a number, a look may be reused for
some time, the levels are counted from one), which
hold of the runs' model value `None`. `Lapses = {}` and "nobody may unkeep" exclude exactly
the lapses that `journal_lapse`, `journal_tombstone` and `gate_unkeep` show to break the property.

**Only model-checked.** Liveness (`ScopesAreTaken`, `MutationsAreLetIn`, `CancelEndsWorker`, `JobsEnd`,
`RequestsEnd`), which needs fairness and ENABLED. The properties of the modules with recursive
operators (`DockerRead` and `StorageInventory`). `ViewSettles`, the second half of `ViewIsHonest`: it
is about everything having come to rest. The others of the composite runs (`ShapesAreHonest`,
`GateIsSound`, which are about more instances of what is proved; `ScopesServe`, and those of `readers` except
`ProbePool`, `StagedCopy`, `PinnedRead`, `Revalidation` and `ScopeProof`) have no proof yet.

## Not modelled, and why

Of `scanner.rs`, the evidence of everyday tools and the tables of names; of `managed_providers.rs`,
`project_providers.rs` and `editor_review.rs`, the wording and the details of formats; of
`lock_facts.rs`, the parsers below the level of keys; `model.rs` is records. The command line, the update controller, disk access and the
views of the application, the site, the release scripts and the benchmarks are not part of the core.
The components of `PROJECT.json` say for each part what is left out.

## Plan

1. Proofs about the modules of the readers that are about one pass over changing objects
   (`ProviderEvidence`, then `MeasurementCursor`).
2. More of `store.rs`, `lib.rs` and `scanner.rs`: retention in detail, the evidence of everyday tools.
