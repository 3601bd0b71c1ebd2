# warpseed in TLA+

Specifications of warpseed, an SFTP transfer client: a Go backend (Wails) with a persistent transfer
queue, and a React frontend. The models are written from the source; comments and tests of the
repository are used only as statements to check.

Six parts are specified: the dispatcher and the transfer rows, the admission of rows to a budget of
connections, the two transfer engines, the sites with their browse sessions and host keys, the queue as
the frontend mirrors and operates it, and the file panes. All are model-checked; their safety is also proved,
for every number of rows, sites, files, folders, cells and bounds.

## 1. The system

| Part | State it keeps | Operations | Talks to |
|---|---|---|---|
| Transfer rows (`internal/queue/transfers.go`) | SQLite table: state, bytes, attempt, retry deadline, conflict | enqueue, claim, progress, finish, retry, requeue, cancel, clear | everything; one connection, so one statement is one step |
| Dispatcher (`internal/dispatch`) | `cancels`, `requeue`, `slots`, `perSite`, `granted`, `activeDst` under `d.mu`; `paused`, `stopping` atomics | pump, runTransfer, release, finishWithError, discards, Pause, Resume, Cancel, SetPaused, Stop | rows, engines, dialling, events |
| Admission (inside the dispatcher) | reservations per transfer, site and in total; ceiling a server was seen to enforce | streamsFor, fits, clampToGranted, resize | settings, sites |
| Engines (`internal/engine/sftpfast`) | placeholder files `.wspart`, `.wschunk`; chunk checkpoints in the database | linear and chunked download and upload, resume verification, publication | disk, server, chunk rows |
| Enqueueing and conflicts (`app.go`, `conflict.go`) | held rows | classify, hold, rename, resolve | rows, disk, server |
| Clearing rows (`app.go`) | none | Clear done, Clear failed with their placeholders | rows, disk, server |
| Sites, sessions, credentials (`app.go`, `queue/sites.go`) | site rows, browse sessions, keyring | connect, keepalive, evict, delete | server, prompts |
| Host keys and prompts (`internal/hostkeys`, `internal/events`) | pins; waiting prompts | trust on first use; ask, resolve, time out | frontend |
| Close guard (`app.go`) | `quitting`, `closePending`, `closeAcked` | beforeClose, ack, confirm, cancel | frontend, dispatcher |
| Queue list and dock (`store.ts`, `QueueDock.tsx`, the views) | transfer list with tickets and patches, pause flag, selection, confirmation | refetch, patch, coalesce; row and bulk buttons | events, Wails calls |
| Folder tree (`DirTree.tsx`, `treeCache.ts`) | remembered children, open branches, generation | list, invalidate, purge | sessions, events |
| File panes (`FilePane.tsx`, `usePaneNav.ts`, `usePaneSort.ts`) | source, path, listing and its cache, history, sort, filter, selection, prompts | navigate, list, sort, rename, create, delete, transfer | files, events, preferences |

What makes it hard: the pump, a goroutine per transfer, a watchdog per transfer, background discards
and every Wails call run concurrently; the rows are read in one statement and acted upon in a later
one; user intent is written first and enforced afterwards by stopping a goroutine that may be stuck
in the network; the process may be killed anywhere; placeholder files are addressed by destination,
so rows can hurt each other through them; and everything the frontend shows was asked for earlier,
answered late, and is acted upon later still.

What correct means, per component:

- rows: a user's pause or cancel stands; attempts are bounded; no row is stranded active.
- dispatcher: one writer per file; a queue pause or a shutdown stops everything and is never a
  failure; a discard never deletes what somebody may resume and never forgets what it left behind.
- admission: caps hold, order within a lane holds, everything that fits an idle site runs eventually.
- engines: a published file is complete; a resume trusts only bytes that reached the disk; no leftover
  makes a row fail for ever.
- enqueueing: nothing overwrites a file the policy decided to ask about; names do not collide.
- clearing: a row goes only with its data; data goes only when nobody owns it.
- sessions, keys, prompts: one session per site, never torn down by news about an older one; a key is
  pinned once and only with consent.
- close guard: a dialog that is on screen is never overridden by an older timer.
- queue list: it converges to the rows, never goes back, and destroys nothing unasked.
- folder tree, panes: what is remembered of a folder was read after the last change announced; an
  operation names rows of the listing, folder and source the pane is on.

`PROJECT.json` lists every component with what is modelled, and the hazards line by line.

## 2. Modules

| Module | Contents |
|---|---|
| `Dispatcher` | Rows, reservation table, pump, runners, discards, user calls, shutdown, crash, relaunch; fairness; properties; the inductive invariant. |
| `TransferLifecycle` | What the queue promises about a row, with the goroutines left out. `Dispatcher` implements it with `held <- cancels`. |
| `DispatcherProofs` | Invariants of `Dispatcher`, checked by TLAPS. |
| `DispatcherRefinement` | Extends `DispatcherProofs`: its action properties, and that it implements `TransferLifecycle`. |
| `DispatcherData` | Extends `DispatcherRefinement`: that no data is forgotten. |
| `AdmissionProofs`, `SessionsProofs`, `QueueProofs`, `EnginesProofs`, `FilePanesProofs` | Invariants and action properties of `Admission`, `Sessions`, `QueueDock`, `Engines` and `FilePanes`. |
| `Admission` | Lanes, caps, the width a row is given, the ceiling of a server, and the dials of a run. |
| `Engines` | The engine choice of `runTransfer` and both engines, on the files of one destination. |
| `Sessions` | Sites, browse connections, host keys, prompts and the folder tree. |
| `QueueViews` | The orders and selections the queue is shown and claimed in: operators without state. An order is the function from a row to the rows before it. |
| `QueueMirror` | Extends `QueueViews`: rows, events and list reads against the list on screen. |
| `QueueDock` | Extends `QueueMirror`: the dock's selection, buttons, dialogs, and the views. |
| `PaneListing` | Paths, sorting and filtering of a listing: operators without state. |
| `FilePanes` | Extends `PaneListing`: the two panes. |
| `MCDispatcher`, `MCAdmission`, `MCEngines`, `MCSessions`, `MCQueueDock`, `MCFilePanes` | Instances for TLC. |

The modules meet at their borders and not in one state space: `Engines` relies on what
`Dispatcher!OneWriterPerFile` establishes (attempts on one destination take turns), `Dispatcher`
leaves open what `Engines` decides and which rows `Admission` lets in, `QueueMirror` has the dispatcher as the frontend can see it
(writes, and what each announces), and `FilePanes` sees `Sessions` as a site that answers or fails.

A scene (a constant `Scenes` of five of the modules) is a small setup: what exists at the start,
which buttons the user may press and how often, which failures there are. Every behaviour belongs to
one scene and keeps it, so a run checks many small products of causes instead of their full product.

### Dispatcher

A step is one SQL statement, one critical section of `d.mu`, one atomic flag, or one file
operation. These are exactly the points where the goroutines interleave: the store opens one
connection, `d.mu` is never held across a store call, and nothing else is shared.

| Variables | Code |
|---|---|
| `state`, `hasBytes`, `attempt`, `backoff` | the row: `state`, `bytes_done > 0`, `attempt`, `next_retry_at` in the future |
| `setting`, `paused`, `stopping` | the setting `queue.paused`; the two atomics |
| `part` | the placeholder of a file: absent, empty, with data |
| `cancels`, `ctxDone`, `requeue`, `activeDst` | the maps of the dispatcher; `ctxDone` is a cancelled context |
| `pumpPc`, `todo`, `cur` | the pass of `pump`: the list it read, and the row between registration and spawn |
| `pc`, `err`, `runAttempt`, `done`, `tail` | a `runTransfer` goroutine: where it is, what the engine returned, the snapshot it holds, its live count; and goroutines past release that still read their row back |
| `disc` | `discardPartials`, by who runs it: the runner itself, release's background sweep, a cancel's batch |
| `click`, `toggle`, `stopPc`, `launches` | Wails calls on rows, calls of `SetPaused`, `Stop`, number of starts |

Actions carry the names of the functions they model. `pump` is ten actions from `PumpEnter` to
`PumpSpawn`; `runTransfer` runs `DialOk`/`DialFails`, `OpenPart`, `WriteBytes`, `PersistProgress`,
then `EngineSucceeds` and `Complete`, or `EngineFails`, `FinalProgress` and the parts of
`finishWithError` (`FinishStopped`, `ReadMark`, `RequeueRow`, `SettleAgain`, `Ladder`, `Settle`), or the
restart after lost chunk state (`DropLostPart`, `ResetLost`, `Restart`); every path ends in `Release`
and `Tail`. Clicks on Pause and Resume are two steps because their statement carries no guard: the
user acts on the screen, and the write lands later. Cancel, Retry failed and Enqueue carry their guard
in SQL and are one; `Cancel` takes a set of rows. `Relaunch` is the end of the process by a crash or after `Stop`, together with
`RecoverInterrupted` and `New` of the next start.

Abstractions, all of which only add behaviour unless stated:

- Byte counts are "some" or "none", every file has at least one byte, and one placeholder stands for
  `.wspart` and `.wschunk`. Which of the two an engine keeps is the subject of `Engines`.
- Whether a row fits the connection caps is open (`PumpSkip`; `Admission` decides it); so is what the
  network does.
  `DialFails` also stands for the requeue of a part-transferred file that was granted one connection.
- `Wake` is not modelled: the pump runs at least every two seconds anyway.
- The rows of one batch discard are handled concurrently; the code takes them in turn. At most one
  discard per row and origin is in flight.
- Conflict holds, priorities and the clearing of rows are left to `QueueMirror`; two rows with
  one destination have different sources, which is what the duplicate check of `EnqueueTransfer` lets
  through. The state `dispatched` exists in the schema and no code writes it.
- `DbErrors` lets the state write of a claim, a requeue, a retry, a failure or a completion fail.
  Reads and progress writes are taken to succeed.
- The removal of a lost chunk part (`DropLostPart`) may always fail, and nobody looks (dispatcher.go:869).
  `DropsFail` lets the removal of the other engine's leftover fail as well (dispatcher.go:801, :803).
  Since one placeholder stands for both, such a leftover counts as gone once the file is published, which
  leaves behaviour out: a `.wschunk` nothing points at beside a completed file.

### TransferLifecycle

Ten moves of a row: a holder takes it (one holder per file), starts it, fails it, retries it with
attempts left, completes it, lets it go; the user enqueues, pauses, resumes, cancels, retries; rows
that are active and not held are healed; a relaunch requeues. `Dispatcher!LifecycleSpec` says every
behaviour of the dispatcher is one of these. The table is what `queue/transfers.go` spreads over its
guarded statements and their comments.

### Admission

A step is one read of the database, one critical section of `d.mu`, or one dial.

| Variables | Code |
|---|---|
| `budget` | `transfers.global_max`, `transfers.site_max`, a site's `max_transfers` (`own`), and the lanes of a large file per direction |
| `state`, `attempt`, `backoff`, `plan` | the row; `plan` is a saved chunk plan with transferred bytes |
| `slots`, `perSite`, `activeN` | the counters under `d.mu`; a row with slots is a registered one (`cancels`) |
| `granted`, `fresh` | the observed ceiling of a site, and whether it is younger than `grantTTL` |
| `pump` | a pass: rows left, caps as they were read, blocked lanes, the width asked for |
| `at`, `asked`, `conns` | `runTransfer`: where it is, `streams`, `len(clients)` |

A pass is over when its rows are looked at; `First` is the next one and `Onward` drops it. `Counted` is a sum
written as the size of a set: the connections of a row are the pairs of the row and a number.

`PumpList` reads the rows, the cap in all and the default per site; `PumpLook` reads a site's own cap once
a pass, and in `StreamsFor` the lanes and the cap in all once more; `PumpAdmit` is the section under
`d.mu` with `ClampToGranted` and `Fits`; `PumpClaim` or `PumpLoseClaim` follow. The settings may change
between any two of them (`SetBudget`). A run is `DialOne` until `asked` or `DialRefused`, `Resize` if it
fell short, `ChunkPlan` (a part-transferred file that was given one connection goes to the error path,
dispatcher.go:783-795), `Completes` or `CopyFails`, `Settles`, and the deferred `CloseAll` and `Release`.

A row is `wide` if its size passes the threshold of its direction; `dst` is what `dstKey` makes of it.
The server is a number of connections it grants to one dialling row (`burst`) and to all (`limit`).
Rows of a `stream` come again for ever. The queue-wide pause, shutdown and holds are `Dispatcher`'s and
`QueueMirror`'s; an engine that drops the plan by itself (a source that changed, a server that cannot
preallocate) is in `Engines`.

### Engines

A file is a sequence of cells; a cell holds the tag of the source version it was copied from, or
`Hole`. A cell is as large as the window (`resumeVerifyBytes`) a resume reads back, so the check of a
range reads its first and its last claimed cell and nothing between.

| Variables | Code |
|---|---|
| `source` | what a row reads: its content (tag), length, mtime |
| `row` | `src_mtime` and the chunk rows of a transfer; `open` while it is not completed |
| `wspart` | the linear placeholder: a prefix, and the time its machine stamped it with |
| `wschunk` | the chunk placeholder: `data` is what a reader sees, `disk` what survives a crash of its machine |
| `final` | the destination |
| `run` | the attempt: streams asked for and connections granted, its step, a lane per range with its count, whether the connections are dead; `adopted` is a history (below) |

`Start`, `ChunkPlan`, `SourceChanged`, `Ranges`, `ClearLeftovers`, `DropPlan` are `chunkPlan` and what
follows it in `runTransfer`; `OpenChunked` (`Resume` or `Prepare`), `CopyCell`, `LastCommit`, `Sync`,
`Checkpoint`, `LanesReturn` the chunk engine; `OpenLinear`, `CopyOn` the linear one; `Publish`, `RemoveOld`,
`Finish` the rename and what follows it; `ChunkStateLost`, `RemoveLostPart` the restart without
checkpoints. What goes wrong is `Stopped`, `AttemptFails`, `CopyFails`, `SyncFails`, the end of the app
(`AppDies`) or of the machine that holds the placeholders (`HostDies`, `ServerDies`), fewer connections
granted than asked for, and a source replaced between two attempts (`Replace`). Each fault counts
against the scene's `faults`. The mtime a plan was made for is a write of its own and may fail (`SavePlan`).

A new source has a newer mtime, the same or an older one (`times`). An upload resumes a part that does not seem
older than its source (`NotStale`); the code allows two seconds, and compares the clock of the server with
the time the source carries, so the model compares with the scene's `slack`, which may be negative.
`run.adopted` records that a linear attempt set out from a part of another source that length and time let
pass (`Passes`, written apart from `ResumeOffset`).

A worker that pulls ranges from a channel is a lane per range: there are as many workers as ranges
unless fewer connections were granted, and then the ranges wait, which a lane that is not scheduled
does too. A write that pkg/sftp splits and pipelines is one cell.

### Sessions

| Variables | Code |
|---|---|
| `sites`, `queued`, `pins` | the tables `sites`, `transfers` (by site, cascading), `hostkeys` |
| `sessions`, `clients` | `App.sessions`; connections that are open, registered or not |
| `connects`, `keepers`, `call` | `ConnectSite` calls, `keepAlive` goroutines, and one `DisconnectSite`, `DeleteSite` or `SaveSite` |
| `waiting`, `dialogs` | the channels of the prompt broker; the queue of `HostKeyDialog` |
| `wire`, `listed`, `conn` | events under way; the sites and connection states of the window |
| `sidebar`, `children`, `failed`, `expanded`, `lists` | the folder tree: its site, its cache, its branches, its listings under way |

`children` is `read`, or `old` when it was asked for before the cache was last purged: the state the
generation check exists to exclude. `trusted` is a history of the prompts answered with trust.

### QueueViews, QueueMirror, QueueDock

| Variables | Code |
|---|---|
| `rows`, `due`, `holding`, `paused` | the table; retry deadlines passed; rows whose hold is yet to be written (`due`) and, as a history, those that had run by then (`late`); the pause |
| `calls`, `out`, `wire` | Wails calls under way; announcements of writes not yet emitted; events in order |
| `reads`, `ticket`, `timer` | `transfersList()` calls, `refreshTicket`, the coalescing timer |
| `view`, `patches`, `progress` | `transfers`, `patches`, the live counts |
| `uiPaused`, `hydrate` | `queuePaused` and its first read |
| `selected`, `anchor`, `confirm`, `suppressed`, `reply`, `viewMode` | the dock, the confirmation, the view |

A row written by a runner is announced by that runner, in order; those of different goroutines
overtake one another. `viewVer` and `viewDue` record what the list was derived from, and `unheard`
that the last word was one the code announces to nobody (a pause of a waiting row) or a read that
failed. A list is a `Window` of the table (transfers.go:143-223): every row in flight, the
pending rows claimed next, the newest failed ones and the newest completed and cancelled ones together, up to
`PendingCap`, `FailedCap` and `FinishedCap` (2000, 500 and 200 in the code). `QueueViews` has `PendingTransfers` (the order of the pump) and the frontend's `claimOrder`,
with the rows each view counts as queued, active, failed.

### PaneListing, FilePanes

| Variables | Code |
|---|---|
| `disk`, `changes`, `wire`, `calls`, `dials` | what exists; changes by transfers; `fs:changed`; file calls; awaits that end in `setPane` |
| `panes`, `active`, `confirm`, `suppressed` | the store |
| `loads`, `nav`, `cache` | `usePaneNav`: generations, what is loaded, history, `listingCache` |
| `sort`, `mirror`, `hydration`, `touched` | `usePaneSort`, the preferences as read and as kept |
| `sel`, `prompt`, `timer` | `FilePane`: cursor, marks, filter, menu; the name prompt; the reload timer |

A React render and its effects follow the state change that caused them before the next event is
handled, so they belong to that step. The history keeps `HistoryCap` folders (50 in the code). A listing's own
path is the one that was asked for, because both backends clean a path and give it back (localfs.go:76, client.go:177).
`missed` is a history of events the code ignores on purpose.

## 3. What TLC checks

| Run | Instance | Properties | Shows |
|---|---|---|---|
| `DispatcherRow` | 1 row, 1 user, enqueue, pause, resume, cancel, retry; 2 attempts; 2 launches; removals may fail | `TypeOK` `ActiveHasRunner` `LadderBounded` `IntentStands` `DiscardSparesRows` `LifecycleSpec` | the life of a row under every button, failure, lost chunk state and a crash |
| `DispatcherShared` | 2 rows, pause, cancel of one or both, cancel queued; shutdown; 1 attempt; state writes may fail | `OneWriterPerFile` `NoForgottenData` `StopOutlivesDiscards` `DiscardSparesWriters` | rows that share a placeholder, and a shutdown that waits for their discards |
| `DispatcherLive` | 1 row, 1 user, pause; 1 toggler; shutdown; 1 attempt; 1 launch; state writes may fail; fairness | `StoppedMeansStopped` `PauseMirrored` `StopIsNotFailure` `HealSparesRunners` `StopFreesSlot` `ShutdownDrains` | the queue-wide pause and the shutdown against everything else: stopping always ends, and is not a failure |
| `Admission` | 8 scenes, 3 rows, 2 sites, 2 attempts, budgets of 2 to 4; fairness | `TypeOK` `CapsHold` `PlanKept` `EveryRowGetsItsTurn` | the counters return to what is reserved, caps hold, shortages cost no plan, nobody waits for ever |
| `Engines` | 19 scenes, 5 cells, 2 lanes, 1 or 2 rows for one file; fairness | `TypeOK` `PublishedIsWhole` `ResumableIsKept` `EveryRowArrives` | what is published is whole but for adopted parts, what is claimed is kept, every row arrives |
| `Sessions` | 7 scenes, 1 id, 2 keys, 2 overlapping connects, 2 sidebars | `TypeOK` `NoLeakedSession` `PurgedTreeStaysPurged` `WorkingSessionStays` `NoPinUnasked` | connections, pins and the tree across deaths, prompts, deletes and recycled ids |
| `QueueDock` | 24 scenes, 3 rows, windows of 2 pending, 1 failed, 1 finished; 2 reads, 1 call; fairness | `TypeOK` `QuietIsCurrent` `ViewsMatchQueue` `ListNeverRewinds` `AsksFirst` `MirrorSettles` | the list converges and never goes back; nothing is destroyed unasked |
| `FilePanes` | 10 scenes, folders 1 and 4, files 2 and 3, 2 sources, 2 loads per pane; fairness | `ListingCatchesUp` `PrefIsTheUsers` `ActsOnListedRows` `UpLandsOnFolderLeft` `PaneSettles` | a listing always catches up; an operation names rows of the listing the pane holds |

The types of the panes are proved (section 4) and not run. Each property of a passing run has a mutant of the code in `PROJECT.json` (a dropped guard, an
unpersisted flag, a missing watchdog, a checkpoint before its sync and so on) that violates it.

Bounds, and why they are enough:

- Dispatcher: `Ids` (rows), `MaxAttempts` (the code's 3; 2 is the least value with both a retry and a
  last attempt), `MaxLaunches` (2 is one crash and one relaunch), the sets of users and togglers, and
  `Ops`. The instances with fairness are small: the queue-wide pause with retries and crashes is left to the
  theorems of section 4. Every instance has one file: rows interact through files and through nothing else once the caps
  are left open. One row suffices for a row's own life, and two for a shared file because every guard
  on files is pairwise.
- Admission: three rows are one that runs, one that waits and one that could pass it. Budgets of 2 to 4
  connections with 2 to 4 lanes give requests that fit alone, together, or not beside another; `burst` 1
  and 2 are the two sides of the least chunked width, `limit` 3 a server two rows compete for. Two
  changes of the settings may fall into one pass. Faults and attempts as for the dispatcher.
- Engines: 5 cells on 2 lanes give a range of 2 and one of 3: a remainder, and a cell the resume check
  does not read back. One or two faults per scene are one failed attempt and a second in its
  recovery; the code has no state that counts further. Up to two replaced sources, so that a stale
  leftover meets a stale plan. Times count from 2, so that there is an older one; a slack of 1 covers one
  replacement and not two, and -1 makes a part seem older than it is.
- Sessions: one id is enough for two sites, since it is handed out again (`SaveSite` after
  `DeleteSite`); two overlapping connects are one pair. `MaxLists` 2 and `MaxWire` 3 let an answer and an
  event be overtaken. `presses` bounds the user, and with it the calls.
- Queue: three rows are one more than any window, and two make an order and a range; `MaxReads` 2 lets one read overtake another; a third adds
  nothing because only the newest ticket lands. `MaxCalls` 1 bounds the calls the user has under way,
  not the backend's own writes. `writes` and `presses` bound the length of a behaviour.
- Panes: a folder in a folder, a file in each, two sources, and two listings in flight per pane, for the
  same reason as for the queue. `HistoryCap` 2 drops the oldest folder on the third. `changes` bounds what transfers put on disk.

The deadlock check is off in every run, because each of these systems really may stop: an idle queue,
a closed app, a destination whose rows have all arrived, a window nobody touches.

Fairness, and why the code justifies it:

- `Dispatcher!Fairness`: the pump runs on a two-second ticker; every goroutine is scheduled, so
  unwinding, discards, the follow-up of a click, `SetPaused` and `Stop` go on; a retry deadline passes.
  The engine gets none while its context lives, since a network may stay silent for ever. Once the
  context has ended, the watchdog closes the connections and the engine must return
  (`EngineReturns`). No fairness is given to the user or to the closing of the app.
- `Admission!Fairness`: the pump comes round on its ticker, a runner goes on and its engine ends, a retry's
  deadline passes. That an engine ends is an assumption: what waits behind a transfer that never
  ends waits as long (`FindGrantExpires` drops it for one row). Nothing makes the ceiling expire.
- `Engines!FairSpec`: an attempt that can go on does; a row that is started again and again eligible
  gets its turn (strong fairness of `Start`), which is what the dispatcher's order by priority and
  age gives it. Faults are bounded, so this says that no leftover stops a row once the faults end; the
  retry ladder, which may give up before, is the dispatcher's.
- `QueueDock!Fairness`: what was written is emitted, what was emitted is delivered, a list read is
  answered and its promise settles, a timer fires.
- `FilePanes!Fairness`: a listing is answered and its promise settles, a timer fires.
- `Sessions` states no liveness and no fairness.

### Runs that end in a violation

Each states what a comment, a dialog or the user guide says and is violated by what the code does.

- `FindReenqueueUnlink`: between the ownership check of a discard and its unlink lies a dial of up to
  30 seconds; a row enqueued for that destination meanwhile is unlinked while it writes.
- `FindSplice` (`PublishedIsTheSource`): a linear download continues whatever placeholder it finds that is
  short enough. Two rows with different sources for one destination, or one row whose source was replaced
  between two attempts, publish the head of one file with the tail of another.
- `FindPatchLost`: a patch of a row's state is stamped with the ticket of the newest read, and only the newest
  read may land, so the list that lands always finds the patch too old and drops it (store.ts:141, :145,
  :169). A state received while a list is read is rolled back by that list, and comes back with the read the
  next `queue:changed` asks for.
- `FindGrantExpires`: a row runs for hours on two of the four connections it asked for. The observation
  that would let the next row ask for two expires after two minutes (dispatcher.go:386-389), long before
  that run ends; the row asks for four, does not fit, and blocks its lane. The comments at
  dispatcher.go:111-118 and :371-375 say that this is what the observation prevents.

### Where the properties stop

These were found by running the properties on wider instances, or met while reading. They are
consequences of windows the code's comments mostly acknowledge, and they are why the instances and
the exemptions in the properties are what they are.

Dispatcher:

- `DiscardSparesRows` fails with two users: a pause clicked before and written after another user's
  cancel revives a row whose discard is already past its check (see the next item).
- A pause clicked on an active row lands after the row completed: `Pause` writes without looking
  (dispatcher.go:1128-1134), the finished row reads paused, and a resume transfers it again.
- `StopIsNotFailure` fails when a resume overtakes a stop: a row registered, paused and resumed before it is
  claimed is claimed for a run that is stopped already; and a resume between a pause's write and its stop
  (dispatcher.go:1129, :1133) lets the stop hit the next run. The stop then counts as a failure.
- `NoForgottenData` fails in four ways. `release` gives the registration up and reads the row back
  afterwards (dispatcher.go:630-655): retried in between, the row is claimed and runs again; a cancel then
  lets the first run's read-back start a discard under the second runner, which asks for other owners only
  and zeroes the row's new count (:1241). A resume that lands while the row's run is still unwinding, or
  its discard under way, lets the next run start from a list read before the bytes were recorded. And a crash
  under a runner loses what the last seconds wrote (the count is persisted every few seconds). And a lost chunk
  part whose removal fails stays on disk while its row is requeued with a count of zero (dispatcher.go:869-880
  ignores the answer, although the comment at :503-505 says the caller needs it); a cancel before the next run
  forgets it. An open from zero over the other engine's leftover it could not remove (:801, :803) does the same.
  `DispatcherShared` has one attempt, no resume, no crash and `DropsFail` off for that reason; section 4 has the
  theorem for the rest.
  Empty placeholders are not counted.
- Of two clicks on Pause, the second may revive what the first one's discard is about to delete; resuming a row
  of the file or enqueueing for it does the same (`FindReenqueueUnlink`).
- `PauseMirrored` and `HealSparesRunners` fail with two concurrent `SetPaused` calls; the frontend
  disables nothing while one is under way, but the button shows the flag it toggles.
- A discard that leaves shared files to another row returns (dispatcher.go:1198) before it clears its own
  row's byte count, which the comment above it (dispatcher.go:1161-1164) expects; the row shows the
  count until Clear done.
- `Stop` may answer that everything has finished and a runner starts afterwards: `running.Add`
  (dispatcher.go:362) comes after the claim and is not ordered against the wait (dispatcher.go:547-555).

Admission:

- `Wake` runs before `release` (dispatcher.go:659-660), so a pass it triggers may still find the slots
  taken; the next one comes with the ticker. With fairness of the pump that costs time only.
- Only rows of the same lane are kept from passing a row that waits. Wide rows of the other direction
  or of another site that keep coming can hold up one that waits for most of the budget.
- A stop between two dials leaves fewer connections than asked for, and `resize` takes their number for
  the server's ceiling (app.go:193-201, dispatcher.go:694-696, :540-542) until the site idles or two
  minutes pass.
- The ceiling is kept per site and used per transfer. A server that limits the total refuses the first
  connection of the next row, which then uses up its attempts while the first one runs: it gets its
  turn, and fails.
- The cap of a site is its own if it has one and the default otherwise; the default is read when the pass
  begins (dispatcher.go:271) and a site's own when its first row is looked at (:293-299). If the settings change in
  between, what is admitted is within a default and an own cap that never applied together. `CapsHold`
  takes the caps one by one (`PassCaps`).
- `PlanKept` exempts settings that leave a row fewer than two connections: one lane is the linear engine,
  and the chunks transferred so far go.

Engines:

- `ResumableIsKept` exempts an attempt whose `chunkPlan` could not look at the source (`run.blind`) and
  one asked for a single stream: both go to the linear engine and drop the part-transferred chunk file
  (dispatcher.go:965-991), although the comment at dispatcher.go:783-790 means to keep it.
- A resume does not read back the middle of a range. Nothing in the model corrupts it, except a server
  that crashes and loses writes in any order; the scenes with a chunked upload assume that it loses the
  latest of each range.
- `PublishedIsWhole` exempts linear attempts that adopted another source's part (`run.adopted`): these publish a
  splice. For a download length is all there is to tell (`FindSplice`). An upload compares times, but across
  two machines and with two seconds allowed (upload.go:53-58): a source replaced within the slack, one copied in with
  an older preserved time, or a server whose clock is ahead lets the old part pass as "a part we plausibly wrote"
  (upload.go:48-51). Everything else, the chunk engine throughout, must publish the attempt's source.
- `PublishedIsWhole` fails for two downloads of one destination that are split into different numbers of
  ranges (6 cells, one row on 2 lanes, the other on 3). A fresh chunked download keeps the part it finds
  and fills it by its own ranges; when the rows take turns, the one that resumes finds the first and the
  last cell of a claimed range its own, and a cell of the other row between. The instance has one
  number of lanes.
- Not in the model: a source edited during an attempt, a placeholder that cannot be removed,
  checkpoints that cannot be written, a linear part that a crash extends with zeros.

Sessions:

- The dialog that deletes a site says "Queued transfers for this site are not affected"
  (QuickConnect.tsx:87). They are deleted with it: `transfers.site_id` cascades (schema.go:23).
- A `ConnectSite` still dialling while its site is deleted installs its session under the id, which
  SQLite may hand to the next site; an answer to a prompt then pins for that one. `NoPinUnasked` holds
  because it goes by the id.
- Two trusted prompts for one key make the second insert fail, and with it a connection the user
  accepted.
- What goroutines emit after an unlock may arrive in another order, so the state shown for a site may
  be an older one until its next event.
- A tree listing under way across `fs:changed` is kept: only a purge is fenced.

Queue:

- Of the two things meant to keep a list from going back, the tickets do; the patches are always dropped
  first (`FindPatchLost`).
- A pause of a waiting row is announced to nobody (`unheard`), so the list shows it when something else
  does. While rows keep changing no read may land at all; the list then lives by its patches.
- A row is listed, and may be claimed, before it is held for a decision (app.go:933-937); the answer to
  the question then meets a running row, and Skip discards what it has transferred without asking, although
  the comment at app.go:1521-1523 has it that nothing has been transferred. `AsksFirst` exempts these rows
  (`holding.late`).
- Clear done asks only if a cancelled row is in the list (QueueDock.tsx:626-639), which has 200 finished rows; the
  backend takes every cancelled row there is (app.go:1331, transfers.go:335-341). What older cancelled rows had
  transferred goes unasked. `AsksFirst` exempts the cancelled rows beyond the window, and no others.
- The pending rows of a list are meant to be "the ones next in line" (transfers.go:149-150), but rows that are held
  or wait for a retry count too: two thousand of those hide the row the pump claims next. `ViewsMatchQueue` is about
  the rows of the window.
- Retry and Skip of the deck and the timeline do not look at the hold.
- Overlapping `SetPaused` calls may announce in another order than they wrote; hence one call at a time.

Panes:

- An event for a folder the pane is on its way to is ignored (`missed`): its listing may predate it.
- The shared sort reorders the other pane under its cursor, and a reload keeps the cursor's index,
  not its row; the next key acts on the row that is there now. A menu left open acts on the entry it was opened on, as
  listed then.
- A connect that is answered late moves a pane the user has meanwhile moved elsewhere.
- Under an error the old listing is hidden (FilePane.tsx:1090) and still acted upon by F2, F5, F8, Delete, the
  palette and a menu left open (:499-502, :600-667). `ActsOnListedRows` says which rows these may be (those picked
  under the error), not that the user sees them.
- "Up" forgets the folder to land on when the source changes before the parent arrives, and looks for it
  among the rows of a filter opened meanwhile; `UpLandsOnFolderLeft` is about the other cases.

## 4. What is proved

TLAPS checks the theorems below for every value of the constants: any rows, sites, keys, files, users and
scenes, any bounds, both values of the flags. The assumptions are the ones the modules declare, which say
what the constants are (ids are positive naturals, a file has one destination string, a scene has the shape its
comment gives it, `SiteIds` and the names of entries are finite) and which TLC evaluates in every run.

None of the properties is inductive alone. Each proof module defines an inductive invariant `IInv`, proves it
once (`Invariance`), and draws its theorems from it. Before it was proved, each `IInv` was checked by TLC on
the instance of its component.

### Dispatcher

| Theorem | Statement | Hypotheses |
|---|---|---|
| `TypeCorrect` | `Spec => []TypeOK` | |
| `ActiveRowsHaveRunners` | `Spec => []ActiveHasRunner` | |
| `FilesHaveOneWriter` | `Spec => []OneWriterPerFile` | |
| `LadderIsBounded` | `Spec => []LadderBounded` | |
| `StoppedIsStopped` | `Spec => []StoppedMeansStopped` | |
| `StopsOutliveDiscards` | `Spec => []StopOutlivesDiscards` | |
| `IntentIsKept` | `Spec => IntentStands` | |
| `Refinement` | `Spec => LifecycleSpec` | `OneToggler` |
| `PauseIsMirrored` | `Spec => []PauseMirrored` | `OneToggler` |
| `HealsSpareRunners` | `Spec => HealSparesRunners` | `OneToggler` |
| `StopsAreNotFailures` | `Spec => StopIsNotFailure` | `ResumesInOrder` |
| `DiscardsSpareRows` | `Spec => DiscardSparesRows` | `DiscardsUndisturbed` |
| `DiscardsSpareWriters` | `Spec => DiscardSparesWriters` | `UnlinksUndisturbed` |
| `DataIsNeverForgotten` | `Spec => []NoForgottenData` | `Orderly`, `OneToggler` |

Four properties hold except around named moments, and their theorems are about every behaviour that avoids them:
any number of clicks, rows, attempts, relaunches and lost writes otherwise. Each has the form
`Spec /\ [][C]_vars => P`, with `C` an action formula of one paragraph:

- `ResumesInOrder`: no resume lands between the write of a pause or cancel of its row and the stop that
  follows, nor on a row about to be claimed for a run already stopped.
- `DiscardsUndisturbed`: no pause and no resume lands on a row between a discard's look at it and its reset.
- `UnlinksUndisturbed`: between the look for owners and the unlink nobody resumes or enqueues a row of the file, or
  pauses one whose runner may still write it.
- `Orderly`: no claim of a row whose last `release` has yet to read it back; no resume of a row that is
  unwinding, being discarded or about to be; no crash under a runner; no restart after lost chunk state, and no
  open from zero, with the partial file still on disk because its removal failed.

Every clause is needed: on one or two rows and two users, TLC finds the property violated when any single one is
dropped (section 3 has the behaviours). `OneToggler` is one
`SetPaused` at a time, without which `PauseMirrored`, `HealSparesRunners` and the refinement fail, and data is forgotten.

Instances in which those moments cannot come need no condition. `StopsWithoutResumes` (`NoResume`) is about the
instance of `DispatcherLive`; `SingleCallsSpareRows` (one call on rows at a time) about that of `DispatcherRow`;
`SingleCallsSpareWriters` (the same, and nobody enqueues or resumes) and `SingleRunsForgetNothing` (one attempt, no
resume, retry, queue pause, shutdown or relaunch, and removals on opening that succeed) about that of
`DispatcherShared` without its shutdown: what these runs check for one or two rows holds for any number.

`IInv` (`DispatcherProofs`) adds four facts to the types:

- `Ownership`: every registration belongs to the pump (between registration and spawn) or to a
  runner, and each of them has one. Nobody removes another's registration.
- `FileLocks`: registrations hold different files, all of them marked in `activeDst`. With
  `Ownership` this gives one writer per file.
- `ActiveOwned`: an active row has a runner that has not yet passed its last guarded write, or the
  pump about to spawn one. This is stronger than `ActiveHasRunner`: it excludes the tail of a run, so
  that releasing cannot strand the row.
- `Snapshots`: rows on the pump's list cannot be active or failed and still have the attempt count the
  list says. A count changes only on an active row, or through a requeue of an active or failed row,
  and only a claim makes a row active; hence a runner's snapshot is the row's own count, although it
  was read before the claim. With `AttemptsLeft` this bounds the ladder.

One lemma per part shows that every action preserves it. `StoppedMeansStopped` is inductive given `Ownership`.
`StopOutlivesDiscards` needs no more than that a shutdown once begun stays begun: every start of a discard asks.

`DispatcherRefinement` begins with one lemma: of the sixty steps only fifteen move a row, its attempts or a
registration (`RowSteps`), so each argument looks at those. `Refinement` maps each of them to a move of
`TransferLifecycle` and everything else to a stutter. It and the heal need `RInv`: a heal writes only while the
queue is paused, and then no row that was registered after the running set was read is claimed. `StopInv`, for
`StopsAreNotFailures`: a context that has ended has its reason on record, and if that is the row's own, the row is
no longer active and, before its claim, settled - so the ladder of that run finds a row that is not its own. The
discards need that what they have read as cancelled stays so (`DiscardsSettled`), and that once a discard has found no
owner every row of the file is `Spent`: neither an owner nor a writer.

`DispatcherData` has the longest invariant (`DataInv`). `NoForgottenData` says that what is on
disk belongs to a row that may resume it, a run that has not ended, or a cancelled row that still records bytes. It is
drawn from `DataKnown`: for every file with data some row of it, not completed, records bytes or has a runner
that will. To keep that, a run must not start believing less than the row records (`CountsKept`), give
bytes up only with the file gone (`Emptied`), and a discard's reset must come after its unlink with nobody writing
in between (`DiscardsRest`); those need rows that wait (`WaitingRests`) and rows whose release is unfinished
(`TailsRest`) to have no runner.

### Admission

| Theorem | Statement |
|---|---|
| `TypeCorrect` | `Spec => []TypeOK` |
| `BudgetIsKept` | `Spec => []CapsHold` |
| `PlansAreKept` | `Spec => PlanKept` |

`IInv` says what a reservation is worth at each step of a run (`Runs`): a runner's row is registered, what it
has opened it has reserved. `Counters`: the counters are the sums of the reservations, which one lemma about
sets of pairs carries through every change of one row (`Recount`, `OnlyRecounts`). `Ceilings`: so what is
reserved stays within a cap some setting gives. `Widths`: the width a row asks for, clamps and resizes included,
tells whether its file may be chunked, and a large file that may have two connections is never started on
less because of the clamp; with `Plans` this is why no shortage drops a plan.

### Sessions

| Theorem | Statement |
|---|---|
| `TypeCorrect` | `Spec => []TypeOK` |
| `NothingLeaks` | `Spec => []NoLeakedSession` |
| `PurgesHold` | `Spec => []PurgedTreeStaysPurged` |
| `WorkingSessionsStay` | `Spec => WorkingSessionStays` |
| `PinsAreAsked` | `Spec => NoPinUnasked` |

A number is given out only when nothing holds it (`FreshIsUnused`; `Finite` says that there is one).
`Connections`: a connection belongs to the site it is registered for or to the `ConnectSite` about to install it.
`Prompts`: a prompt is of one dial, and each event and dialog with its number shows that dial's site and key, so an
answer is about what was on screen. `Crossed`: a listing under way when its connection came or went is stale.

### Queue

| Theorem | Statement |
|---|---|
| `TypeCorrect` | `Spec => []TypeOK` |
| `QuietListIsCurrent` | `Spec => []QuietIsCurrent` |
| `ViewsAgree` | `Spec => []ViewsMatchQueue` |
| `NoRewind` | `Spec => ListNeverRewinds` |
| `DestructionIsAsked` | `Spec => AsksFirst` |

The invariant is that every change is followed, from its announcement to the screen, by something that
makes the window read the table again: an announcement not yet emitted, a `changed` event, the timer, or the
newest read (`Mirrored`). `Noted` says the same of a row's bytes, known by the last progress event or from the
list, and `PauseMirrored` of the pause. `Tickets` is why the list never goes back. Lemmas on sequences say what
an event sequence still says when one is appended or delivered; one lemma (`WroteKeeps`) serves all steps
of the backend, which write, and announce what they wrote. A change of one row moves others in and out of
the window (`WindowKept`); the announcement is for the whole list, so `Mirrored` speaks of the whole window.
`HeldWhole` is for Skip: a held row that is not late has not run and does not (`HoldsStay`).
`DestructionIsAsked` names what is exempt: cancelled rows the list does not hold, and rows held late.

### Engines

| Theorem | Statement | Hypotheses |
|---|---|---|
| `PlanTiles` | `PlanChunks(Size, n)` is empty, or at least two ranges that tile the file | |
| `EngineTypes` | `Spec => []TypeOK` | |
| `ResumableBytesAreKept` | `Spec => ResumableIsKept` | |
| `UndisturbedFilesAreWhole` | `Spec => PublishedIsTheSource /\ PublishedIsWhole` | `Undisturbed` |

The invariant has three layers, and each needs the one before it.

- `TypeInv`: every saved plan tiles its file (`Apart`, `Covers`), which `PlanTiles` gives when it is made and no
  checkpoint changes; and `Stage`, where an attempt has its plan and its lanes.
- `KeepInv`: `Copied` says that what a lane has copied beyond its checkpoint is the source's, and on a
  download's disk before the checkpoint claims it. `Apart` is why a lane's write meets no other range's
  claim. `Durable` follows: what a download's row claims and a reader sees, a crash does not take.
  `Tags`: no file holds a version of a source before it exists, so a replaced source does not
  make old cells look copied. `Before`: an attempt that gives the chunk part up has no progress in its plan.
- `Sole(me)`: every cell of the linear part, and every claimed cell of the chunk part, is the row's.
  At publication `Covers` turns "every range is claimed to its end" into "every cell is the source's".

`Undisturbed` is: one row for the destination, its source not replaced, no crash of an upload's server. The
settings, the connections granted, the faults, the pauses, and crashes of the app and of its machine are
free. Five of the scenes TLC runs satisfy it. Without it the linear engine splices (`FindSplice`), and the
chunk engine relies on a check that reads two windows of a range (section 3); for the
scenes with two rows or replaced sources the property stays with TLC.

### Panes

| Theorem | Statement |
|---|---|
| `TypeCorrect` | `Spec => []TypeOK` |
| `ListingsCatchUp` | `Spec => []ListingCatchesUp` |
| `PrefIsKept` | `Spec => []PrefIsTheUsers` |
| `OperationsNameListedRows` | `Spec => ActsOnListedRows` |
| `UpLands` | `Spec => UpLandsOnFolderLeft` |

The rows come first: `Ranked` is a strict total order (`RankedIsAnOrder`), so the places of the entries are
1 to their number and the rows are the entries, each once, in order (`EntriesAreSorted`). `Followed` is why a
listing catches up: a pane shows its folder as it is, or has missed an event, or a reload is scheduled, or an
event that touches the folder is on the wire, or the newest load under way will tell. It needs that a newest
load already listed is current although it has not landed yet, and `Newest`: no two loads have one nonce, and
the newest is of the folder the pane is in. A change on disk is near the folder it is announced in
(`NearEntries`, and one lemma per file operation), so its event touches every pane it concerns. `Leaving`
carries the folder an "up" leaves from the key to the listing that answers it; `MenuIsShown` says
that an open row menu is of the folder listed. What the keys and the pointer name is on display or picked under an
error, which `OperationsNameListedRows` shows case by case.

The step lemma goes by what a step does to a pane (`StepIs`): it leads it somewhere (`LeadStep`: every key,
answered dial, reload and reply that calls `setPane`), leaves it still (`StillStep`), or is a change on disk, an
event, a reading or its landing.

### What stays with TLC

- Liveness: `StopFreesSlot`, `ShutdownDrains`, `EveryRowGetsItsTurn`, `EveryRowArrives`, `MirrorSettles`,
  `PaneSettles`. The provers here have no rule for fairness.
- `PublishedIsWhole` where rows share a destination, sources are replaced or a server crashes.

## 5. Plan

The parts still missing, each with its own instance, mutants and proofs:

1. `EnqueuePolicy`: classification, the window between insert and hold, free names, bulk resolution.
2. `QueueCleanup`: Clear failed's placeholders against retries, re-enqueues and discards.
3. `CloseGuard`: timers of earlier gestures against later dialogs.

## 6. Not modelled

- The bandwidth limiter: arithmetic over measured rates, on which no other state depends.
- The comparison of source and destination, free names, and the placeholders Clear failed removes.
- The close guard: two timers in real time and the window that is open when they fire.
- Single-statement or single-transaction stores: bookmarks, recents, preferences other than the pause
  and the sort, credentials, migrations and the backup.
- Pure I/O and presentation: local file operations beyond their success or failure, logging, the
  update check's network side, drag and drop, drawing, and the mock backend.

## 7. Running

    tlc -config DispatcherRow.cfg MCDispatcher.tla      # Dispatcher*.cfg, FindReenqueueUnlink.cfg
    tlc -config Engines.cfg MCEngines.tla               # also FindSplice.cfg
    tlc -config Admission.cfg MCAdmission.tla           # also FindGrantExpires.cfg
    tlc -config Sessions.cfg MCSessions.tla
    tlc -config QueueDock.cfg MCQueueDock.tla           # also FindPatchLost.cfg
    tlc -config FilePanes.cfg MCFilePanes.tla
    tlapm DispatcherProofs.tla                          # and DispatcherRefinement, DispatcherData,
                                                        # AdmissionProofs, SessionsProofs, QueueProofs,
                                                        # EnginesProofs, FilePanesProofs: minutes each
