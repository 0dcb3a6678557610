# TLA+ verification of WEBUI.for.SingBox

A web front end for the sing-box proxy core: a Go backend (`src/bridge`) that
stores profiles and settings, generates sing-box configurations, and starts,
watches and stops one sing-box process (the *core*) through a small *guard*
process; and a Vue front end (`src/frontend`) that several browsers may have
open at once.

This directory holds TLA+ modules translated from the source, the TLC
configurations that check them, and proofs for TLAPS.

## 1. Inventory

| Part (source) | State | Operations | Talks to | What is hard | What makes it correct |
|---|---|---|---|---|---|
| Kernel service (`bridge/kernel/service.go`, `lifecycle.go`, `native_api.go`, `compatibility.go`) | status, core pid, native API credential, active and current profile, `restartRequired`, `restarting`, `closing`; `restartOperationMu`; WaitGroup `operations` | StartCore, StopCore, RestartCore, AutoStart, exit handling, BeginShutdown, Close | platform (start, kill, exit callback), profiles, config, event hub | every RPC is a goroutine; state is read, the mutex released, a process awaited, state written; exit callbacks arrive at any moment | the shown state is the true one; never a core that nobody can stop; closing is final; everything asked returns |
| Restart coordinator (`bridge/kernel/restart_coordinator.go`) | one-place queue: worker flag, pending, target, force, executing | ProfilesChanged, ReferencedResourcesChanged, AppConfigChanged, worker loop | called by profile, config and runtime services after they have saved | changes arrive while a restart is debounced, loading, stopping or starting | no change is lost, the last selection wins, the announcement of a restart ends |
| Branch operations (`bridge/kernel/core_branch.go`) | files of a core branch, downloads in progress | DownloadCore, CancelCoreDownload, RollbackCore, ClearCoreCache | kernel service | file operations between a stop and a start; downloads share an archive and a directory; a crash between two renames | core restarted exactly if it ran; the installed core is replaced by one that works, or kept |
| Process client (`bridge/platform/core_client.go`, `process.go`) | tracked guards, `guardsClosing`, per guard `done`, `finished`, `err` | ExecBackground, KillProcess, CloseCoreProcesses, guard reader | guard process over pipes | three parties wait for one exit; every wait is bounded | nothing started once closed; an exit is reported once |
| Guard process and record (`core_guard.go`, `core_identity.go`, `storage/lock.go`) | `core.lock`, `process.json`, the child process | RunCoreGuard loop, PrepareCore at startup, WaitCoreShutdown | backend, core, operating system | backend, guard and core can each be killed at any moment | at most one core; a core without a backend ends; a reused pid is left alone |
| Resource revisions (`bridge/syncstate`) | per resource: instance id, state, order and item revisions | CheckItem, CheckOrder, Advance | profile and runtime services | several browsers edit at once | an edit made on stale data is refused |
| Profiles (`bridge/profile/service.go`) | profile list on disk | list, create, update, delete, reorder | syncstate, storage, hub, kernel | events go out after the lock is released | no lost update; a failed save changes nothing |
| Subscriptions, rule sets, scheduled tasks (`bridge/runtime`) | YAML files, task log, scheduler's `lastRun` | CRUD, update from the network, cron tick, StartScheduler, StopScheduler | syncstate, storage, hub, kernel | network between read and write; tick against edit | an update never overwrites a later edit; a task runs once per cron key |
| App configuration (`bridge/config/app_config.go`) | settings, `saveMu` | read, save | kernel (`AppConfigChanged`) | - | a selection reaches the kernel in the order it was saved |
| Configuration generator (`bridge/config/generator.go`, `http_client.go`, `native_api.go`) | none; reads the list of subscriptions and their files | Generate: profile, mixin and script to sing-box JSON | kernel, files of the runtime service | a refresh replaces list and file one after the other while both are read; what is named by id may be disabled, filtered out or gone | nothing is named that is not there; a group has the nodes it means; rule sets are downloaded through what they were meant to be |
| Event hub (`bridge/event/hub.go`) | connected clients, 64 messages each | ServeWebSocket, Publish, Close | browsers, auth | slow clients, close against publish | events of one publisher in order; a client that misses one is disconnected |
| Authentication (`bridge/auth/service.go`) | sessions with time to live, failures per address | login, validate, lockout | transport | counter and lockout windows | lockout after five failures |
| Application update (`bridge/appupdate`) | cache file, versions; helper process | check, download, cancel, apply; helper: wait, lock, extract, replace, restart | application, guard record | two processes hand over; crash between renames | the old program survives a failed update |
| Assembly (`bridge/application.go`, `main.go`, `cli.go`) | `backend.lock`, started services | New, Run, close | all | start and close order; signals at any moment | no core outlives its backend |
| Transport (`bridge/transport/http`) | - | routing, kernel API proxy | auth, kernel | credential revoked while proxying | - |
| Storage, logging | files | atomic replace, rolling files | all | crash between write and rename | old or new content, never half |
| Browser stores (`frontend/src/stores`, `hooks`, `bridge/ws.ts`) | copies of resources with their revisions, core status | apply snapshot, reply, event; reconnect | RPC, web socket | replies and events overtake each other | every copy converges to the server |

`PROJECT.json` lists, under `hazards`, the lines where these difficulties bite
and the properties that cover each.

## 2. Modules

| Module | Contents |
|---|---|
| `CoreState` | the fields of `kernel.Service` guarded by its mutexes, and each critical section as an operator on the record |
| `Kernel` | the threads: RPCs, restart worker, notifiers, guards with their readers, shutdown; all properties |
| `MCKernel` | what TLC needs beyond the constants of the `.cfg` files |
| `Installation` | abstract specification: a core is installed, one before it kept; nothing takes the installed one away |
| `CoreFiles` | the files of a branch of the core: downloads, their installation, rollbacks, failures and kills |
| `MCKernelFiles` | one run for `Kernel` under a storm of requests and for `CoreFiles` |
| `KernelProofs` | inductive invariants and theorems about `Kernel` and `CoreFiles`, the proof that `CoreFiles` implements `Installation`, and the theorems for the run of both |
| `CoreSlot` | abstract specification: one serving backend, one living core per data directory |
| `CoreGuard` | backends, guards, their children and readers, `core.lock` and `process.json`; all properties |
| `MCCoreGuard` | the symmetry TLC may use |
| `CoreGuardProofs` | the inductive invariant of `CoreGuard`, theorems, and the proof that it implements `CoreSlot` |
| `Documents` | abstract specification: a list of documents that is edited atomically, each edit by someone who saw what it replaces |
| `Resources` | the profiles: revisions, the list on disk, events and the hub's queues, and the browsers that list, edit, reorder, synchronize and reconnect |
| `ResourcesProofs` | inductive invariants and theorems about `Resources`, and the proof that it implements `Documents` |
| `Scheduler` | scheduled tasks: loops, runs, edits, logs, the time of the last run |
| `AppUpdate` | downloads of an update, and the helper that replaces the executable and starts it again |
| `AppUpdateProofs` | inductive invariants and theorems about `AppUpdate` |
| `CorePage` | the core's state as it is published, answered, and shown by a page |
| `CorePageProofs` | the inductive invariant of `CorePage` and theorems |
| `Sources` | subscriptions and rule sets: two lists, the files of the contents, refreshes and edits |
| `RuntimeProofs` | inductive invariants and theorems about `Scheduler` and `Sources` |
| `HttpClients` | how a configuration says through which outbound its rule sets are downloaded: operators |
| `Generator` | `Service.Generate`, step by step, beside refreshes and deletions of the subscriptions |
| `MCGenerator` | the profiles TLC generates from |
| `GeneratorProofs` | what `normalizeRuleSetHTTPClients` does to any configuration, the inductive invariant of `Generator`, and theorems |
| `MCServices` | one run for `Resources`, `Scheduler`, `AppUpdate`, `CorePage`, `Sources` and `Generator` |
| `ServicesProofs` | that in this run each of them does what it does by itself, and the theorems for the run |

`Kernel` and `CoreGuard` meet at the process client: what `Kernel` knows of a
guard is that it may report a start, refuse one, end, or outlast a timeout, and
that a record that remains makes it refuse; `CoreGuard` is what makes that so.
`Kernel` and `CoreFiles` meet in `runWithCoreRestartIfCurrent`: `Kernel` has its
stop, swap and start (`BranchOperation`), `CoreFiles` what is done to the files,
whether the core runs or not; `MCKernelFiles` explores one or the other.
`Resources` to `Generator` share no state with one another in the program either
(the scheduler's runs take the mutexes of the sources for as long as a handler
would; `Generator` has the refreshes that it meets, with the contents they bring,
as steps of its own), so `MCServices` does not multiply their states: a variable,
`focus`, says which one is explored while the others stay as they began.

### How `Kernel` corresponds to the code

* Every Go function that takes `stateEventMu` and `mu` for its whole body is one
  operator of `CoreState` (`setStarting` is `CanStart` and `Starting`,
  `completeStart` is `CanComplete` and `Completed`, `setStopped` is `Stopped`,
  and so on), so a step of `Kernel` that applies one is as atomic as the code.
* `pc[t]` says which blocking call or critical section thread `t` comes to next:
  `queue` waits for `restartOperationMu`, `halt` and `kill` are the two halves of
  `StopCore`, `claim` is `setStarting`, `prepare` is `prepareCoreStart`, `write`
  to `abandon` are `launchPreparedCore`, `swap` is the file operation of a branch
  operation. `StartCore` claims before it prepares, a restart prepares, stops and
  claims; so does the model.
* `Return` is a function's return with its deferred calls: unlocking, leaving
  `operations`, `finishManualRestart`.
* `guard[p]` is a core process as `platform.Service` sees it: `launching` (guard
  started, answer pending), `live`, `done` (`g.done` closed, `OnExit` not called
  yet), `called`, `gone` (untracked), or `refused`. The gap between `done` and
  `called` is the code's: the reader closes `g.done` first, because `OnExit` may
  need a lock that a stopper holds.
* A notifier reads, decides and enqueues in three steps, since the code takes
  three different mutexes; between them anything may happen.
* `Select` holds `saveMu` until its notification is done, as `SaveAppConfig` does.

### How `CoreFiles` corresponds to the code

* A file is who created it, `cores` what is in it; `archives`, `extracted`,
  `corePath` and `bakPath` are the names. Renaming moves a file from name to name
  while whoever has it open goes on writing it.
* `install[d]` follows `DownloadCore`: `requested`, `receiving`
  (`downloadCoreAsset`), `received`, `extracting`, `extracted`, `checked`
  (`installCoreArchive` up to `checkCoreVersion`), `unbacked`, `aside`, `placed`
  (its removal and two renames), `installed`. `dropped` is its cancelled context,
  which everything heeds but the extraction and what follows the check.
* `rollback[r]` follows `RollbackCore`: `checked`, then with the core running
  `waiting` and `locked` (`restartOperationMu`, `prepareCoreStart`), or at once,
  `begun`, `removing`, `renaming` (the closure `action`), and `renamed`, until the
  core is started again. `holder` is who holds `restartOperationMu`.
* `Installation` is what this is for. `InstalledCore` is the file at `corePath`
  or, while there is none, the backup; a file somebody still writes is `Broken`,
  which is no version.
* `crossed` is history: two calls were replacing the core at once, a download
  truncated what another had extracted, or a download after a crash removed the
  backup that was all there was (limits, below).

### How `CoreGuard` corresponds to the code

* `backend[b]` follows `application.New` (`off` to `waiting`: `backend.lock`),
  `PrepareCore` (`waiting`, `reading`, `ending`), serving, `Application.close`
  (`closing`) and the release of `backend.lock` (`released`).
* `guard[g]` follows `RunCoreGuard` from top to bottom; the loop over
  `check` and `startup` is `stage[g]`, entered by `NextChild`. `spawned` is the
  gap between `cmd.Start` and `writeCoreOwner`, `aborting` the failure of the
  latter, `unlocked` the gap between the deferred `lock.Close` and the process's
  end. `emitter.finish` runs after `lock.Close`, as deferred calls do.
* `told` and `heard` are the spawn events: one is lost if the guard dies, or its
  pipe is closed, before the emitter's goroutine has written it.
* `reader[g]` is `readCoreGuard` after the pipe's end: `killing`, `locking`,
  `removing`, `done`. Readers die with their backend.
* `control[g]` is the control pipe: `stop` once asked (`stopOnce`), `closed` when
  the start was aborted or the shutdown lost patience. `Lost` is what the guard's
  decoder sees; a guard may also notice late, as a `select` may choose another
  ready case.
* Locks are not variables: `Holds`, `Removing`, `Preparing` and `Owns` say which
  stages hold `core.lock` and `backend.lock`, and a stage that ends or dies lets go.

### How `Resources` corresponds to the code

* A call (`calls[k]`) is an RPC with its reply: `Serve` is the handler from lock
  to unlock (`CreateProfile` and its siblings, `ListProfiles`), the event is
  published after the unlock by a step of its own (`PublishChange`), and the
  reply is read by the page whenever it arrives.
* `server` is the file and the coordinator of its domain: the instance, the state
  and order revisions and the revision of each item. `Crash` and `Boot` keep the
  file and start a new instance.
* `socket[b]` is a page's connection. Accepting it has two halves that meet
  everything else in any order: `Open`, when the upgrade is done (`hub.go:76`) and
  the page fetches its lists, and `AddClient`, when the hub registers the client
  (line 90). `untold` remembers what was published in between, of which the page is
  not told.
* A queue of the hub holds `QueueSize` messages; `PublishChange` removes a client whose
  queue is full, and its page reconnects.
* `view[b]` is a page's store (`resourceSync.ts`, `profiles.ts`) with the revisions
  it holds, `pending[b]` and `sync[b]` its scheduled and its running refresh
  (`useBackendEvents.ts`), `draft[b]` the form that a user has open, with its
  `baseRevision`.
* `Documents` is what this is for: the list changes by one edit at a time, whose
  author saw what it replaces. `Docs` maps `server.content` and the calls to it.

### How `Scheduler` corresponds to the code

* A loop (`loops[n]`) is a goroutine of `schedulerLoop` with its context and its
  `lastRun`; `Second` is the clock, whose ticker drops ticks; `OnTick` one pass
  over the tasks.
* `runs[r]` goes through `runScheduledTask`: claim of the flag, loading, work,
  saving the last time, the log, release. `edits[k]` is a handler, whose restart
  of the scheduler is a step after its unlock, and whose removal of the logs
  another one.

### How `AppUpdate` corresponds to the code

* `download[d]` is a call of `DownloadAppUpdate`, from its registration to the
  written or removed cache file (`archive`); files are opened, written and removed as POSIX
  does it: a removed file goes on being written by who has it open.
* The helper's steps are those of `RunHelper` and `replacePath`: stop the service,
  wait for the parent, take the lock, wait for the core, extract, rename the
  target, rename the new file, remove the backup, release, start. It fails, is
  killed, or meets a user who starts the application, anywhere.

### How `CorePage` corresponds to the code

* The server changes its state and publishes the change under `stateEventMu`;
  calls are answered with the state at their end. The page applies events and
  replies in the order they arrive (`applyCoreState`), and loses events while its
  web socket is down.

### How `Sources` corresponds to the code

* A call holds the mutex of its list (`subscriptionsMu`, `rulesetsMu`) in all its
  phases: `fetching` (the network, one source after the other), `writing` (the
  content file), `saving` (the list, all of it, as it was loaded), `removing`
  (the content file of a deleted subscription). The phase ends with the write.
* `loaded` is the list in memory, which a refresh changes entry by entry and keeps
  changed when the rest of a source's refresh fails; `SaveList` saves it all, and
  `Moved` says whose item revision moves: a refresh moves the revision only of a
  source whose settings its script has changed (`AdvanceRuntime` otherwise).
* `FetchSubscription` is `updateSubscriptionAt` for all kinds of subscriptions. The
  nodes are fetched, or read from the file of one that is edited by hand (`Manual`);
  the script, if there is one, runs for both; what it makes is in the entry, but is
  written to the file only of those that are fetched (`service.go:1275`-`1284`). For
  the others that is `Converted`.
* An entry's `settings` and `nodes` are the versions of what a user sets and of
  the content its proxies or its count were taken from.
* `editor` is a page with an older revision; every call of a page that has just
  looked is possible as well.

### How `Generator` and `HttpClients` correspond to the code

* `Load` is `newConfigGenerator`, which reads the list; each step of
  `generateOutbounds` takes one reference of one outbound (`at`), and `Read` is
  `subscriptionEntries`, which reads a file the first time it is asked for.
  Between the steps a subscription may be refreshed, edited or deleted
  (`WriteFile`, `SaveEntry`, `RemoveEntry`, `RemoveFile`). The list and a file may come
  to hold any version, one ahead of the other or behind it: failed refreshes and
  scripts leave them so. What follows depends on the profile alone and is one step
  (`GenerateConfig`), as are the mixin with the script and
  `normalizeRuleSetHTTPClients`.
* A map of the configuration is a function whose domain is the keys it has, so
  `DeepAssign` and the keys that a raw rule replaces are what they are in the code.
  `resolveOutboundTag` and its siblings are a test (`MissingOutbound`) and a value
  (`OutboundTag`).
* `HttpClients` has the validation, the choice of the default and the naming of
  `ruleSetHTTPClients`; its last part is the reference: what sing-box downloads a
  rule set through, for configurations of the old form and of the new one.
* `Itoa` and `DefaultTags` are `strconv.Itoa` and the names that `nextTag` tries, as
  functions: all that matters of them is that they are not empty and that the names
  differ. The code tries names without an end; the model has as many as it needs, and
  more than there are clients (`MCGenerator`).
* `:=`, `++` and `Chosen` are written out, and so is `Ordered` of `Resources` (by the
  place each item gets): `:>`, `@@` and `SelectSeq` have no definitions that a proof
  could use.

### Abstractions

In `Kernel`, time: a debounce, a timeout and a readiness check may end at any moment. A wait
that has a time limit may give up only where `SlowGuard` says so (a guard that
outlasts it). Data: a profile's content is the number `rev` of times it was
saved; a core is its pid, and pids are not reused within a run. `Prepare` stands
for the version check, generation and the core's own check of the file.
`WorkerTake` merges the debounce and what follows: `pending` is only cleared
by a shutdown in between. Not modelled: log lines, progress events, the payloads
of `kernelState` events, `StartCore` of a profile that does not exist, branch
changes in `AppConfigChanged` (they take the path of a content change), and
changes of resources a profile refers to but does not contain
(`ReferencedResourcesChanged` takes the path of `ProfilesChanged` with another
test of whether the profile is concerned).

In `CoreGuard` a process is an incarnation, so an identity never returns; what
the code does to tell a reused pid apart (`identityAlive`'s creation time and
path) is thereby taken to work. With `Slow` every bounded wait may end early.
The `spawn` and `started` events of a core are one. The two files of the record,
`process.json` and the pid file, are one; a failure between them is
`GuardRecordFails`. Not modelled: output lines, the exit event's text, protocol
versions, the grace period before a forced kill (an asked child ends at some
time), and `PrepareCore`'s path for a pid file without a record, which only
installations older than the record have.

In `CoreFiles` there is one branch of the core, and a release is its version, which
may differ from call to call, as the newest one does. Left out: the query of the
release, progress events, the archive's other files, and the other branch, which shares
nothing with it. The checks may fail at any time and never hang. The kernel's state decides
whether a rollback waits for `restartOperationMu`; here it may or may not.

In `Resources` the content of a profile is the number of the call that wrote it.
One domain is modelled, the profiles; the stores of subscriptions, rule sets and
tasks share the pattern. Not modelled: the order a page shows while an item is
dragged, calls made while the server is down, and a web socket that breaks for
another reason than a full queue or the server's end. Pages that are not
followed only make calls; what they show is not kept. `Boot` assumes that a
process takes longer to start than the 50 ms of the refresh timer and a
synchronization.

In `Scheduler` cron expressions are those with `*` in the seconds, a minute has
`SecondsPerMinute` seconds, and the settings of a task are whether it is enabled.
Left out: what a run updates, events, the tasks' order, edits of the log limit,
failing reads. `outrun` remembers the tasks whose run outlasted their deletion.

In `AppUpdate` there is one release, shutdown ends within its time limit, and the
copy of the helper works. `mishap` remembers a step that failed.

In `CorePage` the server is any that changes its state and publishes; flags and
restarts are left out. `misled` remembers a page that lost an event, or to which a
reply came after an event newer than it.

In `Sources` a version is the number of the call that wrote it; a call that is
refused, or fails before it has written anything, is no step. A rule set whose
file holds the default counts as one without content. Left out: orders and events
(`Resources`), the hub of rule sets, and what changes with the format of a rule
set: its file moves to another path before the list is saved (`service.go:2104`),
so a list that cannot be saved then leaves an entry that points at nothing.
`torn` remembers the sources whose entry and file a failed step or a script has parted,
`passed` the editors that a quiet refresh has passed by.

In `Generator` a node is its id and its tag, and a pattern the set of tags it
matches. `invalid` stands for every field that is out of its range. A script is
what it changes. Left out: fields that name nothing, values of a wrong type, which
of several refusals is reported, and `EnforceNativeAPIConfig`.

## 3. Runs

Every thread acts once, so each run is finite without a constraint. A thread per
kind of request is what the interleavings need: two requests of one kind meet in
the same two places (`setStarting` and `restartOperationMu`), which a start and a
restart already do.

| Run | Threads | Shows |
|---|---|---|
| `kernel_storm` | start, stop, restart; core running; failures, cancellation, slow guards, unconfirmed exits, shutdown | closing is final: no credential, no running core; when `Close` reports success nothing is left |
| | three calls that download or roll back the core's files; two releases, one too old; a kill | `ImplementsInstallation`: the installed core is replaced by one that works, or stays; `CoreFilesTypeOK`: also that nobody ends with `restartOperationMu` |
| `kernel_requests` | start, stop, restart; no core, and one launch at most; failures, cancellation, shutdown | `StatusIsTrue`: a running status is true, no core is left behind, a start is possible again; `CallsReturn`: requests and shutdown end |
| `kernel_restarts` | a change, a branch operation; core running; failures, unconfirmed exits, shutdown | the queue, its worker and the announcement agree; restarts end |
| `kernel_reload` | two changes, two selections; two profiles | `ReloadsAreCurrent`: changes among themselves, and selections among themselves, are never lost |
| `kernel_stop_then_start` | stop, start | *violation*, finding 1 |
| `kernel_crash_while_stopping` | stop; a core may fail | *violation*, finding 2 |
| `kernel_switch_back` | change, selection | *violation*, finding 3 |
| `kernel_lost_change` | change, selection | *violation*, finding 4 |
| `guard_crashes` | two backends, two guards; any of them killed at any step except a guard in `spawned` or `aborting`; every wait may be too short | `CoreSlot` is implemented: one backend, one core, nobody begins to serve beside a core; every living core is recorded |
| `guard_endings` | two backends, one guard; killed only when it has no child; waits long enough | `LossIsDealtWith`: a guard that loses its backend ends its core; the next backend is not held up, and serves unless it comes in the moment in which the old guard has let go of `core.lock` and is not gone; closing leaves nothing; no record remains to refuse a start |
| `guard_cleanup` | one backend, one guard killed while it watches its child | *violation*, finding 5 |
| `services` | see below | the promises of the six components of `MCServices` |

Two backends and two guards are the protocol's interesting case: an older and a
newer of each, which contend for `backend.lock`, `core.lock` and the record. A
third of either would contend with the same two stages. `ImplementsCoreSlot` is
also proved, for any number.

In `CoreFiles` three calls are what the hazards need: two downloads of one release
that share an archive while a rollback waits, or two rollbacks around a download;
with `Releases` 1 and 2 and `MinimumCoreVersion` 2 a release may be refused. `MaxKills`
1 leaves any of the half-done states behind for the calls that follow. After calls
have crossed nothing is claimed of the files, so `KernelFilesNext` explores them no
further. Together with `Kernel`'s storm these are 681,656 distinct states. All that is
asked of either is safety, so the run assumes no fairness; `CallsReturn` is liveness and
has the 18,313 states of `kernel_requests` to itself.

`MaxPID` is large enough that no start fails for want of a pid (`EnoughPIDs`);
where starts may fail anyway the bound is smaller, and two (a core and its
successor) or three (a third after a second restart) are what a scenario needs.

What `services` shows, and with what:

| Component | Bounds | Properties |
|---|---|---|
| `Resources` | two profiles, forms opened on one of them, two browsers of which one is followed, two calls or crashes, a queue of one message | `RevisionNamesContent`: equal revisions mean equal content, across restarts; `ImplementsDocuments`: nobody replaces what he did not see, and a refused or failed call changes nothing; `ReordersAreInformed`: the same for the order; `QuietIsCurrent`: when nothing is under way a page shows what is on the disk, unless it is behind a change that its own reply or an unregistered socket has hidden from it; `Settles`: it comes to that |
| `Scheduler` | one task, three acts (edits, runs by hand), minutes of three seconds, two of which pass, one log kept | `RunsDoNotOverlap`; `OncePerMinute`; `EditsAndRunsMerge`: no edit undoes the time of a run, no run an edit; `DeletedLeavesNoLogs`; `RunsEnd` |
| `AppUpdate` | two downloads, each failing anywhere; helper, backend and user | `ExecutableSurvives`: an executable is on the disk at every moment; `ReplacedAlone`: replaced while no backend serves and no core runs; `AvailableIsWhole`; `ArchiveIsTheHelpers`; `UpdateEnds` |
| `CorePage` | three changes (a start, and a stop that begins), two requests, one lost web socket | `ShownIsTrue`: a page that no event is on its way to, and that was not misled, shows the core's state |
| `Sources` | two subscriptions, one rule set, two calls or crashes | `SavesAreInformed`: an edit replaces what its user saw; `NothingIsUndone`: no refresh or edit undoes another, or a deletion or an addition; `SourcesAgree`: proxies and counts describe the file that the core is going to be given, unless a failure or a script has parted them |
| `Generator` | one generation from each of 549 profiles; two subscriptions, of which one has two versions | `NoDangling`: nothing is named that is not there; `NodesAreMeant`: nodes are those that were meant, from one reading; `ClientsFit`: downloads go where they went before, by clients the core accepts, and nothing is added twice |

282,717 distinct states. Two calls meet in every pair of their steps, and a
hazard of these components is a pair: two edits, an edit and a refresh, a reply and
an event, a call and a crash; what was left by a first pair is where a second one
begins, and pairs commute with what they do not touch. Larger instances hold too
and were checked once, but take longer than a run should: `Resources` with one
profile and three calls (1.3 million states), `Sources` with three calls (3.8
million, both lists at once), `CorePage` with five changes, `Resources` with forms on
both profiles and `Generator` with 3104 profiles, every combination of the values in
`MCGenerator`. The run also checks liveness, whose cost grows faster than the number of
states, hence the small bounds; its invariants and action properties are proved for all
(section 4). What tells the two profiles apart is their place in the order, which a form
neither reads nor writes, so a form on the other one is the same case (`FormsOnOne`).
What two calls do not
reach are two refusals of `Resources`, of a creation under an id that exists and of a
reorder that is current but lists other profiles; both change nothing.
`CHECK_DEADLOCK` is off because the budgets of calls, changes and seconds run out and
a generation ends; there is nothing left to do then.

The type invariant of `AppUpdate` includes that a process which is started has
an executable to be started from.

The profiles of `Generator` are three families. Two groups with three references,
of every kind (the third a whole subscription or a node of it), that share nodes or
not, meet a subscription that is refreshed twice or deleted: a third group would
read what the second one has read. One rule of every action and every reference, present, disabled or gone,
in the route and in the DNS section: rules do not depend on one another. One or two
rule sets meet mixins that bring clients, none, unnamed ones, two of one name, a
name that is taken, a default, endpoints, outbounds without tags or none at all,
and scripts. Within a family the values meet in pairs: a reference with a match or with
other references, a DNS rule with the servers it can name, a mixin with a list of rule
sets or with a script.

### Fairness

`FairSpec` assumes weak fairness of every goroutine that can run (Go's scheduler
runs it, and Go's mutexes do not starve a waiter), of the guard's events, and of
the exit of a core that has been asked to end: the guard kills what does not
terminate. Nothing is assumed of clients, of the user, of a core that nobody
asks to end, or of the operating system starting a shutdown.

`FairSpec` of `CoreGuard` assumes that a guard, a reader and a preparing or
closing backend that can go on do (they are processes and goroutines of their
own), that a child which was asked to end does (the guard and `terminateIdentity`
kill it after the grace period), and that a closing backend asks its guards
(`CloseCoreProcesses`' first loop). Nothing forces a backend to come, close or
die, a guard to be launched or killed, or a core to exit by itself.

`ServicesSpec` assumes that a call which was made is served and its reply read, that
timers fire and a dead server is started again (`ResourcesProgress`); that the
goroutine of a run goes on (`SchedulerProgress`), which takes servers that answer
or break off: every request of a run has a time limit but the download of a
binary rule set (`http.Get`, `service.go:1374`), where a server that stalls holds
`rulesetsMu`, every call that needs it and the scheduler's run for as long as it
likes; and that processes of an update go on (`AppUpdateProgress`). Nothing is
assumed of users, of failures and of crashes.

### Findings

1. *A start after a stop's core has exited is undone by the stop.* `StopCore`
   ends with `setStopped`, which is unconditional. `handleCoreProcessExit` often
   sets STOPPED before it, and a start may claim the service in between. Its
   status and pid are overwritten, `completeStart` refuses, and the new core
   lives on behind STOPPED with nothing to stop it by.
2. *A core that fails while being stopped can never be started again.*
   `KillProcess` returns the exit's error before `OnExit` runs; `StopCore` sets
   CRASHED and keeps the pid; the exit handler then ignores the CRASHED service,
   and `setStarting` refuses as long as the pid stays.
3. *A content change can undo a profile selection.* Its restart is decided on
   before and enqueued after the selection's restart.
4. *A content change can be lost during a selection's restart.* The profile was
   loaded already, but is not yet the active one, so the change matches nothing.

5. *A core can survive its guard although the backend lives.* A guard killed
   after it recorded the core but before the core's spawn event left it: the
   reader knows the check's identity only, does not look at the record, and ends
   nothing. The core runs on and its record refuses every start until the
   backend is restarted.

`NoCoreBehind` and `CanStartAgain` (of `StatusIsTrue`) hold in `kernel_requests`: one core at most
is launched, so none can run that was claimed after the stop's core had exited, and it exits
only when asked to. `StatusStaysTrue` (section 4) has the condition in general.
The first finding reaches further with two starts beside the stop: the second
claims the service after the late `setStopped`, and when its core reports its
start, its pid is entered over that of the first, which may be RUNNING by then;
then `RunningIsCurrent` is gone as well. `SwitchSticks` and `FreshAtRest`
hold as long as only selections, or only changes, happen (`kernel_reload`, and in
general `ReloadsStayCurrent`, section 4).

### Limits of reloads

What `AutomaticOnly` excludes. Each was found by TLC, with one change and one call
where not said otherwise; the core then runs an old profile and is not shown as needing
a restart.

* A change while a core is started by `StartCore` matches the active profile, but the
  service is STARTING and not restarting, and `requestConfigRestart`
  (`restart_coordinator.go:149`) drops it; the profile was loaded before.
* A branch operation's own restart does not set `restarting` either, so a change that
  arrives in it is dropped alike.
* A change during a restart by hand sets `restartRequired`, and, without
  `AutoRestartKernel`, nothing else; when the restart completes, `service.go:194` resets
  it, though the core started is older than the change.
* Two changes and a restart that fails: the second change comes during the first's restart,
  whose completion resets `restartRequired`; its own restart then fails before
  the core is stopped. The worker reports the failure (`restart_coordinator.go:254`)
  and does not set `restartRequired` again. With one change the flag stays, as
  `restart_coordinator_test.go:229` has it.

### Limits of the guard protocol

`guard_crashes` excludes one moment and `guard_endings` one more condition, for
these reasons; none contradicts what the code claims, so none is a finding.

* A guard killed between `cmd.Start` (`core_guard.go:175`) and `writeCoreOwner`
  (184) leaves a core that nothing names. `core.lock` is free again, so the next
  guard or backend starts beside it. `LiveIsRecorded` exempts exactly this
  window; the hypothesis `RecordedFirst` of the theorems excludes a death in it.
* When the wait for an aborted guard is too short, its reader may find
  `core.lock` taken by the next guard (`core_client.go:255`) and leaves the
  record of its own, dead guard for good; that next guard has then refused
  already, and so does every later one. `CanLaunch` needs long enough waits.
* `PrepareCore` refuses, rather than waits, when the old guard has let go of
  `core.lock` but has not ended yet: the new backend gives up (`refused`), and
  has to be started again. `PrepareEnds` counts this as an end, and `RefusedInPassing`
  limits it to that moment: no backend is refused at any other time.
* The guard of a crashed backend that has passed its check of the backend but
  not yet taken `core.lock` may come after the next backend's `PrepareCore`, and
  refuses that backend's first start. It ends soon after, since its pipe is
  closed, but a record it has written in the meantime stays, and refuses every
  later start until the backend is restarted.

### Limits of the core's files

`ImplementsInstallation` ends where calls have crossed, because the code does not keep
its promise there; no document speaks of it, so none is a finding.

* `restartOperationMu` is only taken by a rollback of the branch whose core is
  running, and by no download. Two rollbacks at once: both find the backup, the
  first renames it, the second removes what the first has restored and has nothing
  to rename. A rollback beside a download can lose either core the same way.
* Two downloads of one release extract into one directory: one may truncate the
  core that the other has checked and is about to rename. What is in place then is
  half written until the extraction ends.
* A download that finds only the backup, since a process ended between the renames,
  removes it (`core_branch.go:378`) before it puts its own core in place; if that
  rename fails there is none.

### Limits of the other components

What the properties of `services` except, because the code does it; no document of
the repository says otherwise, so none is a finding.

* A reply to a page's own edit moves the page's state revision past the changes of
  other pages whose events have not arrived; those events are then taken for old
  (`resourceSync.ts:52`, `passedOver`), and it holds the revision of an order it
  was not shown (`blind`). It stays behind until the next change.
* A page may have its websocket open, and the lists it fetches then, before the hub
  has registered it (`hub.go:76`, 90). A change published in between reaches it neither
  way (`untold`), and it stays behind until the next change.
* Nothing fetches the core's state when the web socket is open again, and the reply
  of a call may come after events that are newer than it: the page shows an old
  state until the next event (`misled`).
* A restarted scheduler has forgotten what ran in this minute and may run it
  again, though never beside the first run. An edit that is still being served
  after the scheduler's stop at shutdown starts it anew.
* A run that outlasts the deletion of its task records a log for it (`outrun`).
* While a second download is under way, an update that the first one has made
  available can be applied with an archive that is not whole.
* The helper gives up after the backend has ended when the lock is taken or the
  archive is bad; then the application is not running until a user starts it.
* A subscription that fails in a refresh of all (its script, or the write of its
  file) has already changed its entry in memory, and the entry is saved with the
  others': entry and file part, no revision moves, nobody is told (`torn`).
* A subscription that is edited by hand and has a script: a refresh puts what the script
  made into the entry and leaves the file alone, although nothing has failed
  (`service.go:1275`-`1284`, `torn`). A group that
  names a node by its id then takes the node's tag from the entry and looks for it in
  the file.
* A list that cannot be saved after a content was written leaves the new content
  under the old revision, and the core is not told (`torn`, `passed`).
* A refresh leaves the revisions of items alone, on purpose, so that an editor of
  settings stays valid; an editor of a content that was opened before replaces the
  refreshed content (`passed`).

* `generateInbounds` skips an enabled inbound without its settings, but
  `resolveEnabledInboundTag` still gives its tag; `NoDangling` takes inbounds to
  have their settings, as the pages write them.
* Nodes of two subscriptions that have one tag give two outbounds of that tag; the
  core refuses such a configuration when it is checked before a start.
* A generation between the two writes of a refresh mixes versions; the change
  restarts the core afterwards (`NodesAreMeant`). Of a subscription that is `torn`
  every generation does, and nothing restarts the core; `NodesAreMeant` says nothing of
  either, but that the groups agree.

## 4. Proofs

`KernelProofs` proves of `Kernel`, for all sets of threads, profiles, numbers of processes
and failure options, from `CoreStateAssumption` and `KernelAssumption` (the sets
of threads are disjoint, the switches are Booleans):

| Theorem | Says | Along |
|---|---|---|
| `TypeCorrect` | `Spec => []TypeOK` | inductive by itself; one step per action |
| `RestartsAreServed` | `Spec => []PendingIsServed` | `QueueInv`: the worker's place in its loop, `restarting` as long as it works, and a target wherever a notifier is about to enqueue |
| `ShutdownRevokes` | `Spec => []ClosingRevokes` | `ClosingInv`: no credential and no RUNNING once `closing`; a credential only while running otherwise |
| `StatusStaysTrue` | `~SlowGuard` and `Outcomes \subseteq {"none"}` imply `Spec /\ []OneAtATime => []StatusIsTrue` | `StatusInv` |
| `ReloadsStayCurrent` | `AutomaticOnly` implies `Spec => []ReloadsAreCurrent` | `ReloadInv` |
| `ShutdownIsFinal` | `Spec => []ClosedIsFinal` | `ClosedInv`: what each stage of the shutdown has established (guards refused, awaited guards finished, operations over) and that no later step undoes it |

`ClosingRevokes` alone is not inductive: `Halt`'s first half and the exit handler
preserve it only because a service that is not running holds no credential.
`ClosedIsFinal` needs the stages before: that `WaitGroup` members cannot join
once `closing` is set, that a guard cannot appear once guards are refused, and
that `awaited` covers every guard there is.

`StatusStaysTrue` says what `StatusIsTrue` needs. `OneAtATime` is a condition on the
behaviour: while a thread waits for the guard of the core it stops, no other has
claimed the service for a start, nor the other way round. Requests may come and wait,
changes may queue restarts, cores may exit and launches fail at any moment, and the
application may close. Each condition has a counterexample without it: the first
finding for `OneAtATime`, the second for `Outcomes`, and with a guard that outlasts a
stop (`SlowGuard`) the service shows CRASHED over a core that lives. `StatusInv`
holds as long as the application is not closing; it says that the service's pid is
that of a core whose reader has not called `OnExit` (`PidIsHere`), that STARTING,
STOPPING and a guard being launched each have the thread that ends them
(`HasWorker`), and what the thread knows of its core at every step (`Follows`): the
status is STARTING until the core is gone and CRASHED from then, or STOPPING and then
perhaps STOPPED. A thread that works is thereby alone (`WorksAlone`), so each step has one
thread to be shown for (`StatusOf`). From `shut # "open"` on, `ClosingRevokes` is
all there is to say.

`ReloadsStayCurrent` takes `AutomaticOnly`: nobody but the worker starts a core, and no
restart fails (`Limits of reloads`, section 3, has a counterexample for each part). Any
number of changes and selections may arrive at any step of a restart, with automatic
restarts or without; the core may be stopped, exit with any outcome or outlast its
stop, and the application may close. `ReloadInv` follows what is stale until the
shutdown begins. A running core that has not the stored content is shown as needing a
restart, or a change is on its way to it (`ChangeComes`: a notifier under way, or a
restart that waits), or the worker is about to replace it; and what the worker has
loaded (`Loading`) is as stored, or a change is on its way, although the core it
is for does not run yet (`ChangesArrive`). The same holds of selections
(`SelectionsArrive`), where `saveMu` leaves one on its way, and that the one stored
(`OneSelection`); without selections everything in the queue is about the first profile
(`OneProfile`), which is what the third finding breaks. `Working` keeps the worker from
waiting for a restart that is not there. Most steps start no core and bring no change:
`MildStep` and `MildAlone` show the invariant for all of these at once, from what they
leave alone; four lemmas are left, for the notifiers and for the worker where it takes a
restart up, loads the profile and has started the core.

`CoreGuardProofs` proves, for all sets of backends and guards, with short waits
or not, from `CoreGuardAssumption` (`Nobody` is neither, `KillableAt` are stages
of a living guard) and, where it says so, from `RecordedFirst`:

| Theorem | Says | Along |
|---|---|---|
| `GuardTypes` | `Spec => []TypeOK` | inductive by itself |
| `LiveCoresAreRecorded` | `RecordedFirst` implies `Spec => []LiveIsRecorded` | `IInv` |
| `OneCorePerDirectory` | `RecordedFirst` implies `Spec => Slot!Spec` | `IInv`, then every step is a step of `CoreSlot` or a stutter |
| `ClosingIsClean` | `Orderly` and `~Slow` imply `Spec => []ClosedIsClean` | `EndInv` |
| `EndedGuardsLeaveNoRecord` | `Orderly` and `~Slow` imply `Spec /\ []NoStrays => []CanLaunch` | `EndInv`, and the types |

`IInv` adds to the types and to `LiveIsRecorded` what each needs of the other:
`Exclusive` (the stages that hold a lock are taken by one process at a time) and
`RecordFits` (from the moment a guard has found no record, the record is its own
or none, and only a guard that started a child has a living one). `OneLiving`
then follows: two living cores would both be the recorded one, or one of their
guards would hold `core.lock` with a record of another. That nothing lives when
a backend begins to serve (`NothingLives`) or a guard starts a child
(`NothingLivesYet`) is what the steps of `CoreSlot` ask for.

`Orderly` (no guard is killed while it has a child) and `~Slow` are the restrictions
of `guard_endings`. `EndInv` says that a child has its guard, that a reader past its
reading has seen its guard end (`Followed`), and that a backend has one reader that is
not done and none that outlives it (`OneReader`). `CanLaunch` needs `NoStrays` as well:
the guard of a dead backend that has passed its check may take `core.lock` just when
the reader of the next backend's guard wants it to remove a record, and that reader
leaves the record (`core_client.go:255`). The run has one guard and does not meet it;
with two backends and two guards TLC finds it when `NoStrays` is left out.

`RuntimeProofs` proves of `Scheduler`, for any number of tasks, acts, seconds and logs, from
`SchedulerAssumption`:

| Theorem | Says | Along |
|---|---|---|
| `SchedulerTypes` | `SchedulerSpec => []SchedulerTypeOK` | inductive by itself |
| `RunsExclude` | `SchedulerSpec => []RunsDoNotOverlap` | `FlagsHold`: a run between claim and release has its task's flag, and no two have the same |
| `OneLoop` | `SchedulerSpec => []OneLoopRuns`: at most one loop is not cancelled | inductive by itself |
| `OneStartAMinute` | `SchedulerSpec => []OncePerMinute` | `KeysInv`: the keys a loop has noted lie in the past, every start it made is noted, and keys follow the time |
| `NoLogsOfDeleted` | `SchedulerSpec => []DeletedLeavesNoLogs` | `LogsInv`: what is deleted and quiet has nobody left who would write a log |
| `EditsMerge` | `SchedulerSpec => EditsAndRunsMerge` | action by action |

The run has one task and at most three acts; the theorems hold for runs that overlap in
any number. `AppUpdateProofs` proves, for any set of downloads, from
`AppUpdateAssumption`:

| Theorem | Says | Along |
|---|---|---|
| `AnExecutableSurvives` | `AppUpdateSpec => []ExecutableSurvives` | `FilesSurvive`: which of the target, the new file and the backup there are at each step of the helper |
| `UpdateTypes` | `AppUpdateSpec => []AppUpdateTypeOK` | with `FilesSurvive`, since a process needs an executable |
| `HelperIsAlone` | `AppUpdateSpec => []ReplacedAlone` | `LockHolds` and `CoreIsGone`: a helper past its waits holds the lock, and no core is left |
| `ArchiveIsSafe` | `AppUpdateSpec => ArchiveIsTheHelpers` | action by action, from the same |
| `AvailableArchivesAreWhole` | `AppUpdateSpec => []AvailableIsWhole` | `PartialIsWritten`: a file that is not whole is being written by a download that is under way |

`KernelProofs` proves of `CoreFiles`, for any downloads, rollbacks and releases, failing,
cancelled and killed anywhere, from `CoreFilesAssumption`:

| Theorem | Says | Along |
|---|---|---|
| `CoreFilesTypes` | `CoreFilesSpec => []CoreFilesTypeOK` | `Tidy`: types, no two names of one file, and who holds `restartOperationMu` is at work |
| `InstallationIsImplemented` | `CoreFilesSpec => ImplementsInstallation` | `crossed \/ (Alone /\ Sound)`, then each step is one of `Installation`, a stutter, or a crossing |

`Tidy` holds always. `Sound` (the core and its backup are whole, and what a call has
checked is still so) holds until calls cross, and by `Alone` one call at most is then
between its check and its renaming. Every kill in between leaves files that `Installation`
allows; a crossing is the step at which `ImplementsInstallation` ends (section 3).

`ResourcesProofs` proves, for any number of items, browsers, calls and restarts of
the server, from `ResourcesAssumption` (of the sets, `Ids` is finite; `Nothing` is no
number, event or synchronization):

| Theorem | Says | Along |
|---|---|---|
| `RevisionsNameContents` | `ResourcesSpec => []RevisionNamesContent` | `ItemInv` |
| `DocumentsAreImplemented` | `ResourcesSpec => ImplementsDocuments` | `ItemInv`, then each step is a step of `Documents` or a stutter |
| `ReordersReplaceWhatWasSeen` | `ResourcesSpec => ReordersAreInformed` | `OrderInv` |
| `QuietPagesAreCurrent` | `ResourcesSpec => []QuietIsCurrent` | `QuietInv` |
| `ResourcesTypes` | `ResourcesSpec => []ResourcesTypeOK` | `TypesInv`, with all of these and `IdleInv` |

`ItemInv` says of every copy of an item there is, in a page, an editor, a call, a
reply or a list that is on its way, that it is `KnownAs`: the revision it has was given
by an instance no later than the server's, is not newer than the state's, and is the
server's current one for the same content only. A step of the server gives new
revisions to what it changes and to nothing else (`ServeDoes`), so copies stay known. For
the refinement an accepted edit is `Accept`, a refusal or failure `Refuse`,
a crash `RefuseAll`, and a page that makes a call `Ask`.
Orders need more than items: a page may hold the revision of an order without
having been told that order, when a reply to its own edit has moved it. `OrderInv` collects
all lists that pages, replies and the server tell (`Told`) and says that they are of
one history (`Agree`): one instance and state revision, one order; and that the reply
to a call tells what the state just before it leads to (`Leads`), so that the page that
applies its own edit to what it has shows what the server has.
`QuietInv` follows the last change to each page: it is shown, or its call has yet to publish
it, or its event is queued, waits for the timer or is waited for by a synchronization, or a
list call that the synchronization has made will show it (`Coming`); this is said of pages
that are `Listening`, whose socket is open and which that change was not hidden from. A step may move it
from one of these places to the next, never past all of them, and that takes the rest:
what is queued or scheduled is of the instance that runs, so that the newest event wins
(`OnItsWay`, by the guard of `Boot`); replies of servers that died come before those
of the one that runs and are recognized as overtaken once one of the latter is shown,
so that no reply takes a page back (`InOrder`); and a synchronization has one call (`OneSync`).
Where nothing is left on its way the page has the server's revision, and by `Agree` its list.

`ResourcesTypeOK` is not inductive by itself. That a list, wherever it is, names each of its
items once takes the history of orders (`OrderInv`); that a queue never outgrows the channel
takes the disconnection of a page whose queue is full; and a page that does not
follow the events has nothing on its way, ever (`IdleInv`). `TypesInv` is what is left.

`CorePageProofs` proves, for any number of changes, requests and lost sockets, from
`CorePageAssumption`:

| Theorem | Says | Along |
|---|---|---|
| `CorePageTypes` | `CorePageSpec => []CorePageTypeOK` | inductive with the rest of `CorePageInv` |
| `PageShowsTheCore` | `CorePageSpec => []ShownIsTrue` | `CorePageInv` |

`CorePageInv` is the types with `RepliesAreTrue` (a reply is as old as what it read), `OnTheWire` (what
the page has not seen is on its way, in the order of the changes, one of it at most
not yet published) and `Seen` (a page that has seen the last change shows it unless it
was misled since).

`RuntimeProofs` proves of `Sources`, for any sources, calls, failures and crashes, from
`SourcesAssumption` (there is a source):

| Theorem | Says | Along |
|---|---|---|
| `OneCallHolds` | `SourcesSpec => []MutexHeld`: one call at a time holds the mutex of a list | `HeldInv` |
| `SourcesTypes` | `SourcesSpec => []SourcesTypeOK` | `HeldInv` |
| `EntriesDescribeFiles` | `SourcesSpec => []SourcesAgree` | `AgreeInv` |
| `ListsAreNotUndone` | `SourcesSpec => NothingIsUndone` | `AgreeInv` |
| `EditsReplaceWhatWasSeen` | `SourcesSpec => SavesAreInformed` | `EditorInv` |

`HeldInv` is types, mutual exclusion, and that what a call has loaded is the list
still, but for what it has changed itself (`WritesKnow`): the reason why a save of
a whole list undoes nobody. Steps are sorted into five kinds (`StepDoes`: an editor
opens, a call starts, works, ends, the server dies), so that the two other invariants
are shown for kinds instead of for steps. `AgreeInv` adds that the entry of a source describes
its file, unless it is `torn`, or the call that holds the mutex has written one of them
so far; a refresh knows for which of its sources what it has in memory is what is
in their files (`Aligned`), and the others are `torn` once it has saved the list
(`RefreshersAreAligned`);
`EditorInv` that an editor whose revision is current, and that was not passed by,
has seen the settings and the content there are.

`GeneratorProofs` proves, for any profiles, subscriptions, nodes and versions of them:

| Theorem | Says | Along |
|---|---|---|
| `NormalizationFits` | of every configuration that is `WellTyped`, has a route and is not refused, `normalizeRuleSetHTTPClients` makes one whose rule sets are downloaded through the same outbounds, which the core accepts, and to which it does nothing more | `PutsIn` |
| `GeneratorTypes` | `GeneratorSpec => []GeneratorTypeOK` | `GeneratorInv` |
| `NodesInGroupsAreMeant` | `GeneratorSpec => []NodesAreMeant` | `GeneratorInv` |
| `NothingDangles` | `GeneratorSpec => []NoDangling` | `GeneratorInv`, then what each part of the configuration names |
| `HTTPClientsFit` | `GeneratorSpec => []ClientsFit` | `ClientsInv`, and `NormalizationFits` for the last step |

`NormalizationFits` is about one function and every configuration it may be given. `PutsIn`
says what it changes: a shared client that can be used can be used afterwards and goes
where it went, the default is one of these, and a rule set without a client gets what
the default was before; each of the three claims is shown from that alone.
`GeneratorInv` is about the generation beside refreshes and deletions: which versions
have been read and are on disk (`VersionsInv`), how far it has come (`CursorInv`),
and that what is collected for the group at hand is what its references so far mean, at one
version of each subscription (`MembersInv`), as the groups before it have all of theirs
(`GroupsInv`). `NodesAreMeant` by itself says nothing before the end.

The assumptions are those of the modules. `NamesAssumption`: an index is not
formatted as the empty text, and the names of `nextTag` differ. `GeneratorAssumption`: a
version is a list of nodes, and no subscription has the id of a kind of reference that
the pages reserve. `ProfilesAssumption`: lists are lists, an enabled inbound has its settings,
the id of a reference is not empty (the pages take it from a list), mixin and script give
values of the types that the code's own checks let through, and the JSON of a raw rule names what
is there, which nobody but its author can see to. TLC evaluates all three for the 549
profiles of `services`.

The lemmas about lists (of what is folded, chosen and collected) need an induction, and
the library's induction theorems take an operator as a parameter, which cannot be
cited here. `SetInduction` is induction for a set of numbers, from what the library says of
strict subsets of finite sets, which are well-founded; each lemma defines the set of
lengths for which it holds.

`ServicesProofs` and the end of `KernelProofs` lift all this to the runs of several
components: `EachRunsByItself` says that a behaviour of `ServicesSpec` is one of
`ResourcesSpec`, of `SchedulerSpec`, and so on; `EachRunsAsItself` the same of
`KernelFilesSpec`. What the runs check is what is proved, then, for every value of the
constants:

| Theorem | Says |
|---|---|
| `ServicesTypes` | `ServicesSpec => []ServicesTypeOK` |
| `ServicesAreSafe` | `ServicesSpec` implies every other invariant and action property of `services` |
| `KernelFilesAreSafe` | `KernelFilesSpec` implies every invariant and action property of `kernel_storm`, and `ImplementsInstallation` |

Only model-checked:

* the liveness properties (`CallsReturn`, `LossIsDealtWith`, `RestartEnds`, `RunsEnd`,
  `Settles`, `UpdateEnds`): fairness and `ENABLED` are beyond the prover;
* `StatusIsTrue` in `kernel_requests`, whose restart may claim the service while the stop
  waits, so that `OneAtATime` fails, but finds no second core to launch (without the
  restart `OneAtATime` holds); `kernel_stop_then_start` shows that it fails with one;
* that the constants of the runs are what the code has: the profiles, and the lists of nodes.

## 5. Plan

Done: `Kernel`, `CoreGuard`, `CoreFiles` with `Installation`, `Resources` with `Documents` and the queues of the
event hub, `Scheduler`, `AppUpdate`, `CorePage`, `Sources`, `Generator` with
`HttpClients`; proofs about all of them, with all three refinements: every invariant and
action property that a passing run checks is a theorem, under the conditions named in section 4.
Left, in this order:

1. `Application`: the order of start and close over what the services promise.
2. Authentication: sessions and the lockout; the hub's `Close`.

### Not modelled, and why

* Generated code (protobuf and connect, over 20,000 of the implementation's
  lines) holds no logic of the program.
* The subscription parser translates documents, sequentially and without state;
  what could be wrong in it is the content of documents, which a model would have
  to spell out. Of the configuration generator that holds for the fields that name
  nothing else.
* Transport, logging and views: routing, rendering and rolling files.
* Version probes and release queries read and answer; they change nothing.

## 6. Running

    tlc -config kernel_storm.cfg MCKernelFiles
    tlc -config guard_crashes.cfg MCCoreGuard
    tlc -config services.cfg MCServices
    tlc -config kernel_requests.cfg MCKernel
    tlapm KernelProofs.tla
    tlapm CoreGuardProofs.tla
    tlapm ResourcesProofs.tla
    tlapm RuntimeProofs.tla
    tlapm AppUpdateProofs.tla
    tlapm CorePageProofs.tla
    tlapm GeneratorProofs.tla
    tlapm ServicesProofs.tla
