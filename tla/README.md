# A verification model of the Proton Drive sync client

This directory holds TLA+ modules that model the client's sync core, the views it
plans from, its session and its processes; TLC configurations that check them on
small instances; and TLAPS proofs of what matters most for every instance.  All
paths below are relative to the repository; `engine/engine.ts` and the like mean
`src/src/engine/engine.ts`, and `sync-execution/spec.md` means
`src/openspec/specs/sync-execution/spec.md`.

The program keeps a local folder and a folder of a Proton drive equal.  It is
one Node.js event loop: code between two `await`s is atomic, everything else
interleaves with other tasks of the program, with the users of both sides, with
the remote service and with crashes.

## 1. Inventory

| Component | State it keeps | Operations | Talks to | What is hard, and what makes it correct |
|---|---|---|---|---|
| Engine cycle (`engine/engine.ts`) | running flag, dirty flag, pause flag, last snapshot, executor of the moment | start (recover, catch up, loop), trigger, cycleOnce, gateAndExecute, pause/resume, confirmHeldPlan, resolveConflict, stop | everything | single flight against three other entry points that execute; a trigger during a cycle must lead to another; every cycle ends in a status that is true |
| Status machine (`engine/status.ts`) | one state | setState along allowed transitions | engine, control | no transition the engine makes may be refused |
| Views (`engine/views.ts`) | – | snapshot + baseline → local view with digests | engine, digests | a digest is left out only when the stat proves it |
| Decision engine (`reconcile/*`) | none (pure) | remote paths, classification per side, 5×5 table, folder guards, orphans, occupancy, order | engine | an action for one item must not destroy what another holds; a difference is acted on, a conflict, or reported; plans converge |
| Executor (`execute/executor.ts`, `execute/localWrite.ts`) | folders made, cancelled and halted flags, tasks in flight | eight kinds of operations, prechecks, retries, commit | journal, baseline, both sides | check-to-use windows, lost replies, concurrent transfers, retry of what already landed |
| Verified transfers (`remote/transfer.ts`) | – | upload new file / new revision, download and verify | remote | the uploaded bytes are the ones hashed; a verification failure says what happened |
| Journal (`state/journal.ts`) | entries planned → in_progress → completed / failed / abandoned | plan, start, recordRetry, complete, fail, abandon | store | written before the effect, resolved exactly once |
| Baseline (`state/baseline.ts`) | rows path ↔ uid | upsert, remove tree, rename tree | store | unique path and uid; a row is a state that both sides had |
| Recovery (`execute/recovery.ts`) | – | classify each in-progress entry by inspection | journal, both sides | an interrupted operation is neither lost nor repeated, and recovery ends |
| Recycle bin (`safety/recycle.ts`) | dated bin folders | recycle, restore, retention | executor, cli | nothing is deleted before its retention |
| Quarantine (`safety/quarantine.ts`) | rows per failed item | add, list, release, sets | engine, recovery | what is quarantined is not touched and not forgotten |
| Brake (`safety/brake.ts`) | held plan | gate, confirm, reject | engine, control | a confirmation deletes exactly what was shown |
| Preflight (`safety/preflight.ts`) | – | space, session, roots | engine | no plan runs against a missing root |
| Conflict handler (`conflict/*`) | conflict table | handleNew, resolve | engine, baseline, journal | no content of a conflict is lost, the user gets what he chose, a crash in the middle is recovered from |
| Remote mirror and events (`engine/remoteMirror.ts`, `remote/events.ts`) | nodes, complete, available, asOf; the cursor in the store | full listing, apply event, poll, heal after a long silence | engine, remote | listings and events overlap; a crash replays events; a stale view is not taken for an absence |
| Local watcher (`local/watcher.ts`, `local/snapshot.ts`) | snapshot, dirty paths, requested scan, chain of tasks | inotify events, debounce, incremental update, full scan, refreshNow | engine | no change is dropped between events and scans; an incomplete snapshot says so; a missing root deletes nothing |
| State store (`state/store.ts`) | SQLite file, lock file | lock, open, migrate, close | all tables | one process at a time; a crash at any step |
| Session and login (`remote/proton/*`, `config/secretStore.ts`) | tokens, key password, gate; the stored session | request loop, refresh, sign-out, login, logout | SDK, engine, cli | one refresh at a time, no blind retry of a mutation, every request ends |
| Control socket (`engine/control.ts`) | socket file, clients | probe, listen, dispatch, close | engine, cli, tray | the engine that works is the one that answers |
| Factory (`engine/factory.ts`), command line (`cli/commands.ts`), configuration | – | wiring; archive of the baseline of another remote root; run, setup, login, logout | store, session | a start that is cut off loses no baseline and works on no foreign one |
| SDK adapter, audit log, tray and panel, test doubles | – | I/O and presentation | – | see section 8 |

`PROJECT.json` lists every component with its status, and every hazard with the
line where it bites and the properties that cover it.

### How the parts interact

```
 watcher --snapshot--> views --+                       +--> conflict handler --> rescan, plan again
                               +--> reconcile --plan---+--> brake --> preflight --> executor
 events --> mirror ------------+        ^                                             |  |
   |                                    |  baseline, quarantine                       |  +--> both sides
   +-- cursor --------------------------+----------- store (SQLite) <-- journal ------+
                                                        ^       ^
                             recovery at start ---------+       +-- lock: one process
 every remote call --> request loop --> refresh --> credentials --> secret store <-- login, logout
```

## 2. Modules

| Module | Models | EXTENDS |
|---|---|---|
| `SyncData` | items, nodes, baseline rows, operations, and the tree operations of the baseline table | community modules |
| `Executor` | the executor, localWrite, transfers, journal, recovery, recycle bin, and the environment: users of both sides, errors, lost replies, crashes, pause, cancel | `SyncData` |
| `Reconcile` | the decision engine, as operators from an input record to the set of plans | `SyncData` |
| `Sync` | the two composed: the plans the executor runs are those the decision engine makes | `Executor`, `Reconcile` |
| `ConflictHandler` | `Sync` with the conflicts of a plan handled and resolved: handleNew() one effect at a time, the plan after it, the inbox, resolve() | `Sync` |
| `Engine` | the cycle scheduler, the status machine and the brake, over differences instead of trees; the watcher, the mirror, the session and the runs of the executor as the engine sees them | standard modules |
| `LaggingView` | abstract: a view of a tree that others change, brought up to date by readings that take time and overlap | standard modules |
| `RemoteFeed` | the mirror, its listings, the event feed and its cursor; implements `LaggingView` | standard modules |
| `LocalWatcher` | the snapshot, its scans, batches of events and tasks; implements `LaggingView` | standard modules |
| `Session` | the API client's requests and refresh, credentials and secret store, and the commands that share them | standard modules |
| `Instance` | processes over one lock, socket and store, and `setup`, which changes the pair | standard modules |
| `MCSync`, `MCConflictHandler`, `MCEngine`, `MCRemoteFeed`, `MCLocalWatcher`, `MCSession`, `MCInstance` | the small worlds TLC starts from | the module they name |
| `ExecutorProofs`, `ExecutorStepProofs`, `SyncProofs`, `EngineProofs`, `FeedProofs`, `WatcherProofs`, `SessionProofs`, `InstanceProofs` | theorems | the module they name, TLAPS |

### State

| Variable of `Executor` | In the code |
|---|---|
| `fs` | files and folders below the sync root; `ino` the inode, `ver` size and mtime as one version that is never reused, `data` the content |
| `recycled` | `safety/recycle.ts` bin |
| `drive`, `olds` | nodes of the drive by uid; contents of superseded revisions |
| `base` | table `items` (`state/baseline.ts`), keyed by path |
| `journal` | unresolved rows of table `journal` |
| `quarantine` | the sets of `quarantine.sets()` |
| `plan` | what is left of `plan.operations` in `execute()` |
| `tasks` | `runOne()` calls in flight: `att` the attempt, `pc` the await it is at, `hold` the local variables that live across it |
| `awaited` | the `Promise.all` of the running batch |
| `made`, `ctl` | `createdRemoteDirs`, and `cancelled` / `halted` / the engine's pause |
| `mode` | "recovering" while `recoverOnStartup()` runs |

`clock` gives fresh inodes, versions, uids, revisions and journal ids.

| Variable of `ConflictHandler` | In the code |
|---|---|
| `inbox` | open rows of table `conflicts`, oldest first |
| `handler` | `handleNew()`: where it is, the conflicts left, the one at hand and its copy's name |
| `wanted` | history: what each resolution of the user asks for, and what it gives up |

| Variable of `Engine` | In the code |
|---|---|
| `work` | what differs between the two sides: the reason to plan an operation |
| `localView`, `remoteView`, `mirror` | the watcher's snapshot and the mirror's nodes, as the differences they show; `complete`, `available` |
| `rootUp` | `localRootAvailable` |
| `session`, `subscribed` | the status of `SessionState`, with the gap in which the API client signs out; whether `start()` left its listener |
| `startup`, `feed` | the await of `start()`; the event feed and the listing timer run |
| `state`, `userPaused`, `stopped`, `dirty`, `timer` | the fields of those names, `timer` is `triggerTimer` |
| `cycle` | `cycleRunning`: the await it is at, and the locals that live across it |
| `runs`, `executor` | the `executePlan()` calls in progress by caller; whose run `this.executor` is |
| `gate`, `seq` | the held plan and the counter of `PlanGate` |
| `handled`, `conflicts`, `quarantined` | conflicts that `handleNew()` detached, open conflicts, open quarantine entries |
| `shown`, `left` | history: what each number of a held plan was first given for; what was knowingly left undone since the last plan |

| Variable of `RemoteFeed` | In the code |
|---|---|
| `past`, `events` | the drive: every tree it held, and one event per change |
| `cursor` | the event id stored under the feed's key (`remote/events.ts`) |
| `nodes`, `complete`, `available`, `asOf` | the fields of `RemoteMirror` |
| `phase` | how far `SyncEngine.start()` has come with the feed |
| `listings` | `fullRefresh()` in progress, by caller: the folders left and the nodes found |
| `poll` | `poll()`: the await it is at, the events it was served, the node it read and when |
| `degraded` | `degradedRefreshRequested` |
| `excused` | history: nodes the mirror may be wrong about until an undisturbed listing |

| Variable of `LocalWatcher` | In the code |
|---|---|
| `past`, `fresh`, `notices` | the file system: every tree there was, files younger than `settleMs`, paths whose event is under way |
| `snapshot` | `currentSnapshot` with `entries`, `unsyncable`, `complete` and the root's identity |
| `dirty`, `debounce`, `requested`, `rootDown` | `dirtyPaths`, `debounceTimer`, `scanRequested`, and whether the root is known to be away |
| `tasks`, `jobs` | the chain `processing`; the scan of `start()` and the head of the chain, each with its locals |
| `refresh` | a caller of `refreshNow()` |
| `phase`, `excused` | how far `start()` has come, and whether it failed; history as above |

| Variable of `Session` | In the code |
|---|---|
| `server`, `applied` | per login the tokens the server takes; how often each request took effect |
| `store` | the secret store |
| `info`, `key`, `cached`, `status` | per process, `SessionCredentials` and `SessionState` |
| `req` | the requests, and under a process's name its `activeRefresh`: where it is, with which token, the attempt, the answer |
| `gate` | `throttledUntil` is in the future |
| `job`, `saving` | calls of the secret store in progress |
| `cmd` | the command that runs beside the engine |
| `harmed` | history: something happened that may cost the engine its session |

| Variable of `Instance` | In the code |
|---|---|
| `config` | the pair in the configuration file |
| `lock`, `socket` | the lock file with its maker and whether the pid is in it; the socket file |
| `root`, `archive` | meta `baseline_remote_root` and `archived_baseline` |
| `rows`, `journal` | the baseline and the journal, by the pair a row is about |
| `pc`, `attempt`, `pair`, `listening` | the processes: where `run` is, the attempt at the lock, the pair it read, whether its socket answers |
| `raced` | history: a process removed the lock file of one that lives |

### Actions

An action is what runs between two awaits.  `MakePlan` is a cycle up to the
first line of `execute()`; `StartBatch` and `KeepBooks` its loop; `StopEarly`
what a pause, a cancel or a halt does to the rest of a plan.  A task goes
through `Precheck*` (fingerprints of both sides, then `journal.start`), the
steps of its kind under `Act` (`Read`, `Upload*`, `Download*`, `Move*`,
`Recycle*`, `Trash*`, `Create*`, `CommitStep`), and on an error through
`StepFails` / `TransferFails` / `RemoteFails` and `Retry`.  `Raise` is the
`catch` of `runOne`: retry, halt, or quarantine by the kind of error; `Throw` is an
exception of `runOne` itself, which makes `execute()` reject while the other
tasks of the batch run on.  `Recover*` are the verdicts of `inspect()`.
`Crash` drops everything but `sides`, `store` and `clock`.

`Reconcile` has one operator per phase: `RemotePaths`, `Classify`, `Table`,
`Apply`, `Kept` (the folder guards), `PlanRow`, `PlanNewTwin`, `PlanNewLocal`,
`PlanNewRemote`, `Withheld`, `Unoccupied` (occupancy), `Acyclic`, `Orders`.

`ConflictHandler` adds `CycleOnce` and `Replan` (the two plans of a cycle), the
steps of `handleNew()`: `LookAt`, `PlanRename`, `StartRename`, `RenameLocal`,
`DetachRenamed` or `DetachGone`, `Detach` and `DetachNode`, `NoteConflict`, with `NodeFails` and
`RenameThrows`; and `ResolveConflict`, with one operator per branch of `resolve()`
(`ResolveContent`, `ResolveMove`, `ResolveApart`).  Each of them is an effect on
disk, and `CrashInHandler` may come after any.

`Engine` has one action per stretch between two awaits of `start()`
(`StartRecovered`, `StartWatched`, `StartListed`), of `cycleOnce()`
(`CycleListing`, `CyclePlans`, `CycleHandles`, `CycleReplans`) and of
`gateAndExecute()` (`PreflightFails`, `CycleGates`, `CycleRunEnds`), one per
input (`LocalChanges`, `RootUnavailable`, `RemoteEvent`, `PeriodicListing`,
`TimerFires`, `Throttled`, `SessionCleared`, ...) and one per user control.
`EndOnce` is the loop of `runCycle()`: the next cycle begins in the step in which the
last one ends.  `RunItem` is one operation of a run, `ConfirmRunEnds` and
`ResolveRunEnds` are the other two callers of `executePlan()`.

`RemoteFeed`: a change of the drive is one action with its event.  A listing is
begun (`StartLists`, `EngineLists`, `EventRefreshes`, `PollFails`), reads a folder per
step (`ListFolder`), and replaces the mirror (`ListingEnds`) or makes it incomplete
(`ListingFails`).  A poll is `PollBegins`, `PollAnswered`, per event `EventReads` and
`EventApplied` (a node event carries no data: the node is read, and what was read
arrives later), `EventDeletes` or `EventRefreshes`, then `CursorStored`.

`LocalWatcher`: a full scan looks at the root (`ScanRoot`), reads a folder per step
(`ScanFolder`) and ends (`ScanEnds`, `ScanFindsNoRoot`); a batch takes the dirty paths
(`BatchTaken`), looks at each (`PathRead`, `FileSettles`, `FolderScanned`), leaves what is
still being written to a later one (`BatchPostpones`), and publishes (`BatchEnds`) or throws
(`BatchThrows`).  What stands at a path (`Stands`) and what `lstat()` finds there (`At`) are
two things: below a folder that cannot be read it finds nothing, and a batch takes any
error of it for a path that is gone.  Without a root `start()` rejects, and the watcher
stays `failed`.  `EventsArrive`, `DebounceFires`, `ScanRequested`, `WatcherFails` and
`RefreshCalled` put tasks into the chain.

`Session`: a request is begun, sent, answered by the server, and goes on by its answer:
`Succeeds`, `Unauthorized` (refresh, wait for the one that runs, or give up), `Throttled`,
`Failed`.  The refresh is a request itself and goes through the same actions;
`RefreshGiven` and `RefreshRefused` end it, `StoreDone` or `StoreFails` ends its saving and
settles those who waited.  `GetCachePassword` saves on its own.  `CommandStarts`,
`WebApproved`, `PasswordAccepted`, `LogsOut`, ... are the other process.

`Instance`: one action per call of the file system and per statement of the store, along
`run`: `Probes`, `LockCreated`, `LockWritten`, `LockRead`, `LockRemoved`, `Opened`,
`RootRecalled`, `BaselineArchived`, `BaselineCleared`, `RootRecorded`, `Connects`,
`SocketProbed`, `SocketUnlinked`, `SocketBound`, `Recovers`, `OperationBegins`,
`OperationEnds`, and the way down.  `Crashes` may come between any two.

`PROJECT.json` "map" gives the source lines of every definition.

### The abstract specification

`LaggingView` says what the engine may rely on when it plans from a view.  Readings
begin at some moment of the past and may overlap and end in any order; what a
reading puts into the view is never older than its own beginning, and a thing that
stood in one place all the while is never missing from it.  Both `RemoteFeed` and
`LocalWatcher` implement it (`LagsOnly`), with `shown` mapped to what the
mirror or the snapshot says (a mirror that is complete and available denies what it does
not list, and so does any snapshot but of what it hides) and `readings` to the listings,
scans, batches and event readings in progress.  For the watcher a path stands in a place
as long as `lstat()` can find it: a file below a folder that is shut for a while may be
missing (`local/watcher.ts:236-243`), which is what `folder_hidden` is about.  That they refine the same specification
is what lets the decision engine treat both sides alike.

## 3. Properties

| Property | Says |
|---|---|
| `TypeOK` (one per module) | the shape of every variable; in `Executor` also that a task and its entry agree on the operation, in `Engine` that `this.executor` is one that runs and a held plan has a number that was given out, in `LocalWatcher` that a caller of `refreshNow()` has a task in the chain |
| `TasksJournaled` | a running task has an unresolved entry of its own operation, in progress as soon as it may have changed anything |
| `NoneStranded` | while the program is up, every entry in progress has a task |
| `BaselineTruthful` | when neither side of a file has changed since its row was written, both have the same content |
| `NothingMissed` | when a plan of fresh views has nothing to do and nothing to report, the sides are equal |
| `NothingLost` | no step of the program destroys the last copy of a content (either tree, bin, old revisions) |
| `WriteAhead` | what a step of the program changes is announced by an in-progress entry before it |
| `NoRepeatedRevision` | the attempts of one plan do not upload one content twice for one file |
| `ComesToRest` | again and again, nothing runs and nothing is left to recover |
| `Converges` | cycles come to an end, with equal sides but for what is reported and the moves that wait for the user |
| `NewsKept`, `LocalNewsKept` | a content that was never in sync is not overwritten, recycled or trashed, unless the user gives it up |
| `OnlyTrashTrashes` | a node gets out of sight only by a trash operation on it or a folder above it |
| `ChoiceObeyed` | when all is done, the version or the place the user chose for a conflict is there |
| `RestIsTruthful` | when all is quiet and the status says idle or attention, nothing is left to do but what is quarantined or was knowingly left; and the status does not go on saying scanning or syncing |
| `ConfirmedOnly` | a confirmed plan destroys only what its number stood for when it was given out |
| `StopLeads` | `stop()` ends in the state stopped |
| `Served` | without failures, what changes is synced by the cycles it triggers alone |
| `Recovers` | after failures of any kind, the periodic listing brings about the cycle that does the rest |
| `LagsOnly` (feed and watcher) | the view implements `LaggingView` |
| `CaughtUpIsTrue` (feed) | a complete mirror is right about all but the excused whenever the cursor is at the last event |
| `CaughtUpIsTrue` (watcher) | with every event handled and nothing under way, the snapshot is right about all but the excused |
| `Heals` (feed and watcher) | once the tree is left alone, the view becomes right for good |
| `RefreshHolds` | after `refreshNow()` the snapshot shows what was written before the call, or something newer |
| `NoDeletesWithoutRoot` | a batch during which the root was away leaves the snapshot as it was |
| `SessionKept` | requests side by side never cost the engine its session |
| `AppliedOnce` | a request that is not idempotent takes effect at most once |
| `RefreshesWhenRejected` | no refresh is begun while the server takes the access token the process holds |
| `EveryRequestEnds` | again and again, a process has no request under way |
| `OneUnlessRaced` | two processes never have the store open at once (unless raced for, see section 7) |
| `Reachable` | the process that synchronises is the one that answers the socket |
| `OldRowsArchived` | no cycle works on rows recorded with another remote root |
| `NothingForgotten` | a row leaves the baseline for another pair only once it is archived |
| `AbsenceIsDeletion` | what a complete snapshot neither lists nor hides is not there (violated) |
| `ComesUp` | after a crash the engine comes up again (violated) |

Every property of a passing run has a mutant in `PROJECT.json`: a plausible bug in a
definition, kept beside it under the comment "Mutant", with which TLC finds the
property violated.

## 4. Runs

| Run | Setting | Result |
|---|---|---|
| `faults` | thirteen worlds, one per kind of operation and one with two transfers; every error, lost replies, two crashes, a pause and a cancel, two retries, and a user who deletes something on either side, or restores it, at any time | passes, 42,259 states |
| `changes` | every pair of a local and a remote change of a small tree (12 by 13 of them), and worlds moved apart; conflicts handled, and resolved in any way up to twice; up to nine plans | passes, 8,625 states |
| `race` | the thirteen worlds and two with conflicts, with a user of either side who does any one thing at any time, a lost reply, a crash (also inside the handler), one retry, two plans | passes, 952,746 states |
| `engine` | two local differences and one remote, one of them a conflict, the other two destructive, every one of them held by the brake; confirm, reject and resolve, two commands, one change, throttling and a call that throws | passes, 2.9 million states |
| `engine_live` | a local difference that is a conflict and a remote deletion; all other commands, two of them; one change; one failure of eight kinds; with and without a session or a pause at the start | passes, 290,163 states |
| `feed` | one folder and one file, out of view or not there yet; two changes; one call that fails, or a crash | passes, 768,904 states |
| `watcher` | one folder and a file in it; two changes, an unreadable folder or a link among them, a root that goes or is replaced; one overflow, one `refreshNow()`, two tasks that wait | passes, 596,620 states |
| `session` | two requests of the engine and one of `setup`, two attempts, two logins, two calls or commands, two faults | passes, 449,377 states |
| `instance` | two processes, three starts, one `setup`, two crashes | passes, 847,990 states |
| `folder_hidden`, `recovery_stuck`, `moved_conflict` | a world each | violations, see section 7 |

Why these bounds are enough for what they check.

*The executor.*  The steps of an operation are
the same whatever the tree around it, so one item and one folder meet every
branch; two files are needed, and are there, for the interference
of two tasks, and a third has no step to add.  Two crashes cover a crash during the
recovery from a crash; two retries cover "first", "again" and "last".
`changes` has two levels and three items, which is what the guards of folders,
the name clashes and the moves across a folder border need; nine plans are more
than the longest convergence with two resolutions takes, which `Converges` checks.
In `race` the user acts once per behaviour, but between any two steps; the drive may hold
what he did in any order with the program.

*The engine.*  A difference has no content, so one per kind the engine tells apart
is enough: an ordinary one, one that is a conflict at first, and a
destructive one on either side, so that a held plan can shrink, grow or change.
One change after the start meets every await of a cycle, since TLC puts it
between any two steps; two commands let a confirmation overlap with another
one, a rejection or a resolution, and a pause be taken back; one failure is
followed by every recovery from it.  `BrakeLimit` is 0 in `engine`
(the percentage limit holds a single deletion of a small baseline) and 1 in
`engine_live`, where the one deletion passes.

*The views.*  What goes wrong takes one node and at most one folder above it: a node seen
too early, missed because it moved between two folders, or brought back by an older
reading.  Two changes are a move and a move back, or a deletion after an edit, and meet
two overlapping listings and a poll at every step; one failure or crash meets each of
them.  That nothing new happens with more of anything is proved for both views
(section 6).

*Session and processes.*  Two concurrent requests are needed for one that waits for the
other's refresh, the third belongs to the other process; two attempts are "first" and
"last"; two faults are an expired token and something that goes wrong with its refresh.
Two processes race for a lock; three starts and two crashes are a stale lock, a race for
it, and a start over what that left.

The bounds are constants: `MaxPlans`, `MaxCrashes`, `MaxEdits`, `MaxStops`, `MaxChoices`,
`MaxChanges`, `MaxCommands`, `MaxFailures`, `MaxFaults`, `MaxRefreshes`, `MaxQueue`,
`MaxLogins`, `MaxCalls`, `MaxStarts`, `MaxSetups`; the code's own limits are `Concurrency`,
`MaxRetries`, `MaxAttempts` and `BrakeLimit`; `Commands`, `Failures`, `Faults`, `Users` and
`Resolutions` say what happens at all.

`CHECK_DEADLOCK FALSE` is set everywhere: with no plan to make and the bounds
used up, the system rests.

`RacyUser = FALSE` in all passing runs keeps the local user out of the windows
between a check and a rename on the local file system (`Windows`): the program
cannot close them with POSIX calls, and a loss in them is not news.  Everything
between planning and those windows, the whole transfer included, is open to him.
Remote users have no such limit.

## 5. Fairness

`Fairness == WF_vars(Program)` in `Executor`, and `WF_all(HandlerProgram)` with the
conflict handler: the event loop runs what is ready, a call answers
or fails, a timer fires, and a process that died is started again (the service
is installed with restart).  Users, crashes, pauses and the decision to make
another plan have no fairness.  A backoff is an ordinary step: its length is of
no consequence for what is checked.

In `Engine`, weak fairness of each part of the code that is ready (`Start`, `Cycle`,
`Run`, the timer, the end of throttling, the end of a sign-out, `stop()`) and of each
input that follows from a change (`LocalChanges`, `RootRestored`,
`RemoteEvent` of each difference).  The watcher's own rescan and the feed's
polling stand behind the last ones; while the session is out there are no
events.  Users, failures, `RootUnavailable` and the periodic listing have
none; `Recovers` assumes the periodic listing, which is a timer that `start()`
sets, in its antecedent, so that `Served` shows that the triggers need no help from it.

In `RemoteFeed`, weak fairness of the start, of the listing interval, of each listing and
of the poll loop: these are timers and loops of the code, and a call is answered or
fails.  In `LocalWatcher`, of the start, of each scan, of the chain of tasks, of the
periodic scan and of time.  The changes of either tree and all failures have none; they
end because they are bounded, which is the "left alone" of `Heals`.

In `Session`, weak fairness per process of what it does next and of the answers it
waits for (each call has a timeout); not of a particular request.  Commands, and the
end of one at any step, have none.  `Instance` has only safety properties and
no fairness.

## 6. Proofs

All theorems hold for every value of the constants under the named assumptions of the
modules, which TLC evaluates in the runs.

### Executor (`ExecutorProofs`, `ExecutorStepProofs`)

From `NoneAssumption` (None is no number, name or content), `ExecutorAssumption`
(the constants have their types) and `WorldsAssumption` (the two sides the program
starts with are well typed and use no identifier that is yet to be given out, nor the root's), and for the
theorems on contents `TreesAssumption` (the local tree it starts with is one: no item without
its folder).
`Plannable` is arbitrary in the proofs: they hold for any planner, not only for
`Reconcile`.

* `TypeCorrect`: `Spec => []TypeOK`
* `TasksAreJournaled`: `Spec => []TasksJournaled`
* `JournalIsWrittenAhead`: `Spec => WriteAhead`
* `OnlyReplacingLoses`: `Spec => LostOnlyByReplacing`
* `NothingIsLost`: `Spec /\ []TargetsApart => NothingLost`, if `RacyUser = FALSE`
* `BatchesAreApart`: `Spec /\ [](PlanApart /\ NoneRunsOn) => []TargetsApart`
* `StrandedOnlyByKeys`: `Spec => OnlyKeysStrand`
* `NothingIsStranded`: `Spec /\ []RetriesCommit => []NoneStranded`

The inductive invariant is `Inv == DataInv /\ ControlInv /\ BoundsOK`.

* `DataInv` is `DataOK` (the sides and the tables) and `Fresh`: no uid of the
  drive is beyond the clock, so that a created node overwrites none.
* `ControlInv` adds to `TasksJournaled` that a task has the local variables its
  step reads (`TasksFit`), and that no task lives while recovery runs
  (`RecoveryAlone`), or a recovery could resolve an entry under a task.
  `TasksJournaled` alone is not inductive: that a step after the precheck has an
  entry in progress depends on nobody else resolving it.

The proof of `NextInv` treats control and data apart.  Each action of a task is
a lemma `...Control` (what it does to tasks and journal) and a lemma `...Data`
(what it writes to the sides and the baseline); `CommitRows` and `RecoverRows`
say that what a commit writes is a well-typed row.

`WriteAhead` needs only `ControlInv` and `DataInv`: a step that changes a side
is a step of a task past its precheck, whose entry is in progress by
`TasksJournaled`; what is left to show, per kind of operation, is that every
place it changes is one its operation speaks of.  A recursive removal or a
rename touches all paths under its target, and a download makes missing parent
folders, hence the lemmas on path prefixes.

`NothingLost` does not hold for all constants, and the theorems say how far it does.

* `OnlyReplacingLoses` has no hypothesis: all that the program can lose content by is the
  two calls of `rename()` (`execute/localWrite.ts:111`, `execute/executor.ts:428`), and only
  when something is at the target or below it.  Recycling keeps what it removes, an upload
  leaves the old revision, a new node overwrites none (`Fresh`), and a move of a tree to a
  free place brings no two items to one (`MovedApart`).
* `NothingIsLost` says when the target is free.  The check before the rename() looks at the
  target itself, not below it; that nothing is below needs that the local tree is a tree
  (`Rooted`, an invariant of its own: no operation leaves an item without its folder).  From
  the check to the rename() the target stays free (`TargetsFree`, the inductive invariant)
  unless another task or a user makes something there.  Both can: the two hypotheses are what
  the code relies on and does not check.  With `RacyUser = TRUE` TLC finds `NothingLost`
  violated in the worlds of `race`; `TargetsApart` (no task writes at, above or below the
  target of another) holds in every state of `race` and `faults`.
* `BatchesAreApart` reduces `TargetsApart` to the planner and to `execute()`: the transfers of
  a plan have unrelated targets (`PlanApart`), and no task outlives its batch (`NoneRunsOn`).
  The second is not always so: an exception out of `runOne()` ends `Promise.all()` while the
  others run on (`NoneRunsOn` is violated in the worlds of `faults`, `TargetsApart` is not).

`NoneStranded` is not so for all constants either.  `StrandedOnlyByKeys` shows that one step
only leaves an entry in progress without its task while the process runs: the retry of a
move that finds it landed and a row of another item in the way of the rename
(`state/baseline.ts:144`), the one exception that leaves `runOne()` between `start()` and the
resolution of the entry.  `NothingIsStranded` assumes that this does not happen
(`RetriesCommit`), and nothing else about plans, faults, crashes or users.

### The baseline and the decision engine (`SyncProofs`)

From the assumptions of the executor and `BaselinesAssumption`: the drive of a world is
finite, in its local tree a version stands for one content, a folder has neither version nor
content on the one side and no digest on the other, and the rows of its baseline say what
is so (`RowTold`).

* `OnlyStaleCommitsLie`: `Spec => OnlyMisrecordsLie`
* `BaselineIsTruthful`: `Spec /\ NoneMisrecords => []BaselineTruthful`
* `NothingIsMissed`: `Spec /\ NoneMisrecords => []NothingMissed`
* `HiddenByTrashOrPlacing`: `Spec => OnlyTrashOrPlacingHides`
* `HiddenByTrash`: `Spec /\ NothingPlacedHidden => OnlyTrashTrashes`
* `NothingUnsyncedIsTrashed`, `NothingUnsyncedIsRecycled`: about every operation of
  `Reconcile(in)`, for every `in` with `InputOK(in)`
* `NothingUnsyncedIsDeleted`: the two, of `Verdict` in every reachable state

`BaselineTruthful` speaks of the rows whose two sides are unchanged and is not inductive:
a download that replaces the content may bring back a state in which it speaks again.
`RowsTold` is, and says more: the version and the revision that a row names are of one
content wherever the two sides still have them, and neither is yet to come.  It needs
`DatesInv`: what a step writes has a version and a revision that were not in use
(`SidesDated`, a lemma for each action that changes a side), one that is not renewed keeps
its content (`DatedVersions`), and what an upload or a download holds when it commits is the
revision it made or read (`Fetched`).

A commit may break `RowsTold`, because it takes the stat of now and a digest of earlier.
`OnlyStaleCommitsLie` is the theorem without a hypothesis: with any users, faults, crashes
and plans, a true baseline stays true unless a step is one of `Misrecords`, and these are
the commit

* of an upload whose file or node was changed after it was read back (`StaleUpload`),
* of a download whose file was changed before its stat was taken (`StaleDownload`),
* of an upload that a retry finds landed while the file is another by now (`StaleRetry`),
* of a move of a file whose two sides differ, or whose row was not of what it moves
  (`StaleMove`, also by a retry and by recovery),
* of a row of the plan's own digests that are not those of the two sides (`StaleBooks`).

Each is possible with a user at the wrong moment and, for a move, also without one, when the
transfer planned with it does not follow (section 7).  `NoneMisrecords` is the hypothesis that
none of them happens.  It is a hypothesis about steps, and the behaviours it leaves are all those of the
worlds of `faults`, with their errors, lost replies, crashes and users.

`NothingIsMissed` is about the decision engine, for every pair of finite trees: when a fresh
look at both sides leads to a plan that asks for nothing, reports nothing and blocks nothing,
the two trees are equal, content and all.  The argument goes through all of `Reconcile`:

* `RemotePathsAre`: the paths of the remote nodes are of nodes that are live and not
  excluded, and no two nodes have one path.  `RemotePaths` is a recursive function, so this is
  by induction over its levels; that such a function exists is proved first
  (`Recursion`, `LevelsExist`).
* `PartsSilent`: no gate makes an operation disappear without a trace, be it withheld,
  dropped or allowed, so every part of a plan that asks for nothing is silent.
* `ApplyPlanned`: the only cell of the table of five by five states that is silent is
  (unchanged, unchanged), folders included.
* `NothingImplied`: a move is taken for implied only because of a move higher up, so if
  every move is implied there is none (by the least length of a path).
* `UnchangedMeans`, `NothingLeft`: so every row is where it was, its inode, version and
  revision are those of the row wherever the digest is not compared, nothing on either side
  is without a row, and no two nodes share one.
* `RowInSync`: where a digest is not compared, because the view takes the row's word for it
  or the node has none, `RowsTold` says that it is the same.  This is where a commit of
  something stale would be fatal, and why the theorem has its hypothesis.

`HiddenByTrashOrPlacing` is about what is out of sight: the nodes that are trashed or below
one that is.  `Above` is computed by a recursive function again; `AscentEnds` shows by
cardinality that it has come to its end after as many steps as there are nodes, so that
`AboveClosed` holds (with a node, the set has its parent) and it is the least such set.
Then a node that is not out of sight stays so whatever an action does to the tree
(`StaysSeen`, `MadeSeen`, `MovedSeen`), except that

* a trash hides what is below its node (`HiddenBelow`), which is the purpose, and
* what is made in a folder that is out of sight, or moved there, is out of sight.  The
  decision engine does not plan this for a folder it knows to be trashed
  (`reconcile/reconcile.ts:129-133`), but `act()` of the executor does not look again.

`NothingPlacedHidden` is the hypothesis that the second does not happen.

The theorems on deletions are the other half of `NothingIsMissed`: the plan does not delete
too much.  They are about one plan and every input, incomplete, stale, filtered and
quarantined views included, so no world and no user of a run bounds them:

* `trash_remote` (`TrashIsSafe`): the item of the row is gone from a complete listing that is not
  older than the row and does not hide its path; the node is where the operation says and is as it
  was synced; neither is quarantined.  For a folder, every node of the view that is in it, however
  deep (`GoesAlong`), has a row and, when that row is in the folder too, is as it was synced, its
  item being gone from the folder; or it is, or is below, a node that `resolveRemote()` leaves
  out (`LeftOut`).
* `recycle_local` (`RecycleIsSafe`): the same with the sides swapped; the remote listing is of a drive
  that answers and is not empty, and the node is trashed or not there at all, not merely
  without a path.  It is about the items of the local view, which has no ignored names.

The argument: only rows plan deletions, and the gates only take away (`DeletesOfRows`); only two
cells of the table do (`ApplyDeletes`); a state of a row says where its item and node are and
what they hold (`ClassMeans`); the guards of a row shut out the rest (`RowDeletes`).  The
folders that the subtree guard keeps are passed on as the outermost ones, and a row inside
one that is kept is inside an outermost one (`OutermostKept`), so a folder that is deleted was
found deletable as a whole (`TrashedTree`, `RecycledTree`).  That the guard, which looks at paths,
speaks of all nodes in the folder needs that a node in a folder with a path has a path in it
unless something on the way is left out (`WithinReached`, by `RemotePathsReach` and
`LevelsEnd`: the levels of the tree come to their end).

The theorems do not say that nothing new goes along, because it does, in two cases (section 7):
a node whose row is elsewhere and that was *moved into* the folder is neither among the rows
below it nor new; and what the view of either side leaves out, synced before or not, is not
looked at: Proton documents, nodes without a usable name, colliding siblings and all that is
below them, and on the local side ignored and unsyncable names.

### The engine (`EngineProofs`)

From `EngineAssumption` (the differences are finitely many, those that are conflicts at
first are not destructive, None is no view, run or held plan).

* `EngineTypeCorrect`: `Spec => []TypeOK`
* `ConfirmedAsNumbered`: `Spec => []ConfirmedOnly`
* `StatusTruthful`: `Spec => []RestIsTruthful`

The first two rest on `Inv`, whose heart is `HeldAsShown`: numbers are given out one after the
other, and the number of the held plan stands for what the plan destroys now.  It makes
`ConfirmedAsShown` inductive: a confirmed run destroys what its number stands for, and a
number, once given out, stands for the same for good.

`RestIsTruthful` is about quiet states only and far from inductive.  `RestInv` follows a
difference that there is and that the engine has seen (`Open`), through all states:

* `Covered`: another cycle follows (`Woken`), or the engine is halted, or, by the phase of
  the cycle, the difference is in a view the cycle began with (`Looked`), among the
  conflicts it handles, in its plan, in a run that is to do it, held, quarantined, or left.
  Only a trigger shows the engine something new, and only the begin of a cycle forgets a
  trigger; so what is not covered by the cycle is covered by the next.
* `HeldShows`: a plan is not held behind a status that says idle.
* `BusyForCause`: a status says scanning or syncing only while something goes on that will
  change it.

`RestInv` also needs that a run of the cycle has its cycle (`CycleRuns`).  Steps that take
nothing away from what covers are alike (`Calm`); the end of a cycle is `EndOnceRestInv`, its
begin `BeginCycleCovers`.

`RestIsTruthful` was not provable as the model first had it, and TLC showed why with two
changes instead of one: a cycle that failed has seen more than it planned, and a decision
about an older held plan then rests the status (`left` now has all that a failed cycle
saw); a difference withdrawn and made again between two looks of the watcher was the same
one to the model, though it has another modification time (`Change` makes another one
of it); and a login that the engine does not hear of leaves a status that goes on saying
that it works (`NotBusyAtRest` now says so).  `Inv` and `RestInv` were checked by TLC,
with all commands and failures at once and with two changes, before they were proved.

### The event feed (`FeedProofs`)

From `FeedAssumption` (files, folders and the special values are distinct, the drive starts
with a tree whose folders stand in the root or outside of it).

* `FeedTypeCorrect`: `Spec => []TypeOK`
* `FeedImplementsView`: `Spec => LagsOnly`, the refinement of `LaggingView`
* `FeedCatchesUp`: `Spec => []CaughtUpIsTrue`

No fairness is used: these are safety properties.  The inductive invariant adds to
the types

* `ListingsTrue`: what a listing has found of a node was so at some moment since the
  listing began; and a node that stood in one place all the while is found already, or a
  folder on its way is still in the queue.  This is the heart: it says why a listing
  whose queue is empty may deny what it did not find, however the tree changed
  meanwhile;
* `ReadingTrue`: the node an event brings was so when it was read;
* `DeletedStay`: a uid that was deleted does not come back, so that an event of a
  deletion may be applied late;
* in `CallsOK` and `PollOK`: a mirror that is complete is available, a caller has one
  listing at a time, and every event of a batch is one of the stream.

The steps map as follows: a change of the drive to `Change`; the begin of a listing or of
the reading of a node to `Begin`; `ListingEnds` to `Look` of the moment it began,
`EventApplied` to `Look` of the moment the node was read, and `EventDeletes`,
`ListingFails` and `Crash` to `Look` of now; everything else to a stutter.  `LookStep`,
`BeginStep` and `StutterStep` say when a step is one of these, and a lemma `...Viewed`
per kind of step uses one of them.

`CaughtUpIsTrue` says nothing of the time before the feed has caught up, so that it is far
from inductive.  What is inductive is an account of what the mirror will still be told:

* `MirrorTrue`: a node that is not excused and that a complete mirror is wrong about is
  `Due`, an event behind the last one handled tells of it.  The last one handled is the
  cursor, or the event whose cursor is about to be stored;
* `ListingsKnow`: a listing in progress has each such node as it is now, or still has a
  folder of its way in the queue, or (in `start()`, before the feed runs) the node is due.
  Without it the end of a listing could bring back what an event has put right;
* `InOrder`: a batch continues the stream exactly where the cursor stands, or is one entry
  that stands for all there was.  Storing the cursor of an event therefore skips none;
* `ReadLater` and `ChangesTold`: a node is read after its event, and one that changed
  since it was read has a later event.  So a late answer is no harm;
* `StartsLater`: the feed runs after the first listing only; and `Flat`: folders stand in
  the root or outside, so that what is below a folder in view is in view.

TLC checked this invariant with the bounds of `feed` before the proof.  The proof does not use
that the program is up, that no listing runs or that no node is being read, on which the
property depended before: the guards are gone, and it holds whenever the cursor is at the
last event.

### The watcher (`WatcherProofs`)

From `WatcherAssumption` (files, folders and the special values are distinct, files stand in
folders or in the root).

* `WatcherTypeCorrect`: `Spec => []TypeOK`
* `AwayRootDeletesNothing`: `Spec => NoDeletesWithoutRoot`
* `WatcherImplementsView`: `Spec => LagsOnly`, the refinement of `LaggingView`
* `RefreshSeesTheWrite`: `Spec => []RefreshHolds`
* `IdleWatcherIsRight`: `Spec => []CaughtUpIsTrue`

`Base` is the types with the order of things: nothing is reported before the subscription,
batches run after it, one at a time, on a snapshot that stays as it was (`Ordered`), and
the shape of a scan and of a batch under way (`Shapes`): a scan has nothing on what is
below a folder it will list, a batch claims nothing unsyncable that it will look at again.
`AwayRootDeletesNothing` needs no more: a batch that ends looked at the root when it began.

* `LagsOnly` rests on `JobsTrue`: what a job has on a path it has looked at was so at some
  moment since the job began, and the rest is as in the snapshot, which no other job
  replaces meanwhile.
* `RefreshHolds` rests on `RefreshQueued` (a waiting caller has exactly one task) and
  `RefreshTrue` (the path is dirty with the task still to come, or a job that began after the
  call has read it or will).
* `CaughtUpIsTrue` rests on the account of who will look at a path.  A path that is not
  excused is due (`Due`: an event, a dirty path or a requested scan), or each job that runs
  will look at it or has it as it is now (`AllKnown`).  `ScanDue` and `BatchDue` say that what
  is due has a task or a timer, `AllExact` that a scan since whose begin nothing changed is
  right about everything, which is why `ScanEnds` may forget what was excused, and
  `Excuses` that excusing a folder excuses what is below it, and a root that was away
  everything.

`CaughtUpIsTrue` and `LagsOnly` were not provable as the model first had them, and the
counterexamples are about the code: a snapshot that is not complete still tells the next
batch what is there (`local/watcher.ts:278`), so what it shows may not depend on `complete`;
a batch that throws forgets the paths it has read as well; and a scan that finds another
root clears the path of a waiting `refreshNow()`.

### The session (`SessionProofs`)

From `SessionAssumption` (every request has an owner, there is at least one attempt,
None is no token, stored session or answer).

* `SessionTypeCorrect`: `Spec => []TypeOK`
* `EngineStaysSignedIn`: `Spec => []SessionKept`
* `AppliedAtMostOnce`: `Spec => []AppliedOnce`
* `RefreshOnlyWhenRejected`: `Spec => RefreshesWhenRejected`

The invariant says what the holder of a token may still believe when an answer is read:

* `RefreshHeld`: the process whose refresh is under way holds the token it refreshes;
* `AllIssued`: every token in memory, in the store, in a write under way or in an answer was
  given out by the server.  A token that was given out and is rejected stays rejected, so
  that `Rejected` (what a request was told of its token is still so) is kept;
* `Unapplied`: a request that may be sent again has not taken effect, which with `Bounded`
  and the classes of answers gives `AppliedOnce`;
* `harmed \/ SignedIn`: until something from outside ends the session, the engine's token is
  the one the server takes, or the answer that renews it is there to be read, and the
  store has it or is being told.  `SessionKept` alone says nothing of the store, from which a
  restart takes its token.

### Processes over one store (`InstanceProofs`)

From `InstanceAssumption` (the first pair is a pair, None is neither a pid, a uid nor a lock).

* `InstanceTypeCorrect`: `Spec => []TypeOK`
* `OneHasTheStore`: `Spec => []OneUnlessRaced`
* `WhoWorksAnswers`: `Spec => []Reachable`
* `BaselineIsOfTheRoot`: `Spec => []OldRowsArchived`
* `NothingIsForgotten`: `Spec => NothingForgotten`

None of the four is inductive by itself; together they rest on
`TypeOK /\ (raced \/ (LockOwned /\ StoreAsSeen /\ RowsOfRoot /\ SocketOwned))`:
who has the store open made the lock file that is there (`LockOwned`); what a process has
read of the store is still so at each step of the start (`StoreAsSeen`: no other changes
it); the rows are those of the recorded root, or archived already (`RowsOfRoot`); and
who works is who is bound to the socket file (`SocketOwned`).  The last three need
`LockOwned`.  `raced` never becomes false again, and a step that makes it true has nothing
to show.

### Not proved

Liveness (`ComesToRest`, `Served`, `Recovers`, `StopLeads`, `Heals`, `EveryRequestEnds`) is out
of the prover's reach and is model-checked only.  So is what the decision engine and the
conflict handler do together over several plans: `Converges`, `ChoiceObeyed`,
`NewsKept` and `LocalNewsKept`.  Their proofs would have to follow every
operation of every plan through its execution, with the plan, the sides and the inbox of
the moment it was made.

`NoneStranded`, `BaselineTruthful`, `NothingMissed` and `OnlyTrashTrashes` do not hold for all
constants, because the code does not keep them for all; the theorems on them have hypotheses that name
the steps at fault.  Without the hypotheses they hold in the worlds of the runs that check
them, and `moved_conflict` shows `NothingMissed` violated in others.

`NoRepeatedRevision` of `Executor` is model-checked only, for one plan.  It depends on the plans (an upload of
a revision has to come with the revision and the digest it replaces) and on the users: who
renames a file with the content of the node to the path of an upload gets it uploaded.

## 7. Findings and readings

Three statements of the repository's docs and comments that the code does
not keep; each has a run whose counterexample shows the steps, and an entry with
the quoted line in `PROJECT.json`.

1. `folder_hidden`: a folder that cannot be read makes a snapshot incomplete, but the next
   batch of events, for whatever path, says complete again and hides only the folder's
   own name: the files below it count as deleted (`local/watcher.ts:278`).  The batch makes the
   same mistake by itself: whatever the error of `lstat()` (line 238), EACCES below a folder
   that cannot be read included, it drops the path, and says complete.  `LagsOnly` and the
   other properties of the watcher are about what can be looked at.
2. `recovery_stuck`: a crash while a conflict copy is made leaves a journal entry of a kind that
   `inspect()` has no case for; the start throws, and so does every later one
   (`execute/recovery.ts:126`).  It is reachable without a crash too: a file deleted while
   `getNode()` is awaited makes the rename throw, and the next start finds the entry.
3. `moved_conflict`: the handler removes the baseline row by the path of the conflict
   (`conflict/handler.ts:126`).  For an item renamed on one side and edited on both, that is not
   where its row is; the row that stays pairs the versions up again, and the edit is
   taken for synced.

What the models show besides, without a run of its own.  Each was seen in a
counterexample or while the code was read for a definition, and the passing runs are set up
so that it does not occur, as said in each case.

*Executor and plans.*

* A file edited while its revision is uploaded is taken for synced by the retry
  (`execute/executor.ts:477`, `remote/transfer.ts:177`; `sync-execution/spec.md:69-70` says it is
  planned again).  The users of `faults` edit nothing; `race` checks that nothing is lost.
* A transient failure of a precheck makes `recordRetry()` throw for an entry that is only
  planned (`state/journal.ts:131`, `execute/executor.ts:261`); the batch's other transfer runs on
  unowned and is repeated by the next plan.  `faults` makes one plan, and `NoRepeatedRevision` is
  stated for one.
* `move_remote` moves before it renames (`execute/executor.ts:445`) and is refused for ever
  when the new folder has a node of the old name.
* An item moved into a folder that the other side deleted goes along with it: the subtree guard
  looks at the rows below the folder and at new items, and it is neither
  (`reconcile/reconcile.ts:149`).
* What is left out of the sync goes along with a folder, also when it is new: `resolveRemote()`
  gives Proton documents, nameless, invalid and colliding nodes no path
  (`reconcile/remotePaths.ts:67-92`), so the guard does not see them
  (`reconcile/reconcile.ts:137`), and a folder deleted locally is trashed with them.  So are ignored
  and unsyncable names in a folder that is recycled.
* Recycling a folder takes along a file edited since the plan (`execute/localWrite.ts:65`).
* A move commits the stat of now with the digest of the old row (`execute/executor.ts:435`).
  When the transfer planned for the same item does not follow, because of a crash, a pause or a
  failure, the edit is never planned again.  `faults` has no item that is moved and edited,
  and `changes` no crash.
* A remote edit between the verification of an upload and the second `getNode` is
  recorded as synced (`execute/executor.ts:408`).
* A row that recovery quarantined below a folder can make the rename of the folder's rows
  violate the key, which rolls the whole recovery back (`state/baseline.ts:144`).

*Conflicts.*

* A second delete-versus-edit at a path is skipped while the first is open
  (`conflict/handler.ts:90`).
* The choice in a divergent move renames the baseline row before the move; when the move
  fails, the next plan moves the other way (`conflict/handler.ts:209-218`).
* An inbox entry is resolved by its path (`conflict/handler.ts:195-223`): with two conflicts
  at one path, `keep_both` of one detaches the row of the other's file, and its
  `keep_local` is undone.  The worlds of `changes` have one conflict per path.
* A `keep_local` of a move leaves the row without a digest, which costs one more revision.
* A crash between the detachment of a row and the note in the inbox loses the note; a copy that
  was never made can be noted (the file went away meanwhile).

*Engine.*

* A confirmation during a cycle replaces the executor that `pause()` and `stop()` know
  (`engine/engine.ts:475`, `498`, `557`), so the cycle's run goes on while the engine is
  paused (`tray-status-ui/spec.md:66`).
* `handleRemoteError()` (`engine/engine.ts:483`) does not recognise the errors the engine gives
  it (`RemoteError` has no `statusCode`), so it never clears the session.  Usually the API client
  has signed out by then; when it has not, the status says `needs_login`, the
  session says logged in, and the next trigger executes again.
* A pause and a resume in `needs_login` make the state `idle`, and a login after that
  no longer starts the engine (line 196 asks for the state `needs_login`).  The
  command line does not start an engine without a session, so this takes a
  session that is lost between its check and `start()`.
* Conflicts are handled with the root away, too (line 418): the snapshot counts as complete,
  every row as deleted locally (`reconcile/reconcile.ts:95`), and a node edited meanwhile as a
  delete-versus-edit, whose row is detached and whose entry in the inbox stays.
* A plan with nothing to do returns before the gate (line 441) and leaves an older
  held plan in place.
* `throttled` may not become `awaiting_confirmation` (`engine/status.ts:127`), so a
  plan that is held while throttled leaves that status for the next event.
* `rejectHeldPlan()` rests the status whatever it says (line 586): the `error` or `offline` of a
  cycle that has failed since becomes `idle`, also while the root is gone, and so does `paused`
  while the user still has the engine paused.  A confirmed plan that ends does the same to
  `offline` (line 580).
* A session that is lost while the engine was started with one and is found again by a login
  is news to nobody: the engine listens to the session only when it started without
  (line 196), so a status that said `syncing` goes on saying so until the next trigger.
* `stop()` waits for the cycle but not for a confirmed plan or a resolution.
* The list of a held plan that the status shows has no withheld deletions
  (line 129); its number stands for them, and a confirmation runs them.
* `onRemoteRefreshRequired()` swallows a failed listing, and the feed's cursor advances.

*Views.*

* `asOf` promises that the mirror reflects the server at least as of that time
  (`engine/remoteMirror.ts:15`); a poll that ends while a listing runs makes it newer than the nodes
  the listing then stores.  The guard against stale absences (`reconcile/reconcile.ts:205`)
  relies on it.  `LagsOnly` is about what the mirror shows and does not use `asOf`.
* The watcher's `scannedAt` is the end of a scan.
* The promise of `refreshNow()` (`local/watcher.ts:116-119`) holds unless a scan is requested
  in between, the batch throws, or the root is away; `RefreshHolds` says so.
* A batch that throws forgets all it took, also what it had read already
  (`local/watcher.ts:225`, `252`), and one that finds the root gone drops what is dirty; the
  periodic scan makes up for it (`Heals`), and the paths are excused from `CaughtUpIsTrue`.
* A scan that finds another root clears the paths a waiting `refreshNow()` asked for
  (`local/watcher.ts:179`, `195`); its caller returns as if they had been read.
* A folder replaced by a symbolic link hides its own name only.
* Another folder mounted at the root is accepted at the second scan; preflight is the guard.

*Session.*

* A request that is not throttled itself sets `throttledUntil` to 0 and clears another's longer
  wait (`remote-drive-access/spec.md:115`); an aborted wait is never reported as over.
* A lost answer of a refresh has spent the refresh token: the next refresh is refused, and the
  user is signed out.  The same follows when another process refreshes, and then
  `signOut()` deletes the session the other one stored.
* The save of `getCachePassword()` can overtake a refresh's and leave a spent token in the store.
* When the store fails after a refresh, those who listen are not notified.
* Any 4xx answer to the refresh but 429 signs the user out, one that refuses nothing (408)
  included (`remote/proton/apiClient.ts:361`).
* A refresh that fails with 5xx gives its request a 401: the status says `needs_login`
  though the session is kept.
* `loginViaPassword()` over a stored session persists the new tokens with the old key
  password before the second factor and the salts (`remote/proton/auth.ts:162-164`), and leaves
  them so when that fails; the web login writes the new key with the old tokens first.
* A running engine never reloads a session that a login on the command line stored.

*Processes.*

* Between reading a stale lock and removing it, another process may have made its own
  (`state/store.ts:66-78`): two engines over one store (`sync-state-store/spec.md:57`).  `raced`
  marks these behaviours; everything is checked and proved outside of them.
* `setup` with the same remote root and another local root does not archive the baseline
  (`engine/factory.ts:82`, `sync-configuration/spec.md:46`, `cli/commands.ts:132`); the local root
  is not recorded.
* `setup` with the same local root and another remote root is refused as already configured.
* A pid that is used again refuses the start.
* A `createEngine()` that throws at `getNode()` keeps the store open until the process exits.
* The recorded root that `run` refreshes can overwrite a `setup` made meanwhile.
* Recovery can complete an entry of the old pair into the new baseline.

## 8. Abstractions, and what is not modelled

`Executor`, `Reconcile`, `Sync`:

* A name stands for its collision key, so two local names never collide; drive
  names may (`Colliding`).
* Size and mtime are one version that no later state of the file has again.
* Stat and hash of a file to upload are one step.
* A refused local rename leaves no parent folders behind.
* `inspect()` is one step.  A recovery whose commit rolls back makes `start()`
  reject; in the model it stays where it is.
* Tasks left over from an `execute()` that threw share `ctl` and `made` with
  the next executor (in the code they keep the old executor object).
* Quarantined items are released in `Engine` only.
* Two operations of one phase on different items come in any order; the code breaks the tie
  by name.
* A move into a trashed folder succeeds, as in `testing/fakeRemote.ts`.
* The drive is modelled from `remote/interface.ts` and that test double.
* Dry runs, temporary files, throttling and audit lines are left out.
* Withheld deletions are dropped.

`ConflictHandler`:

* `resolve()` is one step and comes only while no cycle runs (`Engine` has the overlap).
* The order of the conflicts of a plan, and the name of a copy among the free ones, are left
  open.
* The handler does not look at `pause()` or `cancelAll()`, which are left to `Executor`.
  `MaxStops` bounds the calls of `getNode()` that fail.

`Engine`:

* A listing, a single event and an operation each take effect in one step, and an
  operation whose difference is gone is skipped.  The end of a run and
  `refreshNow()` are one step, as are a cycle's end and the `finally` that clears
  `cycleRunning`.  An executor that throws is not in it.
* A difference that is made again is another one: the watcher or the feed has to notice it.
* `refreshNow()` and the rescan after conflicts start a trigger only when they
  show something new; the code also triggers after a scan that does not.
* Which differences are conflicts does not change with the root away (it does in the code, see
  section 7); that they are handled then is modelled.
* The limits of the brake are one number, `requiresConfirmation` is left out, and the
  baseline is not empty when the root is gone.
* One confirmation and one resolution at a time, no commands after `stop()`, and
  one `start()` at a time (a second one after a new login).

`RemoteFeed`:

* Folders stand in the root or outside of it; a listing has at most two levels.
* One event per change; the server may always answer with a demand for a refresh.
  `scope_removed` is one more event that requires a listing.  `stop()` ends the process.
* Three kinds of change are excused from `CaughtUpIsTrue`, because no event follows: those before
  there is a cursor, those while a listing and the feed both work, and what is below a
  folder that comes into view.  `Heals` shows that the next undisturbed listing
  covers them.

`LocalWatcher`:

* Only folders can be unreadable, and links lead to nothing; folders are not nested.  A folder
  that cannot be listed cannot be searched either.
* `diff.ts` is reduced to whether something differs; digests, ignore patterns, invalid
  names and `stop()` are left out.
* A full scan does not wait for files to settle, as in the code.

`Session`:

* A token is the number of its login and of the refreshes since; the server gives a new refresh
  token with each refresh and ends the old one.
* The calls of a login before it is granted are answered at once; a process has one write of the
  secret store under way, and that of `getCachePassword()`.
* The answers to the refresh itself are a new token, a refusal, throttling and a failure; the
  server gives no 4xx that refuses nothing.
* Those who wait for a refresh are told in one step.  Aborted waits and the reports of
  throttling are left out.

`Instance`:

* One migration exists, so the backup before a later one is never reached.
* The pair is what matters of the configuration; framing and requests of the socket are left
  out (`Engine` has those that change something).

Not modelled, and why: the SDK adapter, and cryptography and headers of the Proton API
(I/O and third-party protocol); the audit log (output no decision reads); tray and
panel (presentation); validation of the configuration and the parsing and printing of the
command line (no concurrent state).

## 9. Plan

What is left, in order of what it would add.

1. The composition of `ConflictHandler` with a view that lags instead of a fresh one: the
   guard that compares `asOf` with the row, which `LagsOnly` alone does not justify.
2. The order of a confirmed plan (`safety/brake.ts:105`), which needs the composition of
   `Engine` and `Executor`.

Hazards seen and not yet covered are listed in `PROJECT.json` with a note.
