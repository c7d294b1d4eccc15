# SauronEye in TLA+

SauronEye is a host sentinel written in Rust. A daemon watches protected paths
through inotify, compares what it sees with a baseline of fingerprints in
SQLite, records every event in an audit log and sends alerts through chat
services; administrative commands of the same binary create and update the
baseline, change the password, purge the log and write reports.

This directory holds TLA+ models of its concurrent core, the TLC runs that check
them on small instances, and TLAPS proofs of what matters most. Every definition
is translated from the code under `src/src/`; `PROJECT.json` maps each to the
lines it stands for. Running a check:

    tlc -workers 2 -config MCContent.cfg MCFimDaemon
    tlapm FimDaemonProofs.tla

## 1. Inventory

| Component | State it keeps | Operations | Talks to |
|---|---|---|---|
| FIM engine, `fim/engine.rs` | notify's raw queue, the FIM event channel (2048) | `start_watcher`, `handle_fs_event`, `scan_baseline`, `check_excluded` | file system (reads), main loop (bounded channel) |
| Daemon loop, `handle_run` in `main.rs` | `MonitorState`: known permissions, owners, directories, debounce map | preload, drain loop, one handler per `FimEvent`, RCE and login scans, signals | engine, analyzer, database, dispatcher |
| Analyzer, `analyzer/` | a 3 s cache of session IPs (the package manager is looked for at each call) | `get_ip_context_string`, `is_package_manager_active`, `analyze_modification` | /proc, lock files |
| Dispatcher, `notifier/mod.rs` | recent keys (2.5 s) | `dispatch` | each notifier in turn, awaited |
| Notifiers, `notifier/{telegram,whatsapp,discord,msteams}.rs` | a queue of 256 each, a task, a `CircuitBreaker` (not Telegram) | `send_alert`, the task's loop, `retry_http_post` | HTTP services |
| SMTP, `notifier/email.rs` | none | mails the PDF of `report` | SMTP server |
| Database, `db/` | `file_fingerprints`, `admin_users`, `audit_logs` | one statement per call, a transaction for a batch of fingerprints | daemon and commands, different processes |
| Commands, `handle_init` ... `handle_report` | local variables of one process | init, update, passwd, status, logs, report | database, engine's scan, dispatcher |
| Login monitor, `auth/pam_watcher.rs` | read position in the log | `poll_new_events` | daemon loop |
| RCE detector, `rce_detect/process_tree.rs` | pids already alerted | `scan_anomalies` | daemon loop, /proc |
| Report, `report/pdf_generator.rs` | none | PDF from records | `report` |
| Configuration and CLI, `config.rs`, `cli/` | none | parsing, prompts | everything |

What makes each hard, and what makes it correct:

- **FIM engine.** A notification names a path and nothing else; hash, mode and
  owner are read when the thread gets to it, and by then the path may have
  changed again. Events leave through a bounded channel with a blocking send.
  Correct when no event is lost and what the rest derives from stale reads
  still ends up right once the events run out.
- **Daemon loop.** Handlers with three effects (alert, audit record, row), a
  debounce that skips some of them, two maps that must follow the disk, a
  package manager that switches handlers off, a crash between any two effects.
  Correct when the baseline follows the disk, never silently, and the state maps
  follow the attributes.
- **Dispatcher and notifiers.** Bounded queues awaited by the main loop, a
  breaker whose state changes only when an alert comes, retries after lost
  answers. Correct when dispatch returns, nothing is lost or reordered except by
  the breaker, the breaker keeps its limit, and says how much it dropped.
- **Commands and database.** Several processes on one database, every command a
  chain of statements that may stop anywhere. Correct when the one-time guard of
  `init` holds, the log cannot be purged without a trace, and a baseline is
  written whole.
- **Login monitor.** A position is all it remembers of a file that grows in
  pieces, is renamed away and made anew. Correct when no login line is skipped,
  told twice or out of order.
- **RCE detector.** It remembers pids, and lists processes that fork, exec and
  exit while it lists them. Correct when a process is alerted once, and one that
  stays is alerted.
- **Analyzer.** Its answers are put together from many reads of things that
  change between them, and one of them is kept for 3 s. Correct when it is wrong
  only about what changed in that time.

`PROJECT.json` lists the hazards one by one, at their lines, with the properties
that cover them, or a note where none does: mostly because the code takes no
measure against it, and the model names the files, lines or processes concerned so
that the properties can leave out just those.

## 2. Plan

| Module | What | Composes |
|---|---|---|
| `FimWatcher` | file system, notify queue, watcher thread, event channel | |
| `FimDaemon` | main loop, state maps, debounce, database | `FimWatcher` |
| `Baseline` | abstract specification of the fingerprint table | |
| `FimDaemonRefinement` | the mapping under which `FimDaemon` implements `Baseline` | `FimDaemon`, `Baseline` |
| `FimDaemonProofs` | types, `RebaselineAudited` | `FimDaemon` |
| `FimMapsProofs` | events on their way; `MapsConverge`, `RebaselineAlerted`, `AttrChangeAlerted` | `FimDaemonProofs` |
| `FimRefinementProofs` | `BaselineCurrent`, `RefinesBaseline` | `FimDaemonRefinement`, `FimMapsProofs` |
| `BaselineProofs` | what `Baseline` promises | `Baseline` |
| `AlertPipeline` | dispatcher, queues, tasks, breakers, retries, clock, exit | |
| `AdminCli` | commands as processes on one database, daemon as other writer | |
| `LoginMonitor` | the authentication log, its logger, the polls | |
| `RceDetector` | the process table, the scans | |
| `SentinelTick` | the tick of the main loop, in order | `LoginMonitor`, `RceDetector` |
| `SessionCache` | sessions, their sources, the cache | |
| `PackageLocks` | package managers, their locks, the check | |
| `AnalyzerContext` | a tick as the analyzer sees it | `SessionCache`, `PackageLocks` |
| `AnalyzerContextProofs` | types, `QuietWhenIdle`, `ActiveWhenSeen`, `ContextRecent`, `ContextComplete` | `AnalyzerContext` |
| `AdminCliProofs` | types and the three invariants | `AdminCli` |
| `AlertPipelineProofs` | types, `NothingLost`, `DeliveredInOrder`, `SuppressionAccounted`, `RateBound` | `AlertPipeline` |
| `SentinelTickProofs` | types, `SpawnsOnce`, `LoginsOnRecord`, `LoginsInOrder` | `SentinelTick` |

`MC...` modules give the instances their values.

Open: a `FimDaemon` whose reads of rows may fail; directories with children;
the handlers' debounce of 2 s before the dispatcher's window of 2.5 s.

Proved: every safety property and every action property that a passing run
checks, and the refinement of `Baseline`; four of them under a hypothesis about the
writes or the lines of the log that section 5 names. Open among the theorems: those
about what is still to be modelled.

## 3. The models

### FimWatcher

| Model | Code |
|---|---|
| `disk`, `meta` | the monitored files: content by hash, mode (masked) and (uid, gid) |
| `raw` | the `std_mpsc` channel notify fills (unbounded) |
| `outbox` | the rest of the `blocking_send` calls of the raw event in hand |
| `chan` | the tokio channel to `handle_run` |
| `CreateFile` ... `RemovePath` | what processes do, with the notifications inotify and notify 6.1.1 derive from it (a rename gives From, To and the pair) |
| `HandleCreate` ... `HandleNameBoth` | the arms of `handle_fs_event` that Linux reaches |
| `BlockingSend` | `event_tx.blocking_send` |

A fingerprint is its hash. The reads of one handler are one atomic read, late
but not torn. Directories are leaves, and a path is a file or a directory for
good. `MetadataKind::Permissions` and `Ownership` and a single-path
`RenameMode::Any` never come from the inotify backend and are left out. So are
the kernel's coalescing and its queue overflow, files that appear in a new
directory before it is watched, and files below a renamed directory (they need
paths with parents).

### FimDaemon

Extends `FimWatcher` with the main loop. A handler is one action per effect, in
the order of the code: taking the event (state maps, debounce, alert), then
`RecordAuditLog`, `DeleteFingerprint` and `SaveFingerprint`, with `main.pc` in
between, so that the watcher thread, the files and a crash interleave with
it.

| Model | Code |
|---|---|
| `phase` | before the preload, between preload and `start_watcher`, in the loop |
| `db`, `audit` | `file_fingerprints`, `audit_logs`; they survive a `Stop` |
| `known`, `knownDirs` | `known_permissions`, `known_ownership`, `known_directories` |
| `recent` | the keys of `recent_alert_debounce`. A key in it may be live or expired, as time passed or not; both branches are open. A key never entered is never live |
| `main` | the handler in progress and its arguments |
| `PkgSamples` | the verdict of `is_package_manager_active`, sampled afresh at each call |
| `WriteOutcomes` | whether a write fails; the code discards the result |
| `unwatched`, `unsynced` | history: paths for which the code had no event or skipped the update; the convergence properties exempt them |

`Stop` is a `Crash` anywhere or a `Terminate` (SIGTERM, SIGINT) between two
ticks, which still writes its record.

Left out: the dispatcher's own window of 2.5 s; the purge
of debounce keys older than 30 s, which are expired anyway; the handler of
`DirectoryDeleted`, an event the engine never sends; a failing `get_fingerprint`.
That `dispatch` returns is assumed, and is what `DispatchReturns` checks in
`AlertPipeline`. The database file itself is in `DbFiles`: its writes make no
`Modified` events.

### Baseline and FimDaemonRefinement

`Baseline` is what the fingerprint table promises: a row differs from the disk
only while its file is *behind*, and takes a hash only when there was none, when
the hash is on record, or as the target of a rename. It knows no queue, thread
or debounce. `FimDaemonRefinement` gives its variables as functions of the
daemon's state:

| `Baseline` | `FimDaemon` |
|---|---|
| `disk`, `rows` | `disk`, `db`, of the files that are neither excluded nor the database's own |
| `behind` | files the daemon does not watch, those in `unwatched`, and those with an event in `raw`, `outbox`, `chan` or `main` |
| `moved` | those among them with a rename onto them under way |
| `recorded` | the `FILE_TAMPERING` and `PACKAGE_UPDATE` records |

Moving an event from one queue to the next is a stutter; the handler's last
effect on a file lets it leave `behind`, which `Baseline` allows only if the
row is then right.

### AlertPipeline

`Dispatch(k)` is `AlertDispatcher::dispatch` up to the loop, `Enqueue` one
`send_alert` of it. A notifier's task is `worker[n]`: `Pass`, `Suppress` and
`Recover` are the arms of `breaker.check()`, `PostSucceeds`, `PostRefused`,
`PostFails` and `GiveUp` the outcomes of an attempt; `PostFails` may have
delivered, when only the answer was lost. A task that throttles first posts a
notice, one that recovers first posts a recovery message. `Tick` passes time for
sleeps, for the dispatcher's keys and for the breaker's window. `Popped` is how
many stamps the `while` at the head of `check` takes off the front; `posted` keeps
the ages of all alerts a task began to post, those the breaker has forgotten
included, and `RateBound` counts in it. Telegram's own loop
has the same attempts and pauses without a breaker. `DispatchLast` is the alert
of a signal, of a command that is done or of a refused `--init`: once it has
been handed over, `grace` counts down the sleep that follows it (1.5 s, none for
the refused `--init`) and `Exit` ends the process with whatever its tasks hold.
With `Prompt` a task that can go on does so before time does. `main` never adds the SMTP
notifier to the dispatcher, so there is none here.

### AdminCli

Each process runs one command, one action per statement: `CheckInitialized`,
`CreateAdmin`, `Authenticate`, `Scan` (file by file), `Upsert` (row by row) and
`Commit`, `ChangePassword`, `Purge`, `Query`, `Record`; `Interrupt` ends it between
any two. `save_fingerprints_batch` is a transaction: the rows in `staged` are its
own until `Commit` puts them into `rows`, an interruption drops them, and from the
first upsert on SQLite lets no other process write (`Unlocked`). Others wait; a
command that waits longer than the busy timeout is one that is interrupted, a write
that the daemon loses is a failed one of `FimDaemon`. The daemon is reduced to its two writes, `DaemonRecords` (which the debounce may
skip) and `DaemonSaves`. `audit` is the set of rows: rows that differ only in their
id are one, which no property here tells apart.
Alerts that follow the last write of a command change nothing here. `status` and
the listing of logs write nothing.

### LoginMonitor, RceDetector and SentinelTick

`LoginMonitor` is `PamWatcher` and the log it follows. A line is two cells, its
halves, and what it says is where the phrases of `parse_auth_line` stand in it;
the position counts cells.

| Model | Code |
|---|---|
| `files`, `path`, `dest` | the inodes, the one at `log_path`, the one the logger has open |
| `pos` | `last_pos` |
| `PollOpen`, `PollFill`, `PollLine`, `PollEnds` | open, length and seek; the fills of `BufReader`; an iteration of `read_line`; `stream_position` |
| `PollFails` | the `?` of `read_line`, for bytes that are not UTF-8 |
| `WriteLine` ... `ReopenLog` | the logger, sometimes half a line at a time, and logrotate with `create` |

`RceDetector` is `scan_anomalies` and the process table. `ListPids` is a batch of
readdir, `Visit` the loop's body for one pid, `Retain` the end of the scan.
`KernelNext` forks, executes and ends processes and gives free pids away again;
a `life` tells processes apart that had the same pid.

`SentinelTick` puts both where `handle_run` does: drain the FIM events, scan,
alert and record the spawns, poll, alert and record the logins, sleep. A FIM
event is a count here. `Stop` may come anywhere (a crash) and loses all but the
rows.

Left out: truncation in place (`copytruncate`), a `/proc` that cannot be read, a
torn read of one pid's files, the choice between the two log paths.

### SessionCache, PackageLocks and AnalyzerContext

`SessionCache` is `IpSessionCache`: `AskCached` answers from the cache, `AskStale`
begins to read the environments, then `/proc/net/tcp`, then `tcp6`, each only if
nothing was found before, and `Refresh` stores the answer with the time of the
question. `PackageLocks` is `is_package_manager_locked`: file by file whether it
is there, whether `/proc/locks` names it and whether a flock succeeds, then
process by process. Package managers lock with fcntl, with flock, or by making
the file, and need not have a name that the check knows. `AnalyzerContext` is the
tick around them: the context once at its start, the check once per event.

Both answers are compared with history variables: since when a source shows what
it shows (`held`, `opened`, `shown`), and what has been visible throughout a
check or at some time in it (`throughout`, `glimpsed`).

Left out: what an origin is (addresses are names), an `environ` that outlives the
session it came from (the code names that origin, and so does the model).

## 4. The runs

`CHECK_DEADLOCK FALSE` everywhere: the environment is bounded (`MaxOps`,
`MaxAlerts`, one command per process), and a system nobody touches really rests.

| Run | Shows | Bounds |
|---|---|---|
| `content` | `RefinesBaseline`: `FimDaemon` implements `Baseline`. `BaselineCurrent`: a watched file's row is its disk hash unless an event about it is on its way, whatever was read late. `RebaselineAudited`: no hash replaces another unrecorded, crash or debounce | 2 files, 2 symmetric hashes, 3 operations, 1 stop, channel 2 (3.2 million states) |
| `attrs` | `MapsConverge`, `AttrChangeAlerted`: the state maps follow modes and owners; no known value changes without alert | a file (the database), a vital directory, 2 values, 3 operations |
| `faults` | `RebaselineAlerted` although every write may fail; one of two files excluded, the other vital, updates notified | 2 files, 2 symmetric hashes, 3 operations |
| `drift` | `DriftRepaired` under fairness: nothing is dropped and the two threads never wait on each other | channel 1, 2 files, 2 directories, 2 operations, no stop |
| `register` (violation) | a debounced `Created` leaves the state maps without the file | 1 file, 3 operations |
| `unaudited` (violation) | a debounced `Created` saves a hash the audit log never saw | 1 file, 2 hashes, 3 operations |
| `pipeline` | `RateBound`, `SuppressionAccounted`, `NothingLost`, `DeliveredInOrder`, and `DispatchReturns` under fairness | Telegram and one breaker, queue 1, limit 1 in a window of 2 ticks, 2 attempts, 3 alerts, any of them the last, with a sleep after it or none |
| `flush` (violation) | the process is gone before the retry of its last alert | one notifier, 2 alerts, the code's own times in ticks of 0.5 s |
| `admin` | `InitOnce`, `PurgeLeavesTrace`. `BaselineAllOrNothing`: no process ever reads a baseline of some of the files only, whichever statement of the save fails or is the last | 3 commands of any kind, 2 files, 2 contents, a tick of the clock or a change (`MaxOutside`), heard of by the daemon or not; processes, files and contents symmetric |
| `update_race` (violation) | an update puts an old fingerprint over the daemon's newer row | 2 commands, 1 file, 1 change |
| `sentinel` | `LoginsOnRecord`: the position never runs ahead of what was reported. `LoginsInOrder`: nothing twice, nothing out of order. `SpawnsOnce`: one alert per process. `LoginsNoticed`, `SpawnsCaught` under fairness: what stays is recorded in the end | 3 lines, 2 log files, 3 pids, 3 processes; one of the five mixes of steps in `SomeBudgets` |
| `analyzer` | `ContextRecent`: whom a tick names was there less than 3 s before it asked. `ContextComplete`: who was there as long is named. `QuietWhenIdle`: no manager that kept a lock or a name through the whole check is missed. `ActiveWhenSeen`: what a dead manager left hides nothing | 2 processes, 3 connections, time to live 2 of 4; 4 managers, 3 lock files; one of three mixes |

Why these are enough. Stale reads, remove-and-recreate within the debounce and a
rename onto an existing file take two or three operations on one or two files; a
third operation of the same kind only lengthens the queue. A channel of 1 or 2
is full often, one of 2048 would never be. A breaker with limit 1 opens,
stays open and recovers within three alerts. Three commands are two rivals and
one that disturbs both (an `init` first, so that two others can authenticate). Two
files are what it takes to save half of a baseline. There is one password: a wrong
one leads where an interruption at the prompt does.
In `sentinel` and `analyzer` the components share nothing but the order of the
tick, so a behaviour draws one mix of steps at its start, long in one component
and short in the others, or a little of each: a rotation with lines on both
sides, a line in two halves around a restart, a pid given to a second child, two
checks while a manager goes from one lock to the next.

**Fairness.** `Watcher` and `MainLoop` are weakly fair: the thread blocks only in
`recv` and in a full `blocking_send`, the loop only in `sleep`, both of which end
as soon as they can. In `AlertPipeline` time passes, a `send` with room returns and each task
goes on: the tokio runtime polls what is ready, and every HTTP client has a
timeout. In `SentinelTick` `MainLoop` is weakly fair again: nothing it calls there
blocks, and `dispatch` returns. The scan ends because pids are listed in
ascending order, the poll because the log is finite. The file system, package managers, crashes, restarts and callers of
`dispatch` owe nothing.

### Disagreements between code and documentation

- `register`, `unaudited`: the debounced branches of the `Created` handler
  (`main.rs:774-776`, `803-804`) `continue` past the code that the comment at
  `main.rs:833` describes, and save a hash without a record although the
  throttling notice (`whatsapp.rs:53`) speaks of 100 % of the events.
- `flush`: a comment says that the sleep before an exit lets the tasks "flush and
  deliver" the alerts (`main.rs:281`, `main.rs:696`). It is 1.5 s long; one failed
  post waits 2 s at least for its second attempt, and the process is gone.
- `update_race`: `--update` scans (`main.rs:253`), then saves
  (`main.rs:263`) unconditionally. A change the daemon handled in between is
  overwritten with the older fingerprint, and "Baseline successfully updated"
  (`main.rs:283`) leaves a row that is not on disk and that no event repairs.

## 5. The proofs

Every theorem holds for all values of the constants that satisfy the `ASSUME`s
declared with them.

`FimDaemonProofs`, for any sets of files, directories, hashes and values, any
exclusions, any bounds, any answers of the package manager:

- **`TypeCorrect`**: `Spec => []TypeOK`. The only assumptions are those declared
  with the constants in `FimWatcher` and `FimDaemon`. `TypeOK` is inductive. It
  includes that the channel never exceeds its capacity, that `meta` and `disk`
  agree on what exists, and that a watch is registered exactly while the daemon
  runs. One lemma per action, with helper lemmas for the events and records an
  action builds.
- **`BaselineNeverUnrecorded`**: `Spec => RebaselineAudited`, when writes
  succeed (`WriteOutcomes = {TRUE}`; otherwise the record itself may be missing,
  which is why the run with faults checks the alert instead). The property
  speaks of the step that saves, long after the branch that chose it, so it
  needs `AuditInv`, three conjuncts that hold between them:
  - `HandlerShape`: which kinds of event and of record can be at which program
    counter;
  - `DebouncedAreAudited`: a `modified` key in `recent` has its record in
    `audit`, unless it is the one about to be written;
  - `ChangeInHandAudited`: a handler about to save a hash over a different one
    has that record, or is about to write it.

  The second is what the debounce relies on: it skips the record because the
  record exists. A crash keeps it because it empties `recent` and keeps
  `audit`.

`FimMapsProofs`, of any database (any `WriteOutcomes`). An event passes four places:
the handler, `chan`, `outbox` and `raw`, the oldest first. For a path and what is on
disk there now, some events on their way *spoil* what the daemon keeps of it, and
some *repair* it. `Settled` says that whatever spoils has something that
repairs behind it. Its lemmas move an event from one place to the next, for any two
sets of events; the proofs below choose the sets.

- **`MapsAlwaysConverge`**: `Spec => []MapsConverge`. For a monitored path and an
  attribute, one pair of sets is about there being an entry (`Upsets`, `Rebuilds`),
  one about its value (`Outdates`, `Refreshes`); both are settled, and an entry that
  is wrong has one that repairs on its way (`MapsInv`). So when nothing is on its
  way, the entry is right. Two pairs are needed because a late `perm` or `owner`
  event sets a value without saying whether the path is there.
- **`RebaselineNeverSilent`**: `Spec => RebaselineAlerted`, and
  **`AttrChangeNeverSilent`**: `Spec => AttrChangeAlerted`. The invariant `AlertInv`:
  a key in `recent` had its alert (`KeysAlerted`), and a handler about to save a
  hash over another has alerted it (`ChangeInHandAlerted`). The database has no part
  in it, and so no assumption is made about it.

`FimRefinementProofs` assumes `WriteOutcomes = {TRUE}`. The code discards the result
of every write (`let _ = ...`); a save that fails leaves the row wrong with nothing on
its way to repair it, so both properties are false without the assumption.

- **`BaselineAlwaysCurrent`**: `Spec => []BaselineCurrent`. `RowsInv` is the same
  argument again, with `Breaks` and `Fixes` for the two sets: a `Created` or
  `Modified` repairs the row if it carries the hash on disk and breaks it otherwise;
  a raw event, whose hash is still to be read, repairs it.
- **`DaemonRefinesBaseline`**: `Spec => RefinesBaseline`, step by step: operations on
  files are `Baseline`'s touches, the record of a change is its recording, a save or
  a delete its adopting or forgetting, a stop its losing sight, and every other
  step catches up or stutters. That a file leaves `behind` only with a right row
  is `BaselineCurrent` after the step; that a row takes only a recorded hash is
  `AuditInv`.

`BaselineProofs`, for any files and hashes: **`BaselineIsCurrent`**,
`Spec => []Current`. The invariant is `Current` with the type of `rows`; a step
may take a file out of `behind` only if it leaves the row right, and every step
that writes a row is of a file in `behind`. With `DaemonRefinesBaseline` this is
why `BaselineCurrent` holds of the daemon.

`AnalyzerContextProofs`, for any lock files, managers, kinds of lock and known
names: **`NobodyOverlooked`**, `Spec => []QuietWhenIdle`, and
**`NobodyImagined`**, `Spec => []ActiveWhenSeen`. Neither property says anything
before the check has ended, so the invariant says what holds on the way:

- `FilesAhead`, `ProcessesAhead`: whatever has been visible throughout lies
  ahead of where the check has got to, in the files still to be looked at or
  among the processes listed; after a file's `/proc/locks` look, only a flock may
  be left for the probe to find. So when nothing is left to look at, nothing
  was visible throughout.
- `LocksHeld`: who holds a lock runs, and its file exists unless making the file
  is itself the lock. So a lock that is seen is the lock of a running manager,
  and a file that is missing, or not locked, hides none.
- `Witnessed`: the history variables say what they are meant to say.

The session context, for any time to live, any sessions, connections and names:
**`NobodyLongGone`**, `Spec => []ContextRecent`, and **`NobodySettledMissing`**,
`Spec => []ContextComplete`. `Answers(names, since)` is what both are about: who is
named was shown at `since` or later, and who has been there since before `since` is
named. `ReadingInv` says how much of it holds after each source has been read, as
of the time of the question; `CacheInv` that it holds of the cache as of the time
stored with it; `ContextInv` that the context of a tick has it for some time less
than a time to live before the tick asked. **`ContextTypes`**: `Spec => []TypeOK`.

`AdminCliProofs`, for any number of processes, any files, contents and passwords:

- **`TypeCorrect`**, with `OnItsPath`: which calls each command makes. The other
  three need it to know that a command that deletes rows is a purge, and one that
  saves a batch has scanned.
- **`OneInitWrites`**: `Spec => []InitOnce`. The invariant: who is an `init` and has
  created the admin, or is past it, is alone in that, and there is an admin.
  Only the insert decides, not the check before it.
- **`PurgeTold`**: `Spec => []PurgeLeavesTrace`. A purge deletes before it records, so
  another purge may delete the record of the first. The property is inductive with
  the paths: the one that deletes is then itself between its deletion and its
  record, and stays there, interrupted, or leaves a record.
- **`BaselineSavedWhole`**: `Spec => []BaselineAllOrNothing`, whichever upsert the
  save stops at. The invariant is what an undisturbed command has *seen*: the disk as
  it is, for the files it has scanned. While it writes its rows the table is the one
  it found; its commit needs all of them (`staged = Batch`), so then every row is
  current. An `init` that is interrupted before its commit leaves an admin and no
  rows, which the property accepts.

`AlertPipelineProofs`, for any notifiers, capacities, limits, times and answers of
the services: **`AlertsKept`**, **`ArrivalsInOrder`** and **`SuppressionCounted`**,
`Spec` implies `[]NothingLost`, `[]DeliveredInOrder` and `[]SuppressionAccounted`. All
three come from one invariant about `Taken`, the number of alerts a task has taken
from its queue: the queue holds those that follow, in order; the alert in hand
is the last taken; the earlier ones have a fate, the later ones none; and nothing
delivered is later. A retry posts what is in hand, so it cannot overtake.

**`PostsBounded`**: `Spec => []RateBound`, for any limit, window and sleeps. The
posts that a breaker still remembers are the last ones there were (`Follows`:
`stamps` is the tail of `posted`, and what comes before it is older than the
window), and they are never more than the limit. The second needs one more fact: a
task that posts a recovery message has room for one more stamp, because the alert
behind that message is counted only when its turn comes, without another look at the
window. **`PipelineTypes`**: `Spec => []TypeOK`; that a count of suppressed alerts
stays below the alerts there were comes from `SuppressionCounted`'s invariant.

`SentinelTickProofs`, for any programs, rules and pids: **`SpawnsAlertedOnce`**,
`Spec => []SpawnsOnce`. The invariant is `Remembered`: the pid of a live process that
was found is in `alerted_pids`, and the scan in progress has listed it or has not
come so far. So `retain` keeps it, and a process that gets the pid later has a
life that was never found.

The polls, for any lines, any number of log files and any behaviour of the logger:

- **`LoginsAlwaysOnRecord`**: `Spec => []LoginsOnRecord`. `LogInv` says what the log
  looks like: the halves of a line side by side, the lines in order within and
  across the files. `MonitorShapes` ties what a poll holds in its buffer to the file
  it was read from, and `RecordInv` says that a line below the position has its
  row, and one between the position and what the poll has consumed has its row or
  its event in hand. A poll that fails drops those events and leaves the position.
- **`LoginsAlwaysInOrder`**: `Spec => []LoginsInOrder`, assuming `SaidOnce`. `OrderInv`:
  what was told comes before all that is still to be read, except that the second
  half of a line whose first half was told may still be ahead. That half must then
  say nothing by itself, which is `SaidOnce`: no text of `Texts` matches in its
  first half and again in its second. The code does not see to it. A line read in
  two halves that both match gets two rows, and TLC finds this as soon as such a
  text is among `Texts`. sshd and cron name themselves once, at the head of the
  line, as the texts of the run do.
- **`TickTypes`**: `Spec => []TypeOK`. `MaxLives` is at least 1 (`PidsAssumption`):
  the machine starts with one service running.

Model-checked only: liveness under fairness (`DriftRepaired`, `DispatchReturns`,
`LoginsNoticed`, `SpawnsCaught`), which is out of the prover's reach, and what the
four runs that end in a violation show. `Popped` names the number of stamps that the loop in `check` pops, for what a
recursion computes takes an induction over sequences; that there is such a number
is the least-element principle of `WellFoundedInduction`. The
proofs speak of the models, whose abstractions section 3 lists.

## 6. Not modelled

- Hashing, PDF layout, message formats, SMTP, the parsing of configuration and
  times: data without control. Their results are constants of the models.
- The pattern matching of exclusions: `Excluded` is a set. (Among the rules an
  absolute pattern that ends in `*` is compared with file names, as the other
  `prefix*` patterns are, and so excludes nothing.)
- Failing reads of a row, of `/proc` or of the log's metadata; SQLite's recovery
  of its files, and its locks beyond the write lock of a batch.
- Directories with children: what a renamed directory leaves under its old name
  in the maps and the table.
- Truncation of the log in place, and a new log that outgrows the old position
  before the next poll: the second is in the model (`outgrown`) and exempt from
  the properties, for the code cannot tell it from an append. In the same way
  `masked` exempts a process that got an alerted pid before a scan found it free.
- `auth/audit_netlink.rs`, a placeholder. Rows of files that are gone stay after
  `--update`, which only upserts; `AdminCli` has this, and no property claims
  otherwise.
