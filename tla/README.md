# macleaner: TLA+ models, checks and proofs

The repository holds two programs that share one home directory.  `macleaner`
(`daemon/`) is a disk cleaner started by launchd once a day and at login, by hand,
or by the menu bar.  `macleaner-bar` (`bar/`) shows a panel and starts `macleaner`
as a child process.  They share no code; what they share is the file system:
`~/.local/state/macleaner/last-run`, `~/.config/macleaner/config.toml`, the log, and
the text the one prints and the other parses.

Line numbers below are relative to `src/`.

## 1. Inventory

| Component | State it keeps | Operations | Talks to | What makes it correct |
|---|---|---|---|---|
| Run guard and first-run preview (`daemon/src/runner.rs`, `cmd_run` in `main.rs`) | `last-run`, the log | `run`, `run --force`, `dry-run` | config, cleaners, launchd and the bar (which start it) | nothing is deleted before a preview was shown; unforced cleans stay `min_interval_hours` apart; every run is logged |
| Age-gated directory cleaner (`cleaners/mod.rs`, `safety.rs`) | the directories themselves | `AgeDirCleaner::run` | file system, shared with every other program | only old, allowed, non-excluded entries go; a dry-run changes nothing and announces what a run would free; the report is true; one bad entry spares no other |
| Menu bar loop and panel (`bar/src/main.rs`, `panel.rs`, `panel.html`) | panel, clean phase, page | tray clicks, page buttons, thread results, dismissal | WebKit process, child processes, the user | at most one clean; its results find their page; no page is kept for nothing; the panel closes when told to |
| Run: tiers and cleaner set (`execute`, `ToolCleaner`, `build_cleaners`) | none beyond a run | run each cleaner, decide on the sweep | tools, disk | one failing cleaner stops no other; a sweep only when space is short |
| Path safety (`safety.rs`) | none | `normalize_lexical`, `is_within_allowed_root`, `older_than`, `is_kept_data` | cleaners | no path escapes its root, whatever `..` it holds |
| Configuration (`config.rs`) | `config.toml` | load, `ensure_file` | every command | an unreadable file changes nothing; defaults fill what is absent |
| Reports and message formats (`report.rs`, `bridge.rs`) | none | print a report, parse it, build JSON | daemon to bar | what is parsed is what was printed |
| LaunchAgent (`launchd.rs`, `cmd_install`, `cmd_uninstall`) | binary, launcher, plist, launchd's own state | install, uninstall | launchd, which starts runs | install ends in a loaded agent with whole files or says so; nothing starts after an uninstall |
| Memory view (`mem.rs`) | none | list consumers, quit pids | `ps`, processes | only killable user applications receive SIGTERM, also when pids have been reused |
| Login item, bar configuration and bundle (`loginitem.rs`, `barconfig.rs`, `bundle.rs`) | intent, SMAppService, the bundle | toggle, reconcile at launch, install, uninstall | the OS, System Settings | registration and file are what the user last chose; a removal leaves no bundle and tells which bar may outlive it |
| Bar state reader, disk, title, status and init-config, packaging | – | reads, a string, scripts | – | – |

What is hard here:

* **Concurrency without locks.**  Launchd, the bar's *Clean now* and a terminal may
  each start `macleaner`.  `last-run` is read twice by one invocation, minutes before
  it is written, and `fs::write` truncates it first.
* **A file system other programs use.**  Each entry is looked at, resolved, measured
  and removed in separate system calls.
* **One event loop, two processes and threads.**  Page messages, dismissals, tray
  clicks and thread answers arrive in an order nobody chose, and the page is torn
  down and rebuilt while a clean goes on.
* **Early returns.**  `?` leaves loops with work done and not reported, and installs with
  some of their files written.
* **Answers not looked at.**  `bootout`, the save of the bar's configuration and the
  calls of SMAppService are made for their effect; their errors are dropped.
* **Names that change hands.**  A pid is shown, ticked and signalled minutes later.
* **Clocks and boundaries.**  Stamps or modification times in the future, the last
  hour of the interval, the 350 ms of the debounce.

`PROJECT.json` lists each hazard at its line with the properties that watch it, or
why none does.

## 2. Plan

The order was that of importance, and all of it is written: `Runner` (with the abstract
`CleanGate`), `Prune` (with `SafetyPaths`), `CleanRun` (with `CleanerSet` and `Config`),
`BarApp`, then `Agent` on top of `Runner`, `LoginItem` and `MemQuit` (checked together in
`MCBarHost`), and `Summary` composed with `CleanRun` in `RunResults`; each state machine
with its proofs.

Three abstract specifications say what a component promises to its neighbours:
`CleanGate` (what the guard promises), `CleanerTurn` (what `execute` relies on when it
calls a cleaner, which `Prune` implements from inside and `CleanRun` one turn after the
other) and `CleanSession` (what a *Clean now* is to the page).

What could still be added: that `CleanRun` implements `Runner`'s choice `someOk` (its
`stamped`, by definition); and the bar's *openLog* and title.

## 3. The modules

`A -> B` reads "A extends B":

    Agent -> Runner
    RunResults -> CleanRun, Summary
    MCBarHost -> LoginItem, MemQuit
    MCCleanRun -> RunResults, CleanerSet, Config
    MCPrune -> Prune;          Paths == INSTANCE SafetyPaths

and these implement one another, each by an INSTANCE under a refinement mapping, but for
`Agent`, which extends the module it implements:

    Runner   GateSpec          of CleanGate
    Prune    TurnSpec          of CleanerTurn
    CleanRun TurnSpec          of CleanerTurn
    BarApp   SessionSpec       of CleanSession
    Agent    AgentSpec         of Runner

### `Runner.tla`: invocations that share `last-run`

`proc[p]` is the invocation in slot `p`, `pc` its place in the code, and a step is one
file-system access or a stretch of local computation, so that invocations interleave
where the code lets them.

| Action | Code |
|---|---|
| `Start` | `main`, `Config::load`: a malformed file ends the command before it starts |
| `Choose` | `cmd_run` reads `last-run`: `None` makes it a preview, `--force` skips this |
| `Disabled`, `Execute` | the first lines of `execute`: `enabled`, `now` |
| `Guard`, `ShouldRun` | the second read of `last-run`, `should_run` |
| `EndClean`, `EndSurvey` | the cleaners, real and dry; `someOk` is `any_succeeded` |
| `Truncate`, `Write`, `Mark` | `write_last_run`, cut at the truncation; `Mark` is the preview's own stamp with a fresh `now` |
| `Log` | `append_log`, whose error is dropped, and the printing of a preview |
| `StampFails`, `Crash` | `?` on `create_dir_all`, open or write; a process that is killed |
| `Tick`, `SetClockBack`, `EditConfig` | the world |

`shown`, `credited` and `failed` are history: was there a preview, a forced clean or a
first run that found the cleaner disabled; which is the newest stamp ever written; has any
invocation failed.  `credited` outlives a `last-run` that was lost.

`CleanGate.tla` is the abstract promise: a ledger of credited runs that never goes
back, and deletions that were forced or begin at least `MinInterval` after the last
credit.  `Runner`'s `GateSpec` is its instance under the mapping `Cleaning`, `credited`,
`clock`.  Like `UnforcedSpacing` it measures from stamps: a clean that died before its stamp is
not credited, and the next run cleans again at once, which neither is against.

### `Agent.tla`: install, uninstall and launchd

`cmd_install` and `cmd_uninstall` are straight-line scripts, and are written as such:
`InstallSteps` and `UninstallSteps` are sequences of steps, `todo` is what is left of the
one under way, and each action takes the step it is for off the front.

| Action | Code |
|---|---|
| `Install`, `Uninstall` | the commands begin; install loads the configuration, uninstall reads none |
| `Open`, `Copy`, `Fill` | `install_binary` and the writes of launcher and plist, cut at the truncation; a copy of `~/bin/macleaner` onto itself finds what the truncation left |
| `Bootout`, `Bootstrap` | `launchctl`: unloading may succeed (and kill the job), still be going on when it returns, or do nothing, and its result is ignored; bootstrap succeeds or prints an issue |
| `Remove`, `EndUninstall` | `launchd::uninstall` |
| `Abort` | `?` or a kill between any two steps |
| `Calendar`, `Launch`, `Leave`, `Relogin` | external: launchd owes a start at load and by the calendar, keeps one process per label, and at a log-in loads the plist it finds |
| `Work(p)`, `World` | `Runner`'s own steps |

`Runner` is composed by its slots: `Job` holds the invocation that launchd starts (`run`),
`Cli` the preview at the end of an install (`dry-run`), which waits for the install's steps.
`outcome` is history.  Left out: the log directory and file permissions, and the texts of
launcher and plist, which are whole or not.

### `Prune.tla` and `SafetyPaths.tla`: one cleaner and the directories it shares

`disk[e]` is what lies at a top-level path: nothing, a file, a link, or a directory with
a set of files, each with its modification time and whether it can be removed.  A run
goes through `Begin`, then per root `ReadDir`, per entry `Visit` (symlink, kept data,
exclude prefix, age: `Passes`, in the code's order of early `continue`s), `Measure`
(`dir_size`), `RemoveFile` or `RemoveTree`, `Count`, and `NextRoot`.  `RemoveTree` removes
file by file and may stop at any locked file.  Every I/O error is `Fail`, which leaves
both loops and drops the totals, as `CleanReport::errored` does.  `listing` shrinks as
entries are returned in any order.  Other programs `Put`, `Save`, `Relocate`, and time
`Tick`s: freely between runs, and within one as far as `Meddle` and `MaxOthers` allow.

History: `freed` and `lost` say what the run removed, `before` is the disk when it began,
`preview` what a dry-run counted as long as nothing has changed since.

Abstracted: `symlink_metadata` and the `canonicalize` of `is_kept_data` are one step
(`Visit`), `read_dir` returns one snapshot, an error of the directory iterator itself
is not told from one of `read_dir`, and all files have the size one.  A path is a
model value, and both gates on it are the one question `RootOf[e] \notin external`.

`SafetyPaths.tla` is where that question comes from: `normalize_lexical`,
`is_within_allowed_root`, `is_kept_data` and `expand_home` on sequences of path
components, and the file system's own resolution, which follows links before it goes up
a `..`.  Both are recursive functions over the components.  `DataProofs!RootDecides`
proves, for every root and every set of links, that the two gates are that one question.
`MCPrune` states as ASSUMEs, which TLC evaluates in each of its runs, that for
every root of up to four components and four sets of links the two gates let an entry through
exactly if its root is not on an external volume, by its text or through its links; that
on a path without links they agree with the file system; and when an expanded `~` stays
below the home.

`CleanerTurn.tla` is what `execute` sees of all this: a turn begins, something may go if
it is real, and it ends in an error that counts nothing or in a report that is exact
where nobody else writes.  In `Prune`'s mapping a turn lasts from `Begin` to the report,
`taken` is `freed`, and `exact` is `others = 0`.

### `CleanRun.tla`, `CleanerSet.tla`, `Config.tla`: the cleaners of one run

`Config.tla` is `config.toml` as a function from tables to fields, and `Load` what serde
makes of it with the defaults of missing tables and of missing fields.  `CleanerSet.tla`
is `build_cleaners`: the list of cleaners with their kind, tier, area, measured directory
and guard process, filtered by the switches in a recursive function that pushes one after the other.
`CleanRun` takes such a list as a constant
and goes through it as `execute` does.

| Action | Code |
|---|---|
| `Begin`, `Survey` | the call of `execute`; `free_gb`, which may fail, against `min_free_gb` |
| `SkipTier` | the sweep tier while the disk is above the threshold |
| `SkipTool` | `tool_exists`, `process_running`, `dry_run`: `ToolCleaner::run`'s early returns |
| `StartTool`, `RunTool`, `NoSpawn`, `MeasureAfter` | the first `dir_size`; the tool, which removes something and succeeds or fails; the tool that cannot be started; the second `dir_size` and the subtraction |
| `StartDirs`, `PruneArea`, `PruneFails`, `PruneEnds` | `AgeDirCleaner::run`, whose inside is `Prune`: both implement `CleanerTurn` |
| `End` | the run's report and the condition of the stamp |
| `Fill`, `Empty`, `Install`, `Toggle` | other programs write and delete, tools come and go, guard processes start and end |

A position in `reports` is a position in the list, so `Now` is the cleaner at work.
`Area` is a stretch of disk; two cleaners may share one, as `pip cache` and
`library caches` do.  History: `low` is what the disk was when the tiers were chosen,
`took` what each cleaner has removed, counted or not.  In the mapping to `CleanerTurn`, `taken`
is the `took` of the cleaner at work, and a tool without a measured directory is never
`exact`.

Abstracted: items are not counted; an area's files have size one and their ages are a
choice of how much is old; a guard process is known by its name.

### `Summary.tla` and `RunResults.tla`: from the report to the results page

The daemon prints rows and a total; the bar reads them back and prints again.  `Printed`
is `format_bytes` (one decimal in the largest unit that fits, ties to even), `Parsed` is
`parse_size_field` (a product cut off to whole bytes), `Render` the report's rows,
`ParseBreakdown` the buckets by the words in a row, `Page` what is shown: each bucket printed
again, and the total always in tenths of a GB, so that a run of 20 MB shows 0.0.  `Base` is 1024 in
the code and a parameter here, so that several units occur among small numbers.
`UnitMult` is the power of the base, `SumTo` the sum of the rows, both recursive functions.
`RunResults` puts `CleanRun`'s reports through it.  A row keeps a name, a mark and a
size; `free_now` and `free_before` are left out.

### `BarApp.tla`: event loop, panel, page and threads

The closure of `run_tray` is cut at its own loops: `UserEvent`, `TrayClick`,
`HandleAction`, `TakeDone`/`TakeDryDone`, `TickClean`, `Release`.  Threads (`CleanEnds`,
`PreviewEnds`), timers (`Ripen`, `HideAges`, `ToastFades`) and the page (`PageLoads`,
`RunScript`, `PageClick`) act between any two of these; what needs the main thread
(`Deliver`, presses and clicks) waits until the pass is over (`pc = "wait"`).  `posted`,
`rx` and `evals` are the message queues between page and loop; `Panel::release` empties
them with the page.  `Show`, `Hide` and `TearDown` are `Panel`'s methods, `phase` and
`results` the `Clean` struct.  `armed` counts installed dismiss triggers; a resign sends
one user event per trigger.

Abstracted: *ready*, *done* and *toggleLogin* have the same answer and are one message, as
are *mem* and *quitPids* (what they do besides is `LoginItem`'s and `MemQuit`'s); *openLog*
and *quit* are left out (the page has no quit button); the title's refresh is left out; two
progress scripts in a row count as one.

`CleanSession.tla` is what the user is promised of all that: a page asks, one child runs,
its one answer is animated and handed to the page that asked, which stays until then;
and results reach a page in no other way.  The mapping reads the stage off `phase` and
`done`, the page off `built`, and *told* is that the newest script is the results.

### `LoginItem.tla`: start at login, and the bundle

| Action | Code |
|---|---|
| `LaunchBar`, `Reconcile` | `run_tray` up to its loop; `reconcile_login` |
| `ShowSwitch`, `HideSwitch` | `send_state` shows the registration; the panel closes |
| `Toggle`, `Truncate`, `FillConfig`, `EndToggle` | `toggle_login_intent`: load and flip, `fs::write` cut at its truncation, the service call, the reply with the new registration |
| `StopBar`, `EditBarConfig`, `Settings` | the bar quits, is killed or gets `pkill`'s signal; the user edits the file, or the registration in System Settings |
| `InstallBundle` | `bundle::install`, whose copy may be cut off |
| `StopForRemoval`, `Unregister`, `RemoveBundle` | `cmd_uninstall`: `pkill`, whose result is ignored and which waits for nobody (`doomed`: the bar goes on until the signal ends it); `unregister`, which does nothing from a binary outside the bundle (as the deploy notes run it) and works from the one inside; the removal |

What the file says and what the registration is are two variables; the switch shows one
and flips the other.  `pkill` leaves the uninstall itself alone, also when that is run from
inside the bundle: it passes over its own ancestors.  One command of the bar is under way at
a time, and the bar is one process, started from the bundle.

History: `choice` is what the user last asked for; `contrary` that it was by a click on a
switch which showed other than the file, so that it comes to the opposite (`Asked`).
`lapses` names where the request cannot have arrived: `"file"` when its save failed or was cut
off, or it was made in System Settings; `"service"` when a service call failed or was cut off,
the file was edited under the bar, an uninstall unregistered, or a launch obeyed a file with a
lapse.  A launch whose service call works clears the second unless the first stands.  `spared`
is a bar that `pkill` missed or that was launched while the uninstall went on.

### `MemQuit.tla`: the memory view

`proc` is the process table, `ChangeHands` any change of it.  `Scan` is `send_mem`: `ps`,
`aggregate` by application, the largest `Limit`, each with its pid.  `Tick` and `QuitSelected` are
the page's, `Resolve` and `Kill` the two halves of `quit_pids` for one pid: the look at what
it is now, and the signal.  `Aggregate` is the code's fold, in the order of `ps`;
`Largest` is what it amounts to without an order, and what `Scan` uses.
`HostProofs!AggregateSpeaks` proves that the fold's pid is always among `Largest`;
`MCBarHost` states that they agree, in both directions, as an ASSUME over up to three
processes.

History: `moved` holds pids that changed since they were listed, `raced` is set when one
does between look and signal, `hit` is who was signalled last.  One *quitPids* message is
under way at a time; a page built before its reply came keeps its rows until the next
`Scan`.  Memory pressure and swap are only displayed and left out.

`MCBarHost.tla` puts both in one specification; as they share nothing but the life of
the bar, each is explored with the other at rest.

### Proof modules

`RunnerProofs`, `AgentProofs`, `PruneProofs`, `CleanRunProofs`, `BarProofs`, `SummaryProofs`
extend the module they are about (`SummaryProofs` is about `RunResults`, too); `HostProofs`
is about `LoginItem`, `MemQuit` and the two in `MCBarHost`, `DataProofs` about the functions
of `SafetyPaths`, `Config` and `CleanerSet`, and holds the induction lemmas the others use.

## 4. What the runs check

| Run | Instance | Shows |
|---|---|---|
| `runner_overlap` | 2 invocations, all commands and configurations, crashes, failing writes, clock set back, fair | an unforced clean happens only on a home somebody has stamped (`MarkedBeforeClean`), after a preview, a forced clean or a disabled first run (`NoBlindClean`); until something fails a stamp is missing only inside somebody's write; an unforced run leaves the home marked (`PreviewMarks`) |
| `agent` | install, uninstall, launchd, its job and install's preview, every fault | the guard's spacing and `CleanGate` hold in what launchd and installs do; an install that printed its check mark leaves whole files and a loaded label; an uninstall is followed by silence; a start that is owed marks the home |
| `prune_runs` | 3 entries, 2 roots, one unreadable, one name excluded, locked files in directories, one disturbance within a run | nothing on an external volume goes; an undisturbed run removes exactly what it may and counts it; a dry-run announces it; a run is a cleaner's turn as `CleanerTurn` has it |
| `clean_tiers` | 4 cleaners of both kinds and tiers, two on one area, one disturbance within a run | every cleaner has its turn; nothing goes by a cleaner that was skipped or not due; reports name what was removed, and the results page tells it as far as two formatters, a parser and a tenth of a GB can; a run is a sequence of turns as `CleanerTurn` has them |
| `bar_safety` | queue of 3 | one clean, results with a page, no page for nothing, triggers installed once, no dead cleaning screen, no reopening; a *Clean now* is a session as `CleanSession` has it |
| `bar_fair` | queue of 1, 2 dry-runs, fair | a clean ends and its screen is left; a dry-run is reported where there is still a page |
| `bar_host` | the Login Item with every mishap; 3 pids, 4 applications, 2 rows | a failed or cut off save or service call keeps the user's last choice from the file or from the registration only, and a launch makes good what was saved; an uninstall leaves no bundle, no bar it cannot account for, and nothing that starts later; a signal goes to what was ticked, to its main process, and never to a critical one, unless the pid changed hands in the moments the properties name |

The remaining runs are disagreements between the code and what the repository says of
it; TLC's trace shows how each comes about.

| Run | What the repository says | What the code does |
|---|---|---|
| `runner_race` | a second run within ~20 h exits early (`daemon/spec.md:25`) | two overlapping runs both pass the guard, or one finds the file truncated |
| `agent_self` | install puts the binary in `~/bin/macleaner` (`daemon/deploy/README.md:13`) | run from there, to change the schedule say, it copies the file onto itself and leaves it empty |
| `prune_nested` | files modified within the window are never touched (`daemon/spec.md:19`) | only the top-level entry's time is looked at |
| `prune_locked` | locked entries are excluded (`daemon/spec.md:59`) | the first one ends the cleaner's run |
| `clean_stamp` | the timestamp is persisted only for runs "that were not a total failure" (`daemon/src/runner.rs:113`) | a skipped cleaner has no error, so a run in which all that did anything failed is stamped |

More are visible in the code and in the models' actions, and have no run of their own:

* `Choose`: with the cleaner disabled a first run marks the home without a preview
  (`daemon/src/main.rs:76` against the comment at 63); once enabled, the next run
  deletes.
* `Launch`: a reinstall over an old `last-run` makes the run at load a clean one
  (against `daemon/README.md:26`, "first run after install is a no-delete preview").
* `Load`: a `config.toml` table that leaves out `age_days` takes 14 days also for logs and
  trash, whose default is 30 (`daemon/src/config.rs:62`, `daemon/spec.md:57`); the ASSUME of
  `MCCleanRun` finds these two tables and no other.
* `StampFails`: a stamp that cannot be written leaves `execute` before the log.
* `Finish`: a cleaner that met an error reports 0 bytes whatever it removed.
* A temporary directory that is configured twice is counted twice by a dry-run, which is
  why `DryHonestHolds` assumes that none is.
* `Relocate` with "relocate" in `Meddle`: a root replaced by a link to `/Volumes` between
  the check of an entry and its removal is followed.
* `BarApp` with `QuickClicks = FALSE`: a mouse button held longer than 350 ms on the
  item of an open panel dismisses the panel and opens it again (`bar/README.md:14`).
* `Unregister`: the bar's uninstall prints that the Login Item is removed, though from a bare
  binary the call does nothing (`bar/src/loginitem.rs:2`, `bar/deploy/README.md:49`).
* `Resolve` and `Kill`: the pid is looked at again but may change before the signal (against
  "can never target", `bar/README.md:43`); and where an application runs no main process
  a helper is signalled (`bar/spec.md:23`).
* Of an empty answer and of a run that freed nothing the page is the same (`EmptyPage`, an
  ASSUME of `MCCleanRun`).

### Bounds, and why they are enough

* `Runner`: two slots give every overlap of two invocations; a slot is reused, so any
  number may follow each other.  `MinInterval` 2 and a clock up to 2 let an interval
  pass, and let a stamp lie in the future after the clock is set back.
* `Agent`: an interval of 3 on a clock up to 5 lets a run be refused and another be due,
  with an install, an uninstall or a log-in between any two steps.  The binary is
  installed from the build; from itself it is `agent_self`'s.
* `Prune`: two roots, so that an early return can skip one; two entries in the first, so
  that one can follow another in either order.  An age gate of 1 on a clock up to 1
  (2 in the smaller instances) has an entry not yet and just old enough, and one from
  the future.  `Samples` holds each kind of entry, directories with an old and a new or
  a locked file.  One disturbance can fall between any two steps of a run.
* `CleanRun`: the four cleaners are a guarded, measured tool, a directory cleaner, and a
  directory cleaner and a tool on one area, so that every branch of both kinds and tiers
  occurs, first, last and after a failure.  Areas hold nothing or one unit, which tells
  removed from left; one act of another program falls between any two steps.  Between
  runs they act freely.  A unit weighs 21 bytes on a base of 4, which is printed in the
  third unit and not exactly; the ASSUME on sizes goes up to 3000 bytes, through all
  five units.
* `BarApp`: `MaxQueue` bounds the clicks under way together with scripts, not the
  loop's own scripts; with 3, a second *Clean now* can be posted from a rebuilt page
  while the first is handled.  `MaxPreviews` bounds dry-runs under way; the code has no
  bound, and two can answer in either phase of a clean.  The fair run has one message
  under way at a time; the races of several are `bar_safety`'s.
* `MemQuit`: pids 2 to 4, one of them the bar's, leave two to be listed, ticked and to
  change hands, which two rows can show; one application has a main process and a
  helper, one is critical.  `LoginItem` is finite as it stands.

### Fairness

* `Runner`: weak fairness of each invocation's own steps: the operating system
  schedules a live process.  Nobody is obliged to start one.
* `Agent`: weak fairness of `Launch` and of the job's steps: launchd gives the start it
  owes, and the system schedules what it started.  No command is obliged to go on.
* `BarApp`: weak fairness of the loop (its 120 s timer wakes it), of threads, timer and
  page, strong fairness of `Deliver`, which is enabled only between two passes.  That a
  child process ends is an assumption: `actions.rs` waits for it without a timeout.

## 5. What is proved

The proofs hold for every value of the constants that satisfies the named assumptions.

| Theorem | Under | Says |
|---|---|---|
| `RunnerProofs!TypeCorrect` | – | types |
| `MarkedBeforeCleanHolds` | – | an unforced clean needs a stamp that was written, under any overlap, crash and clock change |
| `NoBlindCleanHolds` | – | no unforced clean before a preview, a forced clean or a first run that found the cleaner disabled |
| `MissingOnlyMidWriteHolds` | – | until something fails, the window of `fs::write` is all that can be lost |
| `UnforcedSpacingHolds` | no overlap, clock not set back | the guard's promise |
| `GateRefined` | the same | `Runner` implements `CleanGate` |
| `PreviewMarksHolds` | `CanStep` (below) | liveness: an unforced invocation that chooses on an unmarked home gets it marked, unless one fails |
| `AgentProofs!AgentTypeCorrect` | – | types; an unloaded label has no process |
| `InstalledWholeHolds` | install is not run from `~/bin` | whole files and a loaded label after a reported success |
| `QuietAfterUninstallHolds` | – | nothing starts after a finished uninstall |
| `AgentSpacing`, `AgentGate` | – (in `Agent` the clock is never set back) | the guard's promise and `CleanGate` in the composition |
| `AgentIsRunner` | – | every behaviour of `Agent` is one of `Runner` |
| `AgentMarkedFirst`, `AgentNeverBlind`, `AgentKeepsStamp` | – | so `Runner`'s three invariants hold of launchd's job and install's preview |
| `InstallTakesEffectHolds` | `CanServe` (below), install is not run from `~/bin` | liveness: what launchd owes after an install marks the home, unless something fails, the configuration is bad or another command begins |
| `PruneProofs!TypeCorrect` | – | types |
| `KeptNeverLostHolds` | no root is relocated during a run | nothing on an external volume goes, whatever else is done to entries |
| `ReportExactHolds`, `UntouchedHolds`, `NothingLeftHolds` | – | exact totals, only eligible entries changed and none of them left in each run that nobody disturbs, after any number of disturbed ones |
| `DryHonestHolds` | no directory is configured twice | a dry-run announces what the run after it frees |
| `TurnRefined` | – | `Prune` implements `CleanerTurn` |
| `CleanRunProofs!TypeCorrect` | – | types: no size or total goes below zero |
| `EveryoneReportsHolds`, `TakesWhenDueHolds` | – | every cleaner's turn; who may remove, for any list of cleaners |
| `CountsTakenHolds` | directory cleaners count (`CleanerAssumption`) | true reports where nobody else writes |
| `TurnsRefined` | directory cleaners count | `CleanRun` implements `CleanerTurn`, for any list of cleaners |
| `SummaryProofs!RoundTrip` | – | a size printed in a unit and read back is off by at most a twentieth of it and one byte |
| `ResultsTellRunHolds` | `Base >= 100`, a list that `build_cleaners` makes | after an undisturbed real run the page shows what went, by bucket within an eighth and a byte, in total within that and half a tenth of a GB |
| `BarProofs!TypeCorrect` | – | types |
| `OneCleanHolds`, `ResultsHavePageHolds`, `DismissArmedHolds`, `FootprintHolds`, `NotStuckCleaningHolds` | – | the panel and its clean, for queues of any length |
| `NoReopenHolds` | button held under 350 ms | the debounce works |
| `SessionRefined` | – | `BarApp` implements `CleanSession` |
| `CleanSettlesHolds` | `CanRun`, `PassInduction` (below) | liveness: a clean gets through thread, channel and animation, for queues of any length |
| `CleaningLeavesHolds` | the same, `DrainInduction`, `ScriptInduction(Replies)` | liveness: the cleaning screen is left |
| `PreviewReportedHolds` | `CanRun`, `PassInduction`, `ScriptInduction({"report"})` | liveness: each dry-run is reported or its page is gone |
| `HostProofs!LoginTypeCorrect`, `MemTypeCorrect`, `HostTypeCorrect` | – | types, of each and of both in one process |
| `ChoiceHonouredHolds` | – | file and registration are what the last request came to but for the half a failure, a kill or another hand kept it from, and a launch mends the second, for any set of mishaps |
| `RemovedAndStoppedHolds` | – | what an uninstall leaves, and that no bar starts after it |
| `QuitsWhatWasTickedHolds`, `NeverCriticalHolds` | – | signals, for any processes, applications and limit |
| `HostSafe` | – | the same four with both in one process (`HostSpec`) |
| `AggregateSpeaks` | – | an application's pid in the list is a largest main process or, without one, a largest of all, in any order of `ps` |
| `AggregateReaches` | – | and each of these is the one where `ps` lists it last: `Speakers` allows nothing the code does not do |
| `DataProofs!NormalForm`, `NormalizeTwice` | – | `normalize_lexical` leaves no `..`, `.` or empty component, and does nothing the second time |
| `BelowIsAllowed`, `AllowedIsBelow` | – | the allowlist lets through what lies below the root and nothing else |
| `StaysBelowHome` | no `..`, no second slash after `~/` | a configured `~/...` is the home or below it |
| `BuildsInOrder` | – | `build_cleaners` lists what is switched on, each once, in order |
| `BuiltAsAssumed` | names are strings (the provers know no literal's type) | and such a list satisfies `CleanerAssumption` |
| `RootDecides` | the entry is no link and not called `Volumes` | the two gates ask where the root is, by its text or through its links: `Prune`'s `RootOf[e] \notin external` |
| `Omissions` | – | of everything a `config.toml` may leave out, only the age of the logs or the trash changes its meaning |

Each argument in a paragraph:

* **Runner.**  `MarkedBeforeClean` is not inductive: a process that has read a stamp
  must be remembered as having read one.  The strengthening says that a stamp in the
  file was credited (`lastRun # NoStamp => credited # NoStamp`) and that whoever is past
  `Choose` as a real unforced run has a credited stamp behind it; the same shape with
  `shown` gives `NoBlindClean`, where whoever is about to stamp has shown or forced.
  Spacing adds, under no overlap, that at most one slot is busy, `credited` is never
  newer than the clock, the file holds `credited` or nothing, and a run past the
  guard satisfies it against `credited`.  Refinement maps each action to a step of
  `CleanGate` or a stutter from that invariant.
* **Agent.**  Most actions leave `Runner`'s variables alone and the rest are `Runner`'s
  own, so its lemmas carry over action by action.  Spacing does not assume that
  invocations take turns: the job and the preview do overlap.  It follows because only
  the job stamps and cleans, the preview being dry, so what `RunnerProofs` knows of the
  one busy slot is known of `Job` here.  `QuietAfterUninstall` needs where in its script a
  command is and what it has done by then (`Progress`): past its third step an uninstall
  has removed the launcher, so that a label which outlived its bootout has nothing to
  start.  `InstalledWhole` needs the same of an install, whose files are whole one after
  the other.
  `AgentIsRunner` is the identity mapping: launchd starts a `run` in a free slot, install a
  `dry-run`, a bootout that kills the job is a crash, and everything else leaves
  `Runner`'s variables alone.
* **Prune.**  Types need that every entry's files are a finite set, so that a size is a
  number.  `KeptNeverLost` follows from: an entry past `Visit` lies in a root that was
  not external, and roots become external only between runs.  For an
  undisturbed run (`others = 0`), `ReportExact` needs a ledger: what has been removed is
  what has been counted, except that in the middle of an entry `freed` and what is left
  of it make up `bytes + size`.  `Untouched` needs that an entry is as it was, or gone, or
  the directory being taken apart, and that the one being handled was eligible.
  `NothingLeft` needs the other half (`Swept`): whatever was eligible and lies in a root
  the run is done with, or in this one and no longer in `listing`, is gone or in hand.
  `DryHonest` compares two runs: `Books` says that a run's total is the number of files in
  the eligible entries of what it has gone through, a set which no directory enters
  twice, and `Promise` that as long as `preview` stands the disk is what it was.
  `TurnRefined` takes `ReportExact` at the step in which the report is made, and that
  every removal is one of a real run; the rest are stutters.
* **CleanRun.**  `TakesWhenDue` is about the past (`took`), so it needs to know who has not
  acted yet: `Untaken` says that nobody after `Now`, nor `Now` itself before it acts, has
  taken anything, and `Place` what is known of the cleaner at work (a tool never acts in
  a dry-run, the sweep tier only when `swept`, which implies `low`).  `CountsTaken` adds
  `Tally`: between the two measurements `before` is what is left plus what was taken, and
  a directory cleaner's `bytes` are what it took.  `TurnsRefined` follows a turn from
  `StartTool` or `StartDirs` to the report, with `CountsTaken` at its end; a skipped
  cleaner, having had no turn, is a stutter or drops the report before it.
* **Summary.**  Division with a remainder bounds the rounding on either side and the
  parser's truncation from below; the rest is arithmetic on those bounds.
  `ResultsTellRun` reads a size back once or twice on its way to the page.  With
  units of at least 100 a reading is within six hundredths (`ReadBack`), which is
  kept by sums of any length (`SumsClose`, by induction), and two in a row stay within
  an eighth; the total's second rounding is to a tenth of a GB (`Rounds`, at that unit).  The row's word decides its bucket, so the cleaners have to be those that
  `build_cleaners` knows (`BuiltAsShipped`).  The run's own half is
  `CountsTaken`.
* **Data.**  The library's induction theorems take an operator, which the provers do not
  instantiate, but `WFMin` does not: a nonempty set of naturals has a least element.
  From it follow `Induct`, for a set of naturals, and `InductSeq`, for a set of
  sequences that grow at their end; a statement is proved for every input as the set of the
  inputs it holds for.  A recursive function (`f[i \in 0..n] == ...` inside a LET) is opened
  by proving that one such function exists and that there is no other.  `NormalForm` and
  its neighbours go along the path's components, `AggregateSpeaks` along the lines of
  `ps`: after any number of them the fold's record speaks for those read so far (`Says`);
  `AggregateReaches` looks at the last of them, which no other outweighs.
* **BarApp.**  `OneClean` and `ResultsHavePage` are inductive together with: messages exist
  only where a page does, and the loop enters `event` only with an event pending.
  `Footprint` adds that a pass in which the panel was closed ends in `Release`.
  `NotStuckCleaning` adds (`Leaving`) that, while no clean is under way, behind every
  script that enters the cleaning screen there is one that leaves it, and that a page
  which shows it has asked for a clean or has such a script before it.
  `NoReopen` adds that a press which found the panel open is followed by a hide whose
  time cannot have become stale before the click is seen.
  `SessionRefined` adds only what ends a queue: results are enqueued in the pass that takes
  them from a clean that was animated, and whatever another step puts behind them
  is no result (`ResultsLast`, `EvalLast`).
* **LoginItem.**  `ChoiceHonoured` is about a bar at rest, so the strengthening (`Carried`)
  follows the request through a toggle: unless both halves have lapsed, `saving` is what it
  comes to; unless the file has, the file says so from its second write on.  That a launch
  may clear the lapse of the service rests on the file's half, which it obeys.
  `RemovedAndStopped` needs the same of every step of an uninstall: a bar alive since the
  `pkill` has its signal coming or was spared (`Stopped`).
* **MemQuit.**  Rows, ticked rows, asked rows and the target are all related to the
  process table in one way: a pid that has not moved is still the process it was listed as,
  a main one where the list had one.  `NeverCritical` adds that the target was killable
  when looked at, so only a change since then can make it critical.  In `MCBarHost` a step of
  either part leaves the other's variables alone, so `HostSpec` implies both specifications.

### Liveness, and its premises

The specifications' own fairness is what the five liveness theorems assume; nothing is
added to it.  Two things the provers cannot do stand as premises, and neither restricts
the program:

* **ENABLED is opaque to them.**  `CanStep`, `CanServe` and `CanRun` say that the actions
  named by the fairness can be taken where their guards say so: a living invocation
  always has a step (each label has an action, and where it has several their further guards
  are a case split), a loop that waits can wake, a thread that runs can end, a queue that
  is not empty has a head.  TLC evaluates ENABLED: all three are invariants of the
  instances of `runner_overlap`, `agent` and `bar_fair`, which can be repeated with a
  module that extends `MCRunner` and `RunnerProofs` (`MCAgent` and `AgentProofs`,
  `BarProofs`) and the same constants.  The runs themselves check the properties
  under fairness alone.
* **No set can be given by a temporal formula**, so `Induct` does not serve for a leads-to
  that counts down.  `PassInduction`, `DrainInduction` and `ScriptInduction(T)` are the
  principle itself at one formula each, `P(0) /\ (\A n : P(n) => P(n + 1)) => \A n : P(n)`,
  which holds of every behaviour of anything.  `P(0)` and `P(n) => P(n + 1)` are
  proved (`PassEndsNow`, `PassEndsLater` and so on); there is the content.

The arguments:

* **An invocation** (`PreviewMarks`) goes through at most seven labels.  At each, another
  process's step leaves it where it is or something has failed (`AliveStep`), its own takes
  it on (`ChooseStep` to `WriteStep`), and weak fairness with `CanStep` makes that step
  come (`FairScheduled`).
* **The agent** (`InstallTakesEffect`): the owed start stays owed until launchd gives it
  or a new command begins (`OwedWaits`); given, it finds whole files, so it is a run at
  its first label (`OwedLaunch`), and from there it is the invocation above.
* **A pass of the loop** (`RestsAgain`): `Left` counts the clicks, messages and answers in
  the channels, the threads that may add an answer, the stages ahead and, ten times over,
  the user events which would each begin another pass.  While the loop is awake every step
  of its own lowers it (`LoopLeft`: a message taken may start a thread, which weighs less
  than the message) and nobody else's raises it (`OutsideLeft`: the user's clicks come while it
  waits).  So the loop waits again and again, and is in each stage again and again.
* **A clean** (`CleanSettles`): thread, answer in the channel, animation, timer over; it leaves the
  first and third by the fairness of thread and timer, the others in the next `results` and
  `tick` stage, which cannot be left without (`CleanStays`).
* **The cleaning screen** (`CleaningLeaves`): it has no button, so the messages of its page only
  drain, `Deliver` by `Deliver` (strong fairness: each time the loop waits) and then in
  the `actions` stage.  If a clean is under way it settles.  By then `Leaving` (the invariant behind
  `NotStuckCleaning`) has a reply in the queue, and a script in a queue moves up with every
  script run until the page shows it or is gone (`DueRuns`, `DueStays`).
* **A dry-run** (`PreviewReported`): thread, answer, the `results` stage, the queue, in the same way.

**Only model-checked.**  The premises of the liveness theorems about ENABLED.
Of the ASSUMEs of the MC modules: the sum of the sizes that
`Aggregate` adds up; where a `~//...` leads; that an
empty answer has the page of a run that freed nothing.  The disagreements of section 4 are
counterexamples, and TLC's.  No module uses a recursive operator.

## 6. Not modelled

Status and init-config (output, and a file written if absent), the text of plist and
launcher, the title (a string) and the packaging scripts are left out for good: they hold
no state that anything else depends on.  Of the configuration the models keep the
switches, the ages, whether it can be read and whether it is enabled; thresholds and
schedule are constants.  Integer widths are not modelled: hours and days are unbounded
numbers, and the products `min_interval_hours * 3600` (`runner.rs:78`) and `days * 86_400`
(`safety.rs:75`) overflow only for values no configuration would hold.
