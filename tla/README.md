# A formal model of pytest-dsl

pytest-dsl runs test cases written in a small Chinese-language DSL.  The Python
package `pytest_dsl/` parses a file, interprets it and reports every step; it
can serve its keywords to other processes over XML-RPC; and `electron-gui/`
is a desktop application that edits projects and runs tests and builds as
child processes.  This directory holds TLA+ modules for the parts of it in
which orders, interleavings and failures matter, the TLC configurations that
check them on small instances, and TLAPS proofs of what matters most for all
instances.  Paths below are relative to the repository's root.

## 1. The system: inventory

Components in bold have a module.

| Component | State it keeps | Operations and interactions | What is hard |
|---|---|---|---|
| **DSL executor** (`pytest_dsl/core/dsl_executor.py`, `core/execution/*`, `core/custom_keyword_manager.py`) | node stack, variables, imported files, the `_call_stack` of each custom keyword | `execute` walks the tree recursively through the dispatcher: loops, branches, retries, keyword calls, teardown; reports every node with a line to the tracker | break, continue, return, errors and `KeyboardInterrupt` (a `BaseException`) leave through different `except` and `finally` clauses; the same executor and tracker are used again for the next run |
| **Execution tracker** (`core/execution_tracker.py`) | step stack, current step, counters; a process-wide registry by `dsl_id` | start/finish of an execution and of steps, callbacks | pops whatever is on top; shared by consecutive runs |
| **Step debugger** (`workbench/debug.py`, `workbench/runner.py`) | call depth, auto-continue, tracked steps | two tracker callbacks; blocks on standard input; `stop` raises through tracker and executor | depth counted in two callbacks with different early returns |
| **Remote keyword server** (`remote/keyword_server.py`, `remote/diagnostics.py`) | limiter permits, handlers and level of the root logger, shared variables, shutdown flag | `run_keyword` on one thread per request, variable synchronisation, shutdown hooks | several locks and several things without one |
| **GUI build task** (`electron-gui/src/services/buildService.js`) | `runningBuilds`, a task object per build, `build.json` | spawns pytest and `allure watch`, publishes a report address, falls back to an export, stop with SIGTERM then SIGKILL | five asynchronous continuations over one object, each of which may come last |
| **GUI execution task** (`src/services/executionService.js`) | `runningTasks`, a child per task, the line being assembled | start, refusal, output, stop, kill timer, close | a task id that is used again; pipes that cut lines anywhere |
| **GUI execution window** (`src/renderer/executionController.js`, `commandController.js`, `state.js`) | current task and build, execution line of each tab, console and command preview per page | starts after an await, events of the main process, stop, step, change of tab and project | state checked before an await; events that come after the project changed |
| **GUI build report** (`src/renderer/buildReportController.js`) | report frame, reveal frame and reload timers, build history | events of builds, change of page | timers left over by an earlier build |
| **GUI consoles** (`src/renderer/consoleController.js`, `src/services/consoleLogService.js`) | bounded buffers, one screen, log files | lines, animation frames, resets, panels | a frame that is cancelled; a buffer that is replaced under a running task |
| **GUI files and tabs** (`src/renderer/fileController.js`, `projectTreeController.js`, `projectController.js`, `workspaceController.js`, `src/editor-bridge.js`, `src/services/projectService.js`) | tabs, editor instances, the root state that stands for the active tab | open, type, save, close, create, rename, delete, snapshots | one root state for many tabs, with awaits between |
| **GUI project search** (`src/renderer/searchController.js`, `src/services/searchService.js`, `main.js`) | search tokens, candidate cache, results on the panel | chunked search, cancellation, replacement | events of superseded searches; results that are no longer true |
| **GUI test suites** (`src/renderer/suiteTreeController.js`, `src/services/suiteService.js`) | selected suites, file overrides | clicks, refreshes, targets of a run | overrides made for a list of files that has changed |
| **GUI keyword index** (`src/services/keywordDefinitionService.js`, `keywordService.js`, `src/renderer/keywordController.js`, `configController.js`) | two caches, the completion list, the keyword panel | queries by python processes, invalidations | answers older than an invalidation, in any order |
| **GUI definition windows** (`main.js`, `src/definition-renderer.js`) | windows by file, order of use | open, reuse, evict, close | a "closed" event that comes late |
| **GUI remote monitor** (`src/renderer/remoteStatusController.js`, `configController.js`, `src/services/remoteStatusService.js`, `configService.js`) | selected configuration files, status of servers | ticks, probes, changes of project | ticks, probes and project changes overlap |
| **pytest plugin: directory hooks** (`plugin.py`, `core/auto_directory.py`) | per process: counts of open cases and the directories set up and torn down; lock and mark files in /tmp | pytest's hooks around each case run `setup` and `teardown` files of the directories above it | a hook that fails half-way; several worker processes; deselected cases and interrupts |
| Remote hooks (`remote/hook_manager.py`) | registered hooks | called by the server at start-up, shutdown and around keywords | repetition at shutdown |
| Remote client and registry (`remote/keyword_client.py`, `core/remote_server_registry.py`, `remote/variable_bridge.py`, `remote/return_handlers.py`) | connections, synchronised variables | synchronises variables before a call, merges captures after it | failed connections |
| Global context, variables (`core/global_context.py`, `core/context.py`, `core/yaml_vars.py`, `core/variable_*`) | a JSON file with a file lock; layered providers | get/set/clear, look-up order | a crash between truncation and write |
| Lexer, parser, expressions (`core/lexer.py`, `core/parser.py`) | none | PLY grammar | none for a model checker |
| Keyword registry, loader, validator (`core/keyword_*`, `core/validator.py`, `core/hook*`) | registered keywords | registration at import time | silent overwriting |
| HTTP keywords (`core/http_*`, `core/auth_provider.py`) | sessions | requests, assertions with retry | none concurrent |
| Built-in keywords, reporting (`keywords/*`, `core/reporting.py`) | none of their own | leaves of the executor | none |
| CLI, collection (`cli.py`, `core/dsl_collector.py`, `core/auto_decorator.py`) | none of their own | glue around the executor | none concurrent |
| MCP server (`mcp/server.py`) | an embedded server | request/response wrappers | none |
| GUI runtimes, metadata, layout, rendering | a JSON file; the DOM | look-ups and drawing | none |

The runner, the tracker, the debugger and the executor call one another in
one thread; the debugger's callback is the only place where that thread
waits.  A pytest run may have several such processes (pytest-xdist, which
`docs/guide/pytest-integration.md` recommends), with only files between them.  The remote server runs custom keywords with executors of its own, on
concurrent threads that share the closures of those keywords.  The GUI is two event
loops: the main process with its services, and a window with its controllers.  A
window calls the main process and awaits the reply; the main process also sends
events, in order, which are not ordered with replies.  It talks to the Python
side only through child processes.  What makes each modelled component correct is
the list of properties in section 3; `PROJECT.json` lists the hazards line by line,
with the property that covers each.

## 2. Modules

| Module | Models |
|---|---|
| `ExecutionTracker`, `StepDebugger` | the tracker; the debugger's two callbacks and its commands |
| `DSLExecutor` | the interpreter; EXTENDS the two above and composes them |
| `TestLifecycle` | abstract: what the executor promises of one test |
| `DirectoryHooks` | the plugin's set-up and tear-down of directories, in every process of a run |
| `RemoteServer` | `run_keyword` on concurrent threads |
| `TaskPromise` | abstract: what the main process promises of a task |
| `BuildTask`, `ExecutionTask` | one build; calls of `startExecutionTask` that may share an id.  Both implement `TaskPromise` |
| `ExecutionWindow` | the window's side of both, over tasks that keep `TaskPromise` |
| `BuildReport` | report frame, its timers, and the build history |
| `Console` | buffers, screen and log files of the two consoles |
| `FileTabs` | tabs, editor instances and the files on disk |
| `ProjectSearch` | search, candidate cache and replacement |
| `SuiteSelection` | the boxes of the suite trees and the targets of a run |
| `KeywordIndex` | caches of definitions, completion list, keyword panel |
| `DefinitionWindows` | the windows that show keyword sources |
| `RemoteMonitor` | configuration, selection, ticks and probes |
| `BuildProofs`, `ExecutionProofs` | theorems about `BuildTask` and `BuildReport`, and about `ExecutionTask` and `ExecutionWindow` |
| `ServicesProofs`, `WindowsProofs` | theorems about `ProjectSearch` and `RemoteMonitor`, and about `DefinitionWindows` and `Console` |
| `WorkbenchProofs` | theorems about `SuiteSelection`, `KeywordIndex` and `FileTabs` |
| the other `…Proofs` | theorems about the module of that name |
| `MCDSLExecutor`, `MCDirectoryHooks`, `MCRemoteServer`, `MCBuildTask` | instances for TLC |
| `MCSession`, `MCServices`, `MCExecution`, `MCWorkbench` | several modules in one instance; the initial states choose the one that moves, and the rest stays in its initial state, where no fair action of it is enabled |

**DSLExecutor.** The recursion of the interpreter becomes an explicit stack,
`frames`, with one record per activation of `dispatcher.execute`; `raised` is
the exception that travels through it and `Leave` is the end of an activation:
`finally` pops the node stack, the closure of a custom keyword restores its
`_call_stack`, and the dispatcher finishes the step in its `else` or `except`,
which a `KeyboardInterrupt` passes by.  The tree is not fixed: wherever a
handler takes its next statement, any statement the grammar allows may come, so
the behaviours of the model are the runs of all test files within the bounds.
A keyword that executes no DSL (built-in, or remote) is one leaf that completes,
fails or is interrupted.  `stage` says how far `_handle_start` is, `runVars`
belong to `runner.execute_from_content` around it.  A test is rejected before it
executes (`NotStarted`, `ParseFails`) as the runner's early exits do; the
context that was already applied then stays in the variables, as those of a run of
its own, until the next test that is executed clears them.  The history variable
`executed` is the last run whose test was.  Interrupts come from the debugger's stop or a keyword during which
Ctrl-C is hit, the places where a run spends its time; an interrupt inside the
interpreter's own bookkeeping is not modelled, and the caller of an interrupted
run starts no other one with the same objects.

**DirectoryHooks.** A process is at one place of pytest's protocol: idle, in the
setup of a case, in the case, in its teardown, or at the end of the session, with
the directories its loop still has to come to (`todo`).  `scope` is the plugin's
`DslLifecycleState`, `ran` the two sets of `auto_directory.py`; both belong to a
process.  Every process collects all cases and takes some of them, so cases that
other workers or nobody takes stay in the counts until the session ends.  A hook
file is executed under its lock: processes exclude one another only where
`hash()` of the directory is the same in both (`sameHash`), as it names the lock
file.  A file may fail, its mark may not be writable after it was executed
(`EndHook`, the second alternative), and an interrupt leaves the protocol without
the case's teardown.  The loops of the plugin walk the whole chain of a case:
directories that are set up already are passed (`SkipSetup`).  At the end of a
session they are sorted by depth only, so directories of equal depth are closed
in any order (`ClosingOrders`).  Pytest's own part (which case comes next, what follows an
exception) is external.

**RemoteServer.** A step is one operation on one shared object, what the
interpreter lock or a lock of the code makes atomic.  The limiter does not
block.  A log record walks the root logger's handler list with an index, as
Python iterates a list, without a lock, while `AttachHandler` and
`DetachHandler` change the list.  A custom keyword reads `_call_stack`
(`CallCustom`) and sets it (`EnterBody`) in two steps.  After a reply the same
identifier may serve another request.

**BuildTask.** A step is what Node's event loop runs to completion: an event
handler, a timer, or the code up to the next await.  `await` is the promise the
build's control flow waits for.  Each child is `"alive"`, `"exited"` (between
its exit and its close event) or `"none"`; exit and close of pytest are one step,
as nothing looks at the difference.  `SettleBuildCompletion(t)` ends most
handlers: `t` is the task as the handler has left it.  The two publishers
(`PublishAllureReportReady`, which probes the watch server, and
`PublishStatic` … `ExportEnds`) check and write in one step each, as the code
does after its last await.  The model takes writes of `build.json` to succeed, and
one build at a time: `startBuildTask` refuses a second one with the same id, and
two builds share nothing else.

**ExecutionTask.** Every function of the service runs to completion, so one action
is one call or event.  `running` and `staged` are the registry and the run
directories by id; `task` has a record per call, with the timers a second stop
loses (`lostTimers`).  Output is a sequence of six kinds of bytes (text, the mark
of a structured event, CR, LF and the two parts of a wide character), which the
pipe cuts into chunks anywhere.  `Decode` is `chunk.toString()`, which knows only
its own chunk: a part of a character at a chunk's edge becomes U+FFFD (`"?"`; one
of them stands for one or more).  The history `broken` remembers which characters
a chunk ended within.  `Chunk` appends to the buffer and passes the complete lines on, which
`SplitLines` takes from between the line ends.

**ExecutionWindow.** `window` is the part of the renderer's state that belongs to
what runs; `open`, `tab` and `entry` are the tabs, the active one and the
`debugPaused` that `syncActiveFileState` saves for each.  Tabs are opened, selected
(the active one too, which is synced in and not out), closed and cleared; the
history variable `dropped` remembers that a pause was lost with one of these, until
the next step is shown.  A start is
`StartExecution` (up to the reset of the console), `ResetReplied` and perhaps
`StartRejected`.  `inbox` holds the events in the order they were sent.  The history
variable `overlapped` remembers that a second start passed the test of
`currentTaskId` during the first one's await.

**BuildReport, Console, DefinitionWindows, KeywordIndex, RemoteMonitor.** One action
per handler, timer, animation frame, reply or event.  Time is abstracted to "a
timer may fire whenever it is armed".  Contents are versions or numbers: the
keywords of a project are the version of its sources that a query read, lines of a
console are numbered as they come, a configuration file stands for its servers.

**FileTabs.** The main process serves calls in order with synchronous functions, so
a call changes the disk when it is sent and its reply waits in `calls`.  `window`
holds the tabs, the editor instances and the root state that stands for the active
tab; `SyncOut` and `SyncIn` move it, as `syncActiveTab` and `activateTab` do.
`raced` and `spoilt` are history variables, see below.

**ProjectSearch.** A scan yields after each chunk, where other handlers come in.
A text is how often each query occurs in it; the hash that a replacement compares
is the text itself.  The cache holds sets of paths; `TreeOrder` gives the order in
which the tree lists a set of them, any one order per set.

**SuiteSelection.** One tree stands for either; `launch` is a run between its two
reads of the selection.  A suite's targets are computed as `suiteService.js` does,
with directories that contain others.

Definitions commented as a mutant or `faulty` are variations used to see each
property fail; no specification uses them.

### Histories, and what properties leave out

Some properties are stated only for behaviours in which a known race of the
code has not happened; each such race is in section 6.

* `overlapped` (two starts), `Forgotten` (another project opened during a build):
  the window's properties.
* `dropped` (the tab that offers to go on was selected again while on screen, closed
  or cleared, or forgotten with its project): `StepCanContinue`, a part of
  `WindowFollowsTask`.
* `raced` (a reply came to another tab or to another text than it was asked for), `spoilt` (a tab has lost its file or shares its
  key with another): the tabs' properties.  `MCWorkbench` lets nothing follow
  them.
* `outside` (another program changed the files), `orphan` (the project changed
  during a search): the cache and the sum of the batches; not `ResultIsOfQuery`,
  `WritesWhatWasShown` or `SearchSettles`.
* `overtaken`, `doubtful` (a query was under way when the cache or the list was
  reset): the caches and the completion list; not the panel.
* `stale` (files of an overridden suite came or went), `launch.quiet` (no click
  while a run was started): the boxes and the run.
* `reopened`, `early`: a source file opened again while its window was closing, a
  definition sent to a window that was loading.

## 3. What is checked

| Run | Question and answer |
|---|---|
| `executor` | In every test within the bounds, run under the debugger without a start line and with every command at every pause: node stack and open steps mirror the path of active nodes (`StacksFollowPath`), the tracker agrees with its stack (`TrackerAgrees`), a recursion guard is set exactly while the keyword's body runs (`RecursionGuard`), every teardown statement is tried whatever ended the body (`TeardownCompletes`), keyword bodies are stepped over and the depth is the nesting of calls (`DebuggerStepsOver`), and the executor implements `TestLifecycle` (`ImplementsLifecycle`). |
| `session` | Two runs of one executor: a test that was executed, passed or failed, leaves no variable; what the executor holds is of the current run, or the context of a run since then that was rejected or did not parse, and no run follows an interrupted one (`TestsLeaveNoVariables`).  Three cases below two levels of directories in two processes: a case runs between the setup and the teardown of each of its directories, an inner one is torn down before an outer one, no process executes a hook twice, and a process that ends has closed all it opened (`HooksEncloseCases`).  Consoles show and save all that was written (`ConsoleTellsTruth`).  Definition windows are found by their file, bounded, and show what was asked for last (`DefinitionsAreShown`). |
| `hooks_once` | *Violated*: two processes execute the same directory's hook (section 6). |
| `debug_pause_from` | *Violated*: with `--pause-from-line` the debugger blocks inside a keyword body (section 6). |
| `teardown_always` | *Violated*: a failing `@import` ends a test without teardown (section 6). |
| `server` | Three threads, two permits: permits are conserved, the root level is lowered once and restored last, one handler per capture, no record captured twice, no guard stuck, every request is answered (`RequestsAnswered`). |
| `server_lost_record` | *Violated*: a record misses its own request's diagnostics (section 6). |
| `server_false_recursion` | *Violated*: two concurrent calls of one keyword are taken for a recursion (section 6). |
| `build_stop_export` | *Violated*: an export starts for a stopped build (section 6). |
| `services` | A build in every order of events, timers, awaits and a stop: `build.json` agrees with the task and the completion event (`ManifestAgrees`), its entry lasts exactly while it is needed and a stopped build has no child left (`EntryIsSafe`), one report address is published and none after a stop (`PublishedOnce`), it implements `TaskPromise` (`KeepsPromise`), a stop ends it (`StopEnds`), and once pytest has ended it completes (`FinishedCompletes`).  Two ticks of the remote monitor: the panel is about the servers of the selection, whatever order answers come in (`MonitorTellsTruth`), and again and again it shows what is on disk (`MonitorCatchesUp`).  Two searches: results are of the query on the panel, batches add up, the cache has the project's files (`SearchTellsTruth`), a replacement writes only files whose text is the one that was searched (`WritesWhatWasShown`), the panel does not stay loading (`SearchSettles`). |
| `execution` | Two calls with one id: they never touch one another's run and only a stopped child is killed (`TaskKeepsToItself`), lines and structured events are put together again wherever the pipe cuts, and only the wide characters it cuts arrive spoilt (`LinesReassembled`), each call implements `TaskPromise` and a stop ends it.  A debug run and a build in a window with two projects, and a debug run in a window whose tabs are opened, selected, cleared and closed: what the window shows as running runs, and a waiting debugger can be told to go on from the tab that offers it, unless that tab lost the offer (`WindowFollowsTask`), logs and command belong to one task (`ConsoleIsOwn`), a stop frees the window (`StopReleasesWindow`).  Three builds: the report frame and the history are the project's own (`ReportTellsTruth`). |
| `workbench` | Suites: boxes tell what is selected (`BoxesTellTruth`), a click reaches what it covers and a run takes what is checked and is labelled as such (`SelectionIsRun`).  Keywords: no list is older than its last reset (`KeywordsAreCurrent`).  Tabs: what a click acts on is what the user sees, a clean tab shows the disk (`TabsTellTruth`), a save writes a file's own text and unsaved text survives (`TextIsKept`). |

### Bounds

All bounds are constants or are in the configuration files.

* Executor: `MaxFrames = 7` nested activations are enough for the test node, its
  statement list, a custom keyword that calls another one, a block inside it and
  a statement of that block (`session`, with two runs: five).  `MaxSteps` (four
  tracked nodes; three when there are two runs) lets a statement follow the one
  that failed.  Two keywords give mutual recursion.  `MaxRepeat = 2` gives loops
  and retries a first and a last round, and a teardown a statement after one that
  fails.  `MaxLine = 1`: lines only identify nodes for the debugger's start line,
  where `MaxLine = 2` of `debug_pause_from` separates before and after.
* Directory hooks: two cases of one directory and one of another, below one root;
  hook files in the root and in one of the two.  So a directory is finished before
  the session is, another is left open, and one has no file.  Two processes are
  enough, as a process meets others only at a lock.
* Server: three threads with two permits make a refusal, two captures whose
  enters and exits cross, and a third that comes between.  One record and
  nesting depth one keep that exhaustive.  No symmetry is used, as the run also
  checks liveness.
* Build: no bound is needed, its state space is finite.
* Execution tasks: two calls that share an id, three bytes of output (a line, its
  end, and one more; or a wide character cut in two, and one more) and two stops,
  the second of which replaces the timer.
* Window: two tabs; two steps of the debugger, so that one may be announced when
  another was dropped; one event on its way, while the others wait in their task.  A
  start, its reply, an event, a stop and a change of tab or project can then cross.
  The window moves on two sides: with a debug run and a build, so that both consoles
  occur, while the user only changes projects; and with every act on the tabs while
  only the debug run is started.  What the two sides share is the window's one
  pause, which a build never sets.
  Three builds and a history of two make the history drop its oldest entry.
* Tabs: two files, one library source, three tabs, two versions and one call under
  way, so that a reply crosses everything the user does.
* Search: three files searched two at a time, so that a search has two chunks; two
  queries, two projects, a result limit of two, two searches and three other acts.
  `MCServices` also lets x be the first query, as the two are alike, and changes only
  the files of the project that was shown first (`Alike`).
* Suites: three suites of which one contains the others, four files of which two
  come and go.  Keywords: two projects, two queries under way, one save and one
  change of project.  Definition windows: three files for two places and three
  windows.  Console: three lines each, a buffer of
  two, a screen of one, and one reset.
* Monitor: two projects, two configuration files, two overlapping ticks, three acts
  of the user or the disk.

### Fairness

* `RemoteServer!FairSpec`: weak fairness of every thread's steps.  The operating
  system schedules each thread, no step of `run_keyword` waits for another
  thread (the limiter refuses instead of blocking), and keywords end.  Records
  and calls are bounded, as a keyword that logs or calls for ever does not end.
* `BuildTask!Fairness`, `ExecutionTask!TaskFairness`: weak fairness of awaits, timers
  and close events, which the event loop delivers; of the end of a process only
  once it was sent SIGKILL.  Children need not end by themselves, nor on SIGTERM.
  That a killed process' close event comes assumes that no grandchild keeps its
  output pipes open.
* `ExecutionWindow!WindowFairness`: replies and events are delivered, and a task that
  was stopped completes.  The latter is what `StopEnds` shows of both services.
* `ProjectSearch!SearchFairness`: the main process serves its requests, a running
  scan goes on to its next chunk (`setImmediate`), events are delivered.
* `RemoteMonitor!MonitorFairness`: the interval's timer fires, a question to the main
  process is answered, every probe ends (it has a time limit).  Strong fairness
  of `ReadConfig`: the directory can be read again and again, so not every attempt
  fails.  Without it `MonitorCatchesUp` would ask the window to know a file that
  cannot be read.
* The executor and the other parts of the window have no liveness property: their
  statements may block, and nothing there waits for something else.

Deadlock is checked where the system cannot stop.  `execution`, `services` and
`workbench` set `CHECK_DEADLOCK FALSE`: when every call, build, search or text within
the bounds is over, the user may simply do nothing more.

## 4. What is proved

The theorems hold for every value of the constants that the named assumptions
allow; each module with constants names its own (`ExecutorAssumption`,
`ServerAssumption`, `SuitesAssumption`, ...).

* `DSLExecutorProofs!TrackerAlwaysAgrees`: `Spec => []TrackerAgrees`.  The
  inductive invariant is `TrackerInv`: it adds that every open step's id was
  given out before (`id <= total`), from which the ids stay in increasing order
  when a step is pushed.  Only start and finish touch the tracker, so the
  proof has a lemma for each and one for the actions through which they are
  reached (`Dispatch`, `Leave`).
* `DSLExecutorProofs!ExecutorInvariant`: the invariant of the other theorems about
  the executor.  Every action is one of five moves of the stacks (`StepMoves`): a
  handler executes a child (`Takes`) or is left (`Goes`), changes only its own state
  (`Rests`) or sets its recursion guard (`Guards`), or the debugger answers
  (`Answers`).  What is true of the stacks is proved once for each move.
  `ExecutorInv` has types, `NodeStackIsPath`, `RecursionGuard`, `MirrorInv` (the open
  steps lie in order on top of those an interrupt left behind; without an
  interrupt there are none), `StageInv` and `OutcomeInv` (where `_handle_start` is,
  seen from the stacks, and what left the body), `TeardownInv` (what the teardown
  owes) and `LocalsInv` (whose variables are left).  From it follow
  `StacksAlwaysFollowPath`, `RecursionIsGuarded`, `TestsNeverLeaveVariables`,
  `TeardownAlwaysCompletes` and `ExecutorImplementsLifecycle`, whose steps map to
  steps of `TestLifecycle` or to a stutter.  `DebuggerAlwaysStepsOver` adds `NestInv`
  (the debugger's count is the number of calls on the stacks until an interrupt,
  and never below it) and has the hypothesis `PauseFromLine = 0`; the run
  `debug_pause_from` shows that it is needed.
* `RemoteServerProofs!TypesAndPermits`: types and `PermitsConserved`, from
  `LimiterInv`, their conjunction: permits stay in range only because the
  admitted requests account for the missing ones.  It uses facts about the
  cardinality of `Admitted` when a thread joins or leaves it.
* `LevelSharedAlways`, `HandlersAlwaysMatch`, `GuardAlwaysReleased` (same
  module), each relative to the types.  `HandlersMatch` needs that removing one
  position of a sequence without repetitions removes one element;
  `GuardReleased` needs that a guard removed by a thread does not leave another
  one without a running body.
* `RecordsCapturedOnce` (same module): while a record of a thread is handed from
  handler to handler, the thread's own handler may still be ahead of the cursor, and
  then the record was not captured yet (`CaptureInv`).  Handlers that leave
  the list move those behind them towards the cursor and never behind it; that is
  why none takes a record twice, and also why one may miss it (section 6).
* `BuildProofs!BuildInvariant`: the inductive invariant is `BuildInv`, the type invariant
  and the safety invariants with `Flow` (which fields follow from the
  promise the build waits for) and `Settled` (a build that can settle has
  settled, and if it is finished and has not, it was stopped and has children).
  Without `Settled` a stop could complete a build in the same step in which it
  cancels it, and the refinement would fail.  `SettleKeeps` proves once, for any
  task a handler leaves behind that is in step with the control flow, what
  `settleBuildCompletion` preserves; each handler then shows that its task is of
  this kind.  From it follow `BuildSafe`, `BuildEntryIsSafe`, `BuildPublishesOnce`
  and `BuildKeepsPromise` (the refinement of `TaskPromise`: the initial states map
  to initial states and each step to a step or a stutter).
* `ExecutionProofs!TasksKeepApart`: `TaskSpec => []TaskKeepsToItself`.  The
  invariant `TaskInv` says that registry and children agree in both directions: a
  registered call is the one its id names and is not closed, and a child that is
  not closed is registered and its files are staged.  So whoever finds the id
  free finds nobody's file, and a timer that looks the task up by id finds its own
  or none.
* `ExecutionProofs!LinesAlwaysReassembled`, `TasksKeepPromise`: the lines of a text are
  cut at its line ends, which are found by their rank in the set of all of them;
  a text that grows keeps its lines and adds those of its rest with what came
  (`GrownLines`).  So what was sent is always the lines of the whole output
  (`OutputInv`), the completed event is the last, and each step of a call is a step
  of `TaskPromise` or a stutter (`PromiseStep`).
* `ExecutionProofs!ConsolesAreOwn`, `WindowAlwaysFollows`: the completed event of a
  task comes once and last (`EventsOK`), so a handler that is over has no event left
  that could undo its end; unless two starts overlapped, the window shows a task
  from its reset to its end (`ShownInv`), and an active log file and a taken command
  are that task's (`ConsolesInv`).  `FollowInv` adds the debugger: a step at which
  one waits is on its way to the window or is offered by a tab, whatever tabs are
  activated meanwhile, or the offer was `dropped` (`StepInv`).
* `BuildProofs!ReportAlwaysTellsTruth`: whatever changes the current build also
  clears the report, so a reload timer that is still due names what the frame
  holds already (`FrameInv`); the counter of reloads stays below the attempt of
  the timer (`ReloadInv`); the current build is the last one that was started and
  what the history holds has ended, so a build that is recorded is newer than all
  of it (`HistoryInv`).
* `WindowsProofs!DefinitionsAlwaysShown`: `WindowsInv` says that the order of
  use lists the registered files once (`ListInv`), that a registered window exists and
  has its file (`RegisteredInv`), that unless a file was opened again too early no
  other window has it (`FoundInv`), and that what a loading window will show
  first is what it was asked for last (`ShownInv`).
* `DirectoryHooksProofs!HooksAlwaysEnclose`: `HooksInv` says where in its loop a
  process is and what the loop has done before that place (`PlaceInv`, `HookInv`), and
  that the sets of `auto_directory.py` agree with the plugin's state (`RanInv`).  The
  count of a directory is at least the number of cases still to come in it
  (`CountsCases`); the count of an outer directory is at least what is owed for an
  inner one, its cases or its teardown, and the cases of its own (`CountsInner`), so
  the inner one is torn down first (`OrderInv`).  The counts are compared with
  cardinalities of sets of cases, and most lemmas are about those.
* `WindowsProofs!ConsolesAlwaysTellTruth`: `ConsoleInv` says that a buffer holds the
  last lines since it was cleared and the screen shows it unless a frame is to come;
  and of the log files, that the resets on the wire are in order the awaited
  entries nothing came of yet, that nothing of a console is sent between a live reset and its
  reply, and that no reset of a console that exports is on the wire.  So the text of
  a file only grows, and what its messages will make of it (`Sent`, a recursive
  function of the queue) is the text with each line written.
* `WorkbenchProofs!KeywordsStayCurrent`: every cache, every list and every query
  that may still fill one is bounded below by the version at its last reset, except
  for the queries `overtaken` and `doubtful` stand for.
* `WorkbenchProofs!BoxesAlwaysTellTruth`, `SelectionAlwaysRun`: an override is always
  a proper part of its suite and, while the suite is selected, not empty, so what a box counts is
  what a run would start with; a sum over disjoint finite sets is full, empty or in between as
  the sets are.  The arguments of a run leave out a suite below another selected
  one; what is selected stays covered, as a finite tree has no infinite ascent.
* `WorkbenchProofs!TabsAlwaysTellTruth`, `TextIsAlwaysKept`: the list of tabs is a map
  from keys as long as no two share one, and each helper of the window is described by what
  it does to that map (`Shape`).  The invariant is about the window, the disk and the
  queue of replies together.  Every reply still fits when it comes: it has the text
  on the disk, or a later reply brings the newer one (`CallsOK`, where `Live` are the paths
  that will be open by then).  A tab without a mark shows the disk or a reply covers it
  (`TextsOK`); without the second half the invariant would fail between a
  replacement and the last of its reloads.  The root state is empty under an open tab only while
  a reply that fills it again is on its way (`Return`).  With it go two facts about steps:
  a save finds the root state and the editor on one file (`SaveRoot`), and each step
  but the typing, a close without saving and another project leaves every
  text that differs from the disk in its instance (`StepOK`).
* `ServicesProofs!PanelTellsTruth`: every change of the selection goes through
  `refreshRemoteStatuses`, which takes the right to answer from every earlier
  probe, so at most one probe is the last and it asks for the servers on the panel.
* `ServicesProofs!SearchAlwaysTellsTruth`, `OnlyWhatWasShownIsWritten`: ids of searches
  are fresh, so no event of an old one is taken for the new; the batches on the wire,
  after what the panel holds, are a part without gaps of what the scan has found, each
  file once, and the counts sum up (`SearchInv`).  A match on the panel was found in the text
  whose hash goes with it, and the replacement compares that hash with the
  file's text.

Several definitions are recursive functions (the lines of a text, the files of a
queue of batches, the tabs to reload).  What they compute is proved for every input by
unfolding one step and a lemma `FromZero`, which says that a set that
holds 0 and with n also n + 1 holds every natural number; it follows from the
well-foundedness of the order.  The library's own induction theorems take an
operator as a parameter, which the provers cannot instantiate.

Only model-checked: all liveness, as fairness and `ENABLED` are out of the prover's
reach.  Every safety property of the passing runs, invariants and action
properties, is a theorem or follows from one, as does each refinement.  What the theorems say
of the window's tabs, consoles, suites and searches keeps the hypotheses of section 2
(`raced`, `spoilt`, `stale`, ...), which the properties name.

## 5. What is not modelled

Of the modelled components: resource imports and their caches, values of
expressions, the content of messages and reports, registration of keywords,
`skip_current_step` (the executor never calls it), the debugger's event protocol
and syntax-check mode; of the server the variable synchronisation, shutdown and
query methods; of the build failing writes of the manifest, exports of logs and
reports on request and the look-up of runtimes, of which only success, absence and
failure are kept; of the window the command bar, the syntax check, downloads,
drag and drop, folders, line wrapping, expansion and rendering of trees, the
matcher and `.gitignore` rules of the search, the parsing of YAML and the
generated pytest files.

Components without a module: lexer and parser, registry and validator, HTTP and
built-in keywords, MCP server, remote client, command line and collection are
sequential translation, request wrapping or I/O, where a model would repeat the
code line by line and check nothing; the global store is one file read and
written whole, its crash window is listed as a hazard; the runtimes and the
metadata of the GUI keep no state between two calls (their file, too, is truncated
and then written, `src/services/metadataStore.js:96`, and an unreadable one is taken for an empty one); layout is DOM.

Counted by lines the models stand for a small part of the implementation.  Three
fifths of its JavaScript are one generated file,
`electron-gui/src/editor-bundle.js` (24677 of 40789 lines, the bundle of the
CodeMirror library), and much of the rest builds DOM nodes and texts; of the
controllers and services with state, the modules cover the handlers that change it.

## 6. Where the code and its documentation disagree

1. `debug_pause_from`: `on_step_start` ignores a call before the start line
   (`workbench/debug.py:55`), `on_step_finish` decrements the depth for it (94).
   A later pause is then inside a keyword body, which the comment at 25-27
   excludes.
2. `teardown_always`: `_handle_start` executes imports in the loop that finds the
   teardown block (`core/dsl_executor.py:299-310`), so the teardown is skipped
   when an import fails; the comment at 329 and `docs/guide/dsl-syntax.md:459`
   promise it in any case.
3. `server_lost_record`: a request's exit removes its handler while another
   thread iterates the list (`remote/diagnostics.py:237`); the thread skips the
   next handler, perhaps its own.
4. `server_false_recursion`: `_call_stack` belongs to the closure and not to the
   thread (`core/custom_keyword_manager.py:322`), and a concurrent request fails
   with a recursion error.
5. `build_stop_export`: `maybePublishStaticAllureReport` does not look at
   `task.stopped` after awaiting the runtime (`buildService.js:497`) and spawns
   an export for a stopped build.
6. `hooks_once`: the sets of executed directories belong to one process
   (`core/auto_directory.py:29`) and the mark file (140) is never read, so every
   worker executes the hooks of each directory it has a case of; the comments at
   133 and 139 speak of other processes and of sharing the state between them.

### Races no documentation speaks of

The modules contain the following as the code has them.  Where a property would
fail only because of one, it excludes it by name (section 2); no comment, test or
document of the repository says what should happen.  Files are in
`electron-gui/src/renderer/` unless another directory is named.

* A context applied before parsing stays in the executor's variables when the text does
  not parse or the test is rejected, and the next runs see it until a test is
  executed (`pytest_dsl/core/execution/runner.py:38-50`).
* Each chunk of a child's output is decoded on its own (`chunk.toString()`, at
  `src/services/executionService.js:116` and 123 and at six places of
  `src/services/buildService.js`), so a character of several bytes that the pipe cuts
  is shown as U+FFFD; the workbench's events carry Chinese as it is
  (`ensure_ascii=False`, `pytest_dsl/workbench/protocol.py:12`).
* Selecting the tab that is on screen already syncs its saved state in without syncing
  out before (`fileController.js:58-65`, reached by Ctrl and a digit and by reloads):
  a pause shown since then is lost, and of a debugger that waits only "stop" is left.
  Closing or clearing the tab does the same.
* At the end of a session the plugin also tears down directories that were never set
  up, for instance in a worker that took none of their cases (`pytest_dsl/plugin.py:173`).
* Two starts may both pass the test of `currentTaskId` (`executionController.js:52`).
* Another project opened during a build clears `currentBuildId` but not
  `currentTaskId`; the end of the build is ignored and the window stays locked
  (`executionController.js:401`, `projectController.js:101`).
* A reset of the consoles while a task runs loses the export target of its log.
* `applySnapshot` empties `currentFile` before `selectFile` syncs it out, so the
  outgoing tab gets the path "" (`fileController.js:198`).
* After their awaits a save clears the dirty mark (523-527) and a reload sets the
  text (556) of whatever tab is active by then; two opens of one file under way
  make two tabs with one key (183-191).
* A file renamed or deleted leaves its open tab with the old path; saving while
  closing gives up what is typed meanwhile.
* A replacement in the project does not forget the cached candidates
  (`main.js:322`), a candidate that vanished fails the whole search, and a
  replacement that throws leaves the earlier files changed and their tabs as they were.
  A search outlives the project it was started for.
* An override keeps the files of a suite as they were (`suiteTreeController.js:465`);
  when the suites of a run are gone, the list of targets is empty and pytest runs the
  whole project (`src/services/suiteService.js:104`); suites and files are
  read on two sides of an await (`executionController.js:193`, 212).
* The reply to a reading of the configuration may be applied to another project
  (`remoteStatusController.js:70`); the next tick corrects it.
* The late "closed" event of a definition window deletes the entry of the window
  that took its place (`main.js:145`); a window asked again while it loads shows
  the first definition.
* A query of definitions that was under way at an invalidation is cached
  (`src/services/keywordDefinitionService.js:116`), and the answer to an older query may
  replace the completion list (`configController.js:196`).
* `waitForAllureReportReady` returns the address after its deadline as if the server had
  answered (`src/services/buildService.js:722`), also when the server is gone.
* When staging fails, the run directory stays (`src/services/executionService.js`).

## 7. How the project was built, and what could follow

In this order: executor with tracker and debugger, server, build task and their
first theorems; then the execution task and its window, consoles and report; tabs
and search; suites, keyword index, definition windows and monitor; then theorems
about the task, the window, the report, the index and the monitor; the directory
hooks; the inductive invariants of the executor, the captures of the
server, the definition windows, the hooks, the report, the debugger's window and
the lines of a task; and last those of the suites, the search, the consoles and the
tabs.

What could follow, the most valuable first: the shutdown and the variable
synchronisation of the server, composed with `RemoteServer`; the global store with
several processes and an abstract atomic map; a window that reloads and saves by key
instead of by the active tab, for which `raced` could go from the properties of the tabs.

## 8. Running

`tlc -workers 2 -config DSLExecutor.cfg MCDSLExecutor` (`PROJECT.json` names the module
of every configuration) and `tlapm BuildProofs.tla`.  The largest run,
`session`, explores about 1.6 million states; each run ends within five minutes.
