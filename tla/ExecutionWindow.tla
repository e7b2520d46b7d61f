--------------------------- MODULE ExecutionWindow ---------------------------
(***************************************************************************)
(* The window's side of running things: executionController.js with the    *)
(* parts of consoleController.js, commandController.js, state.js,          *)
(* fileController.js and projectController.js it calls or that change what *)
(* it keeps.  Of the debug position only debugPaused is kept here, not the *)
(* line that is highlighted.  The main process is the two services behind  *)
(* the IPC calls of main.js, each task keeping the promise of module       *)
(* TaskPromise, which ExecutionTask and BuildTask are shown to keep.       *)
(*                                                                         *)
(* A handler runs up to its next await; what comes after is an action of   *)
(* its own.  Events reach the window in the order they were sent; a reply  *)
(* to a call is not ordered with them.                                     *)
(***************************************************************************)
EXTENDS Naturals, Sequences, SequencesExt

CONSTANTS
  Tasks,    \* the tasks the user asks for, each once
  ModeOf,   \* "run", "debug" or "build"
  Files,    \* files that tabs show
  First,    \* the one shown at first
  NoTab,    \* no tab
  NoTask,   \* no task
  MaxSteps, \* bound: steps a debugger announces
  MaxInbox  \* bound: events on their way when output or a step adds one

ASSUME WindowAssumption ==
  /\ ModeOf \in [Tasks -> {"run", "debug", "build"}]
  /\ First \in Files /\ NoTab \notin Files /\ NoTask \notin Tasks /\ MaxSteps \in Nat /\ MaxInbox \in Nat

VARIABLES
  attempt,    \* of a task: where the handler that starts it stands
  resets,     \* console resets whose replies the window waits for, in order
  window,     \* root state: running task, build, debugPaused, view
  open,       \* openFiles: the tabs
  tab,        \* activeFileKey
  entry,      \* debugPaused as saved in each tab
  preview,    \* of a console: the task its command belongs to (commandPreviews)
  target,     \* of a console: exportLogTarget, "none", "active" or "inactive"
  logFile,    \* of a console: the task in its header and those with lines in it
  command,    \* a debug command without its reply: "none", "sent" or "unsent"
  phase, cancelled, outcome,  \* of a task, see TaskPromise ("ended": passed or failed)
  debugger,   \* of a task: steps announced, whether it waits in one, input unread
  inbox,      \* events on their way to the window
  overlapped, \* history: a start passed the guard while another waited
  dropped     \* history: since the last step was shown, a pause was not saved

windowVars == <<attempt, resets, window, open, tab, entry, preview, target, logFile,
          command, phase, cancelled, outcome, debugger, inbox, overlapped, dropped>>

editor == <<open, tab, entry, dropped>>

service == <<phase, cancelled, outcome, debugger>>
console == <<target, logFile>>

Scopes == {"debug", "build"}
ScopeOf(mode) == IF mode = "build" THEN "build" ELSE "debug"
Scope(t) == ScopeOf(ModeOf[t])

WindowInit ==
  /\ attempt = [t \in Tasks |-> "none"]
  /\ resets = <<>>
  /\ window = [task |-> NoTask, mode |-> "none", build |-> NoTask,
               buildStatus |-> "none", paused |-> FALSE, scope |-> "debug"]
  /\ open = {First} /\ tab = First
  /\ entry = [f \in Files |-> FALSE]
  /\ preview = [s \in Scopes |-> NoTask]
  /\ target = [s \in Scopes |-> "none"]
  /\ logFile = [s \in Scopes |-> [task |-> NoTask, lines |-> {}]]
  /\ command = "none"
  /\ phase = [t \in Tasks |-> "new"]
  /\ cancelled = [t \in Tasks |-> FALSE]
  /\ outcome = [t \in Tasks |-> "none"]
  /\ debugger = [t \in Tasks |-> [steps |-> 0, waits |-> FALSE, unread |-> FALSE]]
  /\ inbox = <<>>
  /\ overlapped = FALSE /\ dropped = FALSE

-----------------------------------------------------------------------------
(* The helpers of the handlers, on the record of the root state.           *)

(* setRunningState(true, t, mode) and setRunningState(false).              *)
Running(w, t) == [w EXCEPT !.task = t, !.mode = ModeOf[t]]

NotRunning(w) ==
  [w EXCEPT !.task = NoTask, !.mode = "none", !.paused = FALSE]

(* releaseExecutionCommand: the preview of the task or, without one, that  *)
(* of the console on screen; then the one of the running task's console.   *)
ReleaseShown(t) ==                          \* faulty: only the console on screen
  IF preview[window.scope] = t THEN [preview EXCEPT ![window.scope] = NoTask] ELSE preview

ReleaseExecutionCommand(t) ==
  LET mine == {s \in Scopes : preview[s] = t}
      released == IF mine # {} THEN mine ELSE {window.scope}
  IN IF mine = {} /\ preview[window.scope] # NoTask
     THEN preview
     ELSE [s \in Scopes |-> IF s \in released \union {ScopeOf(window.mode)}
                            THEN NoTask ELSE preview[s]]

(* appendLog and appendProcessOutput, as far as the log file goes.         *)
Append1(file, s, t) ==
  IF target[s] = "active" THEN [file EXCEPT ![s].lines = @ \union {t}] ELSE file

(* finishConsoleForExecution.                                              *)
FinishConsole(s) ==
  target' = [target EXCEPT ![s] = IF @ = "active" THEN "inactive" ELSE @]

Sent(t, type) == Append(inbox, [task |-> t, type |-> type])

-----------------------------------------------------------------------------
(* runExecutionTask, runSuiteExecution and runBuildExecution up to the     *)
(* await of resetConsoleForExecution.  The guard looks at the running      *)
(* task; a build leaves its id and status behind already.  The main        *)
(* process writes a new log file, or fails to.                             *)
StartExecution(t) ==
  /\ attempt[t] = "none" /\ window.task = NoTask
  /\ attempt' = [attempt EXCEPT ![t] = "resetting"]
  /\ \E ok \in BOOLEAN :
       /\ resets' = Append(resets, [task |-> t, ok |-> ok])
       /\ logFile' = IF ok THEN [logFile EXCEPT ![Scope(t)] = [task |-> t, lines |-> {}]]
                     ELSE logFile
  /\ target' = [target EXCEPT ![Scope(t)] = "none"]
  /\ window' = IF ModeOf[t] = "build"
               THEN [window EXCEPT !.build = t, !.buildStatus = "running"]
               ELSE window
  /\ overlapped' = (overlapped \/ resets # <<>>)
  /\ UNCHANGED <<editor, preview, command, service, inbox>>

(* After the await: the task becomes the running one and the main process  *)
(* is asked to start it, which it does or refuses (startExecutionTask and  *)
(* startBuildTask may throw).                                              *)
TargetOf(ok) == IF ok THEN "active" ELSE "none"

ResetReplied ==
  /\ resets # <<>>
  /\ LET t == Head(resets).task
         s == Scope(t) IN
     /\ resets' = Tail(resets)
     /\ target' = [target EXCEPT ![s] = TargetOf(Head(resets).ok)]
     /\ logFile' = IF target'[s] = "active"
                   THEN [logFile EXCEPT ![s].lines = @ \union {t}] ELSE logFile
     /\ window' = [Running(window, t) EXCEPT !.scope = s]
     /\ preview' = [preview EXCEPT ![s] = t]
     /\ \/ /\ attempt' = [attempt EXCEPT ![t] = "started"]
           /\ phase' = [phase EXCEPT ![t] = "running"]
           /\ inbox' = Sent(t, "started")
        \/ /\ attempt' = [attempt EXCEPT ![t] = "rejected"]
           /\ UNCHANGED <<phase, inbox>>
  /\ UNCHANGED <<editor, command, cancelled, outcome, debugger, overlapped>>

(* The catch clause.                                                       *)
StartRejected(t) ==
  /\ attempt[t] = "rejected"
  /\ attempt' = [attempt EXCEPT ![t] = "over"]
  /\ logFile' = Append1(logFile, Scope(t), t)
  /\ IF window.task = t
     THEN /\ preview' = ReleaseExecutionCommand(t)
          /\ window' = IF ModeOf[t] = "build"
                       THEN [NotRunning(window) EXCEPT !.buildStatus = "none"]
                       ELSE NotRunning(window)
     ELSE UNCHANGED <<preview, window>>
  /\ FinishConsole(Scope(t))
  /\ UNCHANGED <<resets, editor, command, service, inbox, overlapped>>

-----------------------------------------------------------------------------
(* stopCurrentTask: the reply only writes a log line.                      *)
StopCurrentTask ==
  /\ window.task # NoTask
  /\ LET t == window.task IN
     /\ phase[t] = "running" /\ ~cancelled[t]
     /\ cancelled' = [cancelled EXCEPT ![t] = TRUE]
  /\ UNCHANGED <<attempt, resets, window, editor, preview, console, command,
                 phase, outcome, debugger, inbox, overlapped>>

(* sendDebugCommand, which the buttons offer while the task is paused; the *)
(* command is written to the child, whose debugger goes on.                *)
SendDebugCommand ==
  /\ window.task # NoTask /\ window.mode = "debug" /\ window.paused
  /\ command = "none"
  /\ window' = [window EXCEPT !.paused = FALSE]
  /\ LET t == window.task
         sent == phase[t] = "running" IN
     /\ command' = IF sent THEN "sent" ELSE "unsent"
     /\ debugger' = [debugger EXCEPT ![t].waits = FALSE,
                                     ![t].unread = @ \/ (sent /\ ~debugger[t].waits)]
     /\ inbox' = IF sent /\ debugger[t].waits THEN Sent(t, "step-finish") ELSE inbox
  /\ UNCHANGED <<attempt, resets, editor, preview, console, phase, cancelled,
                 outcome, overlapped>>

(* Its reply: a command that was not sent leaves the task paused again.    *)
DebugCommandReplied ==
  /\ command # "none"
  /\ command' = "none"
  /\ window' = IF command = "unsent"
               THEN [window EXCEPT !.paused = window.task # NoTask] ELSE window
  /\ UNCHANGED <<attempt, resets, editor, preview, console, service, inbox, overlapped>>

-----------------------------------------------------------------------------
(* The main process.                                                       *)
TaskOutput(t) ==
  /\ phase[t] = "running" /\ Len(inbox) < MaxInbox
  /\ inbox' = Sent(t, "output")
  /\ UNCHANGED <<attempt, resets, window, editor, preview, console, command,
                 service, overlapped>>

(* The debugger announces a step and waits for a command, unless one was   *)
(* written before it asked.                                                *)
StepStarts(t) ==
  /\ ModeOf[t] = "debug" /\ phase[t] = "running"
  /\ ~debugger[t].waits /\ debugger[t].steps < MaxSteps /\ Len(inbox) < MaxInbox
  /\ debugger' = [debugger EXCEPT ![t] =
       [steps |-> @.steps + 1, waits |-> ~@.unread, unread |-> FALSE]]
  /\ inbox' = Sent(t, "step-start") \o
       (IF debugger[t].unread THEN <<[task |-> t, type |-> "step-finish"]>> ELSE <<>>)
  /\ UNCHANGED <<attempt, resets, window, editor, preview, console, command,
                 phase, cancelled, outcome, overlapped>>

TaskCompletes(t) ==
  /\ phase[t] = "running"
  /\ phase' = [phase EXCEPT ![t] = "forgotten"]
  /\ outcome' = [outcome EXCEPT ![t] = IF cancelled[t] THEN "stopped" ELSE "ended"]
  /\ inbox' = Sent(t, "completed")
  /\ UNCHANGED <<attempt, resets, window, editor, preview, console, command,
                 cancelled, debugger, overlapped>>

-----------------------------------------------------------------------------
(* handleExecutionEvent and handleBuildEvent, on the first event of the    *)
(* inbox: an event of another task, or of another build, is dropped.       *)
TakesUnstopped(t) == window.task = t /\ ~cancelled[t]     \* faulty: stop ends it
Takes(t) == IF ModeOf[t] = "build" THEN window.build = t ELSE window.task = t

(* The completed branches: setRunningState(false) whatever task is shown.  *)
Completed(t) ==
  /\ logFile' = Append1(logFile, Scope(t), t)
  /\ preview' = ReleaseExecutionCommand(t)
  /\ window' = IF ModeOf[t] = "build"
               THEN [NotRunning(window) EXCEPT !.buildStatus = outcome[t]]
               ELSE NotRunning(window)
  /\ attempt' = [attempt EXCEPT ![t] = "over"]
  /\ FinishConsole(Scope(t))

(* handleDebugStepEvent and the events that only show or log something.    *)
Shown(t, type) ==
  /\ window' = CASE type = "step-start" -> [window EXCEPT !.paused = TRUE]
                 [] type = "step-finish" -> [window EXCEPT !.paused = FALSE]
                 [] OTHER -> window
  /\ dropped' = (dropped /\ type # "step-start")
  /\ preview' = IF type = "started" THEN [preview EXCEPT ![Scope(t)] = t] ELSE preview
  /\ logFile' = IF type = "started" THEN logFile ELSE Append1(logFile, Scope(t), t)
  /\ UNCHANGED <<attempt, target>>

HandleEvent ==
  /\ inbox # <<>>
  /\ inbox' = Tail(inbox)
  /\ LET t == Head(inbox).task
         type == Head(inbox).type IN
     \/ ~Takes(t) /\ UNCHANGED <<attempt, window, preview, console, dropped>>
     \/ Takes(t) /\ type = "completed" /\ Completed(t) /\ UNCHANGED dropped
     \/ Takes(t) /\ type # "completed" /\ Shown(t, type)
  /\ UNCHANGED <<resets, open, tab, entry, command, service, overlapped>>

-----------------------------------------------------------------------------
(* syncActiveFileState "out", if a tab is active, and "in".                *)
SaveNothing == entry                                       \* faulty: no sync "out"
SyncOut == IF tab = NoTab THEN entry ELSE [entry EXCEPT ![tab] = window.paused]

SyncIn(paused) == window' = [window EXCEPT !.paused = paused]

(* resetCommandPreview, which clearEditor calls.                           *)
ResetCommandPreview == preview' = [preview EXCEPT ![window.scope] = NoTask]

otherThanTabs == <<attempt, resets, console, command, service, inbox, overlapped>>

(* switchToTab, by a click, a key, a snapshot or reloadOpenFiles.  The tab *)
(* on screen is synced "in" all the same, and not "out" before.            *)
SwitchToTab(f) ==
  /\ f \in open
  /\ tab' = f
  /\ entry' = IF f = tab THEN entry ELSE SyncOut
  /\ SyncIn(entry[f])
  /\ dropped' = (dropped \/ (window.paused /\ tab \in {f, NoTab}))
  /\ UNCHANGED <<open, preview, otherThanTabs>>

(* selectFile and openExternalReadonlySource, once the file was read.      *)
OpenTab(f) ==
  /\ f \notin open
  /\ open' = open \union {f}
  /\ tab' = f
  /\ entry' = SyncOut
  /\ SyncIn(FALSE)
  /\ dropped' = (dropped \/ (window.paused /\ tab = NoTab))
  /\ UNCHANGED <<preview, otherThanTabs>>

(* closeTab, of the tab on screen or of another; after the last one the    *)
(* editor is cleared.                                                      *)
CloseTab(f) ==
  /\ f \in open
  /\ open' = open \ {f}
  /\ entry' = [entry EXCEPT ![f] = FALSE]
  /\ IF f # tab
     THEN /\ dropped' = (dropped \/ entry[f])
          /\ UNCHANGED <<tab, window, preview>>
     ELSE /\ dropped' = (dropped \/ window.paused)
          /\ \/ open' = {} /\ tab' = NoTab /\ SyncIn(FALSE) /\ ResetCommandPreview
             \/ \E g \in open' : tab' = g /\ SyncIn(entry[g]) /\ UNCHANGED preview
  /\ UNCHANGED otherThanTabs

(* clearEditor, when a snapshot of the project has no file to edit.        *)
ClearEditor ==
  /\ tab' = NoTab /\ SyncIn(FALSE) /\ ResetCommandPreview
  /\ dropped' = (dropped \/ window.paused)
  /\ UNCHANGED <<open, entry, otherThanTabs>>

(* switchWorkspaceView, which shows the console of the view.               *)
SwitchWorkspaceView(s) ==
  /\ window.scope # s
  /\ window' = [window EXCEPT !.scope = s]
  /\ UNCHANGED <<editor, preview, otherThanTabs>>

(* applySnapshot of another project: the tabs and the build are forgotten, *)
(* the running task is not.  The editor is cleared if there is no file.    *)
OpenOtherProject ==
  /\ window' = [window EXCEPT !.paused = FALSE, !.build = NoTask, !.buildStatus = "none"]
  /\ open' = {} /\ tab' = NoTab
  /\ entry' = [f \in Files |-> FALSE]
  /\ UNCHANGED preview \/ ResetCommandPreview
  /\ dropped' = (dropped \/ window.paused \/ \E f \in Files : entry[f])
  /\ UNCHANGED otherThanTabs

-----------------------------------------------------------------------------
User ==
  \/ \E t \in Tasks : StartExecution(t)
  \/ StopCurrentTask \/ SendDebugCommand
  \/ \E f \in Files : SwitchToTab(f) \/ OpenTab(f) \/ CloseTab(f)
  \/ ClearEditor
  \/ \E s \in Scopes : SwitchWorkspaceView(s)
  \/ OpenOtherProject

WindowNext ==
  \/ User \/ ResetReplied \/ DebugCommandReplied \/ HandleEvent
  \/ \E t \in Tasks : StartRejected(t) \/ TaskOutput(t) \/ StepStarts(t) \/ TaskCompletes(t)

WindowSpec == WindowInit /\ [][WindowNext]_windowVars

(* Replies and events are delivered, and a task that was stopped ends: that*)
(* is StopEnds of BuildTask and of ExecutionTask.                          *)
WindowFairness ==
  /\ WF_windowVars(ResetReplied) /\ WF_windowVars(HandleEvent)
  /\ \A t \in Tasks : WF_windowVars(StartRejected(t)) /\ WF_windowVars(cancelled[t] /\ TaskCompletes(t))

WindowFairSpec == WindowSpec /\ WindowFairness

-----------------------------------------------------------------------------
(* Types of the variables.                                                 *)
WindowTypeOK ==
  /\ attempt \in [Tasks -> {"none", "resetting", "started", "rejected", "over"}]
  /\ resets \in Seq([task : Tasks, ok : BOOLEAN])
  /\ window \in [ task : Tasks \union {NoTask}, mode : {"none", "run", "debug", "build"},
                  build : Tasks \union {NoTask},
                  buildStatus : {"none", "running", "stopped", "ended"},
                  paused : BOOLEAN, scope : Scopes ]
  /\ open \subseteq Files /\ tab \in open \union {NoTab}
  /\ entry \in [Files -> BOOLEAN]
  /\ preview \in [Scopes -> Tasks \union {NoTask}]
  /\ target \in [Scopes -> {"none", "active", "inactive"}]
  /\ logFile \in [Scopes -> [task : Tasks \union {NoTask}, lines : SUBSET Tasks]]
  /\ command \in {"none", "sent", "unsent"}
  /\ phase \in [Tasks -> {"new", "running", "forgotten"}]
  /\ cancelled \in [Tasks -> BOOLEAN]
  /\ outcome \in [Tasks -> {"none", "stopped", "ended"}]
  /\ debugger \in [Tasks -> [steps : Nat, waits : BOOLEAN, unread : BOOLEAN]]
  /\ inbox \in Seq([task : Tasks, type : {"started", "output", "step-start",
                                          "step-finish", "completed"}])
  /\ overlapped \in BOOLEAN /\ dropped \in BOOLEAN

InTransit(t, type) == \E i \in DOMAIN inbox : inbox[i] = [task |-> t, type |-> type]

(* The build runs but its id is no longer the window's: another project    *)
(* was opened, or another build asked for, since it was started.           *)
Forgotten(t) == ModeOf[t] = "build" /\ window.build # t

(* The task the window shows as running does run, or the news of its end   *)
(* is on the way and will be taken: nothing that arrives late makes a      *)
(* finished task the current one again.  Only a forgotten build stays.     *)
ShownTaskLives ==
  \A t \in Tasks : window.task = t =>
    \/ phase[t] = "running" \/ InTransit(t, "completed") \/ attempt[t] = "rejected"
    \/ Forgotten(t)

(* Unless two starts overlapped, a task that runs is the one the window    *)
(* shows, so that it can be stopped; "a task is running already" is only   *)
(* refused on that ground.                                                 *)
RunningTaskShown ==
  \A t \in Tasks : phase[t] = "running" /\ ~overlapped => window.task = t

(* Unless two starts overlapped, the log file of a console holds lines of  *)
(* no task but the one its header names.                                   *)
LogIsOwn ==
  \A s \in Scopes : ~overlapped => logFile[s].lines \subseteq {logFile[s].task}

(* Unless two starts overlapped, the command of a console belongs to the   *)
(* task that is shown, or is free to follow the selection again.           *)
CommandReleased ==
  \A s \in Scopes : ~overlapped /\ preview[s] # NoTask => window.task = preview[s]

(* A debugger that waits in a step can be told to go on: once nothing is   *)
(* on its way to the window, the tab on screen or another one offers the   *)
(* command, whatever tabs were opened and looked at since.  Only the tab   *)
(* that offers it takes the offer away, by being selected while it is on   *)
(* screen, closed or cleared, or forgotten with the project.               *)
StepCanContinue ==
  \A t \in Tasks :
    /\ debugger[t].waits /\ phase[t] = "running" /\ window.task = t
    /\ inbox = <<>> /\ command = "none" /\ ~dropped
    => window.paused \/ \E f \in open \ {tab} : entry[f]

(* A task that is stopped leaves the window free for the next, unless two  *)
(* starts overlapped or another project was opened during a build.         *)
StopReleasesWindow ==
  []<>(\A t \in Tasks :
         cancelled[t] => window.task # t \/ overlapped \/ Forgotten(t))

(* What the window shows as running, and offers to stop or to step, is     *)
(* what runs in the main process.                                          *)
WindowFollowsTask ==
  WindowTypeOK /\ ShownTaskLives /\ RunningTaskShown /\ StepCanContinue

(* What is written on a console, its log file and its command, is of one   *)
(* task.                                                                   *)
ConsoleIsOwn == LogIsOwn /\ CommandReleased
=============================================================================
