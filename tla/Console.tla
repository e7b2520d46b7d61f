------------------------------- MODULE Console -------------------------------
(***************************************************************************)
(* The two consoles of the window, electron-gui/src/renderer/              *)
(* consoleController.js: a bounded buffer of lines per console, one screen *)
(* that shows the active console at the next animation frame, and a log    *)
(* file per console that the main process writes                           *)
(* (services/consoleLogService.js) from messages it gets in order.  Lines  *)
(* of a console are numbered as they come.                                 *)
(***************************************************************************)
EXTENDS Naturals, Sequences

CONSTANTS
  MaxBuffer,  \* MAX_CONSOLE_BUFFER_LINES
  MaxRender,  \* MAX_CONSOLE_RENDER_LINES
  MaxLines,   \* bound: lines written to a console
  MaxResets   \* bound: executions that reset a console

ASSUME ConsoleAssumption ==
  /\ MaxBuffer \in Nat \ {0} /\ MaxRender \in 1 .. MaxBuffer
  /\ MaxLines \in Nat /\ MaxResets \in Nat

Scopes == {"debug", "build"}

VARIABLES
  activeScope,
  panels,    \* of a console: open and expanded
  buffers,   \* of a console: lines, droppedLineCount and exportLogTarget
  flag,      \* consoleRenderScheduled
  raf,       \* an animation frame was asked for
  screen,    \* consoleBody: how many lines it says it omits, and its lines
  wire,      \* messages to the main process, in order
  waiting,   \* resets that are awaited, in order, and what came of them
  logFiles,  \* of a console: the lines in its log file
  resetsLeft,
  lastLine,     \* history, of a console: lines written so far,
  cleared,   \* those of them that came before it was last cleared,
  since      \* and before its log file was last opened

screenVars == <<flag, raf, screen>>
logVars == <<wire, waiting, logFiles, resetsLeft, since>>
consoleVars == <<activeScope, panels, buffers, lastLine, cleared, screenVars, logVars>>

ClosedPanel == [open |-> FALSE, expanded |-> FALSE]
EmptyBuffer == [lines |-> <<>>, dropped |-> 0, target |-> "none"]
BlankScreen == [omitted |-> 0, lines |-> <<>>]
Zero == [s \in Scopes |-> 0]

ConsoleInit ==
  /\ activeScope = "debug"
  /\ panels = [s \in Scopes |-> ClosedPanel]
  /\ buffers = [s \in Scopes |-> EmptyBuffer]
  /\ flag = FALSE /\ raf = FALSE /\ screen = BlankScreen
  /\ wire = <<>> /\ waiting = <<>> /\ logFiles = [s \in Scopes |-> <<>>]
  /\ resetsLeft = MaxResets
  /\ lastLine = Zero /\ cleared = Zero /\ since = Zero

LastOf(lines, n) == SubSeq(lines, IF Len(lines) > n THEN Len(lines) - n + 1 ELSE 1, Len(lines))

-----------------------------------------------------------------------------
(* Rendering.                                                              *)

(* shouldRenderConsoleBuffer                                               *)
ShouldRender(panel) == panel.open \/ panel.expanded

(* visibleConsoleEntries and renderConsoleBuffer                           *)
Rendered(panel, buffer) ==
  LET shown == LastOf(buffer.lines, MaxRender)
  IN  IF ShouldRender(panel)
      THEN [omitted |-> buffer.dropped + Len(buffer.lines) - Len(shown), lines |-> shown]
      ELSE BlankScreen

(* scheduleConsoleBufferRender                                             *)
ScheduleRender ==
  /\ flag' = TRUE /\ raf' = (raf \/ ~flag)
  /\ UNCHANGED screen

(* cancelConsoleBufferRender                                               *)
CancelRender == raf' = FALSE /\ flag' = FALSE

(* requestConsoleBufferRender                                              *)
RequestRender ==
  IF ShouldRender(panels'[activeScope'])
  THEN ScheduleRender
  ELSE CancelRender /\ screen' = BlankScreen

RequestIfActive(s) == IF s = activeScope' THEN RequestRender ELSE UNCHANGED screenVars

(* The animation frame: flush of scheduleConsoleBufferRender.              *)
Flush ==
  /\ raf
  /\ raf' = FALSE /\ flag' = FALSE
  /\ screen' = Rendered(panels[activeScope], buffers[activeScope])
  /\ UNCHANGED <<activeScope, panels, buffers, lastLine, cleared, logVars>>

-----------------------------------------------------------------------------
(* Writing.                                                                *)
TrimConsoleBuffer(buffer) ==
  [buffer EXCEPT !.lines = LastOf(@, MaxBuffer),
                 !.dropped = @ + Len(buffer.lines) - Len(LastOf(buffer.lines, MaxBuffer))]

NewLines(s, n) == [i \in 1 .. n |-> lastLine[s] + i]

Exports(buffer, s) == buffer.target = "active"

(* appendConsoleEntries of n lines to the buffer as it is by then.         *)
AppendConsoleEntries(s, n, buffer) ==
  /\ lastLine' = [lastLine EXCEPT ![s] = @ + n]
  /\ buffers' = [buffers EXCEPT ![s] =
       TrimConsoleBuffer([buffer EXCEPT !.lines = @ \o NewLines(s, n)])]
  /\ wire' = IF Exports(buffer, s)
             THEN Append(wire, [kind |-> "append", scope |-> s, lines |-> NewLines(s, n)])
             ELSE wire

(* appendLog and appendProcessOutput                                       *)
AppendLines(s) ==
  \E n \in {1, 2} :
    /\ lastLine[s] + n <= MaxLines
    /\ AppendConsoleEntries(s, n, buffers[s])
    /\ UNCHANGED <<activeScope, panels, cleared, waiting, logFiles, resetsLeft, since>>
    /\ IF s = activeScope /\ ShouldRender(panels[s])
       THEN ScheduleRender ELSE UNCHANGED screenVars

ClearedBuffer(buffer) == [buffer EXCEPT !.lines = <<>>, !.dropped = 0]

(* clearConsole, from its button                                           *)
ClearConsole ==
  /\ UNCHANGED <<activeScope, panels, lastLine, logVars>>
  /\ buffers' = [buffers EXCEPT ![activeScope] = ClearedBuffer(@)]
  /\ cleared' = [cleared EXCEPT ![activeScope] = lastLine[activeScope]]
  /\ RequestRender

-----------------------------------------------------------------------------
(* Executions.                                                             *)

(* resetConsoleForExecution up to its await.  The executions of a console  *)
(* follow one another here; two that overlap are in ExecutionWindow.       *)
ResetConsoleForExecution(s) ==
  /\ \A i \in 1 .. Len(waiting) : waiting[i].live => waiting[i].scope # s
  /\ resetsLeft > 0 /\ resetsLeft' = resetsLeft - 1
  /\ UNCHANGED <<activeScope, panels, lastLine, logFiles, since>>
  /\ buffers' = [buffers EXCEPT ![s] = [ClearedBuffer(@) EXCEPT !.target = "none"]]
  /\ cleared' = [cleared EXCEPT ![s] = lastLine[s]]
  /\ wire' = Append(wire, [kind |-> "reset", scope |-> s, lines |-> <<>>])
  /\ waiting' = Append(waiting, [scope |-> s, live |-> TRUE, came |-> "nothing"])
  /\ RequestIfActive(s)

(* The main process takes a message: resetConsoleLogFile, which may fail   *)
(* before it writes, and appendConsoleLogFile.                             *)
TakeMessage ==
  /\ wire # <<>> /\ wire' = Tail(wire)
  /\ LET s == Head(wire).scope
         first == CHOOSE i \in 1 .. Len(waiting) :
                    /\ waiting[i].came = "nothing"
                    /\ \A j \in 1 .. i - 1 : waiting[j].came # "nothing"
     IN  \/ /\ Head(wire).kind = "append"
            /\ logFiles' = [logFiles EXCEPT ![s] = @ \o Head(wire).lines]
            /\ UNCHANGED waiting
         \/ /\ Head(wire).kind = "reset"
            /\ \/ /\ logFiles' = [logFiles EXCEPT ![s] = <<>>]
                  /\ waiting' = [waiting EXCEPT ![first].came = "opened"]
               \/ /\ UNCHANGED logFiles
                  /\ waiting' = [waiting EXCEPT ![first].came = "failed"]
  /\ UNCHANGED <<activeScope, panels, buffers, lastLine, cleared, resetsLeft, since, screenVars>>

(* The reply to a reset: its buffer is open for export, or a line says why *)
(* not; the caller shows and opens the console and writes its own line.    *)
ResetReplied ==
  /\ waiting # <<>> /\ Head(waiting).came # "nothing"
  /\ waiting' = Tail(waiting)
  /\ LET s == Head(waiting).scope
         opened == Head(waiting).came = "opened" /\ Head(waiting).live
         n == IF Head(waiting).came = "failed" THEN 2 ELSE 1
     IN  /\ activeScope' = s
         /\ panels' = [panels EXCEPT ![s].open = TRUE]
         /\ AppendConsoleEntries(s, n,
              IF opened THEN [buffers[s] EXCEPT !.target = "active"] ELSE buffers[s])
         /\ since' = IF opened /\ buffers[s].target # "active"
                     THEN [since EXCEPT ![s] = lastLine[s]] ELSE since
  /\ UNCHANGED <<cleared, logFiles, resetsLeft>>
  /\ RequestRender

(* finishConsoleForExecution                                               *)
FinishConsole(s) ==
  /\ buffers[s].target = "active"
  /\ buffers' = [buffers EXCEPT ![s].target = "inactive"]
  /\ UNCHANGED <<activeScope, panels, lastLine, cleared, screenVars, logVars>>

-----------------------------------------------------------------------------
(* What is on screen.                                                      *)
ToggledOpen(panel) == [open |-> ~panel.open, expanded |-> panel.expanded /\ ~panel.open]

(* toggleConsoleOpen                                                       *)
ToggleConsoleOpen ==
  /\ UNCHANGED <<activeScope, buffers, lastLine, cleared, logVars>>
  /\ panels' = [panels EXCEPT ![activeScope] = ToggledOpen(@)]
  /\ RequestRender

(* toggleConsoleExpanded                                                   *)
ToggleConsoleExpanded ==
  LET panel == panels[activeScope]
  IN  /\ UNCHANGED <<activeScope, buffers, lastLine, cleared, logVars>>
      /\ panels' = [panels EXCEPT ![activeScope] =
           [open |-> TRUE, expanded |-> panel.open /\ ~panel.expanded]]
      /\ IF ShouldRender(panel) THEN UNCHANGED screenVars ELSE RequestRender

ShowUnrendered(s) ==                              \* a mutant of SetConsoleScope
  /\ activeScope' = s
  /\ UNCHANGED <<panels, buffers, lastLine, cleared, logVars, screenVars>>

(* setConsoleScope, when the page changes                                  *)
SetConsoleScope(s) ==
  /\ activeScope' = s
  /\ UNCHANGED <<panels, buffers, lastLine, cleared, logVars>>
  /\ RequestRender

(* resetAllConsoleState, when the project is left: buffers that a reset is *)
(* awaited for are no longer those of the window.                          *)
ResetAllConsoleState ==
  /\ activeScope' = "debug"
  /\ panels' = [s \in Scopes |-> ClosedPanel]
  /\ buffers' = [s \in Scopes |-> EmptyBuffer]
  /\ cleared' = lastLine
  /\ waiting' = [i \in 1 .. Len(waiting) |-> [waiting[i] EXCEPT !.live = FALSE]]
  /\ UNCHANGED <<wire, logFiles, resetsLeft, lastLine, since>>
  /\ CancelRender /\ screen' = BlankScreen

ConsoleNext ==
  \/ Flush \/ TakeMessage \/ ResetReplied
  \/ \E s \in Scopes :
       AppendLines(s) \/ ResetConsoleForExecution(s) \/ FinishConsole(s) \/ SetConsoleScope(s)
  \/ ClearConsole \/ ToggleConsoleOpen \/ ToggleConsoleExpanded \/ ResetAllConsoleState

ConsoleSpec == ConsoleInit /\ [][ConsoleNext]_consoleVars

-----------------------------------------------------------------------------
(* The variables have their types, and no buffer grows past its limit.     *)
ConsoleTypeOK ==
  /\ activeScope \in Scopes /\ flag \in BOOLEAN /\ raf \in BOOLEAN
  /\ \A s \in Scopes :
       /\ panels[s] \in [open : BOOLEAN, expanded : BOOLEAN]
       /\ panels[s].expanded => panels[s].open
       /\ Len(buffers[s].lines) <= MaxBuffer
       /\ buffers[s].target \in {"none", "active", "inactive"}
  /\ Len(screen.lines) <= MaxRender

(* When no animation frame is to come, the screen shows the last lines     *)
(* written to the active console since it was cleared, and what it says it *)
(* omits are all the others, or it is empty because the console is closed. *)
ScreenTellsTruth ==
  LET written == lastLine[activeScope] - cleared[activeScope]
      shown   == Len(screen.lines)
  IN  ~raf =>
        IF panels[activeScope].open
        THEN /\ screen.omitted + shown = written
             /\ \A i \in 1 .. shown : screen.lines[i] = lastLine[activeScope] - shown + i
             /\ screen.omitted > 0 => shown = MaxRender
        ELSE screen = BlankScreen

(* The flag that keeps a second frame from being asked for never outlives  *)
(* the frame: it would freeze the console.                                 *)
FlushIsComing == flag = raf

(* The log file of s with the messages on their way taken.                 *)
Delivered(text, message, s) ==
  IF message.scope # s THEN text
  ELSE IF message.kind = "reset" THEN <<>> ELSE text \o message.lines

Sent(text, messages, s) ==
  LET upTo[i \in 0 .. Len(messages)] ==
        IF i = 0 THEN text ELSE Delivered(upTo[i - 1], messages[i], s)
  IN  upTo[Len(messages)]

(* Once the messages on their way are taken, the log file of a running     *)
(* execution holds every line written since it was opened, in order.       *)
LogFileIsComplete ==
  \A s \in Scopes :
    buffers[s].target = "active" =>
      Sent(logFiles[s], wire, s) = [i \in 1 .. lastLine[s] - since[s] |-> since[s] + i]

(* The consoles show and save all that was written to them.                *)
ConsoleTellsTruth ==
  ConsoleTypeOK /\ ScreenTellsTruth /\ FlushIsComing /\ LogFileIsComplete
=============================================================================
