---------------------------- MODULE ExecutionTask ----------------------------
(***************************************************************************)
(* The tasks of electron-gui/src/services/executionService.js: one child   *)
(* process per call of startExecutionTask, found by its task id.  Every    *)
(* function here runs to completion in the main process's event loop, so   *)
(* the reservation of the id is never seen by another handler.  Two calls  *)
(* may carry the same id, one after the other or at once.                  *)
(***************************************************************************)
EXTENDS Naturals, Sequences, FiniteSets, SequencesExt

CONSTANTS
  Calls,      \* the calls of startExecutionTask
  Ids,        \* task ids
  IdOf,       \* the id each call carries
  NoCall,     \* no call
  MaxOutput,  \* bound: bytes the children write together
  MaxStops    \* bound: stop requests per call

ASSUME CallsAssumption ==
  /\ IdOf \in [Calls -> Ids] /\ NoCall \notin Calls
  /\ MaxOutput \in Nat /\ MaxStops \in Nat

VARIABLES
  running,  \* runningTasks: the call that owns an id
  staged,   \* whose content .pytest-dsl-gui/runs/<id> holds
  child,    \* of a call: "none", "refused", "alive", "exited" or "closed"
  task,     \* of a call: its task object, see NewTask
  output,   \* of a call: the bytes its child wrote
  broken,   \* history, of a call: the wide characters a chunk ended within
  events    \* of a call: what the window was sent

taskVars == <<running, staged, child, task, output, broken, events>>

(* "\r" and "\n" are themselves; "@" starts a structured event; "lead" and *)
(* "trail" are the two parts of a character of several bytes, as of most   *)
(* of what the program prints.                                             *)
Bytes == {"a", "@", "\r", "\n", "lead", "trail"}

(* "?" is what a part alone is decoded to: U+FFFD.                         *)
Characters == Bytes \union {"?"}

NewTask ==
  [ stopped |-> FALSE,
    stops |-> 0,           \* stop requests: timers that were set
    killTimer |-> FALSE,   \* the timer in the field is armed
    lostTimers |-> 0,      \* armed timers the field no longer names
    killed |-> FALSE,      \* SIGKILL was sent
    buffer |-> <<>> ]      \* stdoutBuffer

TaskInit ==
  /\ running = [i \in Ids |-> NoCall]
  /\ staged = [i \in Ids |-> NoCall]
  /\ child = [c \in Calls |-> "none"]
  /\ task = [c \in Calls |-> NewTask]
  /\ output = [c \in Calls |-> <<>>]
  /\ broken = [c \in Calls |-> {}]
  /\ events = [c \in Calls |-> <<>>]

-----------------------------------------------------------------------------
(* Standard output is cut into lines as it arrives.                        *)
WithoutReturn(line) ==
  IF line # <<>> /\ Last(line) = "\r" THEN Front(line) ELSE line

LineEnds(text) == {i \in DOMAIN text : text[i] = "\n"}

(* The k-th line end; the text begins after the 0-th.                      *)
LineEnd(text, k) ==
  IF k = 0 THEN 0
  ELSE CHOOSE i \in LineEnds(text) : Cardinality(LineEnds(text) \cap 1..i) = k

Line(text, k) ==
  WithoutReturn(SubSeq(text, LineEnd(text, k - 1) + 1, LineEnd(text, k) - 1))

(* split(/\r?\n/): the lines that are complete, and the rest.              *)
SplitLines(text) ==
  LET n == Cardinality(LineEnds(text)) IN
  [ lines |-> [k \in 1..n |-> Line(text, k)],
    rest |-> SubSeq(text, LineEnd(text, n) + 1, Len(text)) ]

(* handleStdoutLine and parseStructuredEvent.                              *)
HandleStdoutLine(line) ==
  IF line # <<>> /\ Head(line) = "@"
  THEN [type |-> "debug-step", text |-> Tail(line)]
  ELSE [type |-> "stdout", text |-> line]

(* A child writes UTF-8, and may be killed within a character.             *)
WellFormed(text) ==
  \A i \in DOMAIN text : text[i] = "trail" <=> i > 1 /\ text[i - 1] = "lead"

(* chunk.toString() knows nothing of the chunk before or after.            *)
Decode(chunk) ==
  [i \in DOMAIN chunk |->
     IF (i = 1 /\ chunk[i] = "trail") \/ (i = Len(chunk) /\ chunk[i] = "lead")
     THEN "?" ELSE chunk[i]]

(* The output with the characters in which a chunk ended spoilt, both parts*)
(* of each.                                                                *)
Received(text, spoilt) ==
  [i \in DOMAIN text |-> IF i \in spoilt \/ i - 1 \in spoilt THEN "?" ELSE text[i]]

BrokenAtEnd(text) == {i \in DOMAIN text : i = Len(text) /\ text[i] = "lead"}

(* handleStdoutChunk.                                                      *)
ChunkAlone(buffer, text) == SplitLines(text)   \* faulty: not joined to the buffer

Chunk(buffer, text) == SplitLines(buffer \o text)

Handled(lines) == [i \in DOMAIN lines |-> HandleStdoutLine(lines[i])]

EmitLines(c, lines) == events' = [events EXCEPT ![c] = @ \o Handled(lines)]

Written == FoldFunction(LAMBDA text, sum : Len(text) + sum, 0, output)

StdoutChunk(c) ==
  /\ child[c] = "alive"
  /\ \E n \in 1..(MaxOutput - Written) : \E text \in [1..n -> Bytes] :
       LET cut == Chunk(task[c].buffer, Decode(text)) IN
       /\ WellFormed(output[c] \o text)
       /\ output' = [output EXCEPT ![c] = @ \o text]
       /\ broken' = [broken EXCEPT ![c] = @ \union BrokenAtEnd(output[c] \o text)]
       /\ task' = [task EXCEPT ![c].buffer = cut.rest]
       /\ EmitLines(c, cut.lines)
  /\ UNCHANGED <<running, staged, child>>

-----------------------------------------------------------------------------
(* startExecutionTask.  The id is taken: the call is refused before        *)
(* anything is written.                                                    *)
Refuse(c) ==
  /\ child[c] = "none" /\ running[IdOf[c]] # NoCall
  /\ child' = [child EXCEPT ![c] = "refused"]
  /\ UNCHANGED <<running, staged, task, output, broken, events>>

(* createExecutionPlan throws before it writes the file or while it does,  *)
(* or the command cannot be resolved or spawned: only in the last case the *)
(* plan is known and its directory removed.                                *)
FailToStart(c) ==
  /\ child[c] = "none" /\ running[IdOf[c]] = NoCall
  /\ child' = [child EXCEPT ![c] = "refused"]
  /\ staged' \in { staged, [staged EXCEPT ![IdOf[c]] = c],
                   [staged EXCEPT ![IdOf[c]] = NoCall] }
  /\ UNCHANGED <<running, task, output, broken, events>>

Start(c) ==
  /\ child[c] = "none" /\ running[IdOf[c]] = NoCall
  /\ child' = [child EXCEPT ![c] = "alive"]
  /\ running' = [running EXCEPT ![IdOf[c]] = c]
  /\ staged' = [staged EXCEPT ![IdOf[c]] = c]
  /\ events' = [events EXCEPT ![c] = Append(@, [type |-> "started"])]
  /\ UNCHANGED <<task, output, broken>>

-----------------------------------------------------------------------------
(* stopExecutionTask: a second stop sets a timer of its own and forgets    *)
(* the first, which stays armed.                                           *)
Stop(i) ==
  /\ running[i] # NoCall
  /\ LET c == running[i] IN
     /\ task[c].stops < MaxStops
     /\ task' = [task EXCEPT ![c].stopped = TRUE, ![c].stops = @ + 1,
                             ![c].killTimer = TRUE,
                             ![c].lostTimers = @ + (IF task[c].killTimer THEN 1 ELSE 0)]
  /\ UNCHANGED <<running, staged, child, output, broken, events>>

(* A kill timer fires: it kills the child of the call that set it, if the  *)
(* id is still registered, by whichever call.                              *)
KillOwner(c) == {running[IdOf[c]]} \ {NoCall}   \* faulty: the child is looked up too
KillNothing(c) == {}                            \* faulty: looks up an id nobody has

KillTargets(c) == IF running[IdOf[c]] # NoCall THEN {c} ELSE {}

FireTimer(c, fired) ==
  task' = [d \in Calls |->
    [(IF d = c THEN fired ELSE task[d]) EXCEPT !.killed = @ \/ d \in KillTargets(c)]]

KillTimerFires(c) ==
  /\ \/ task[c].killTimer /\ FireTimer(c, [task[c] EXCEPT !.killTimer = FALSE])
     \/ task[c].lostTimers > 0 /\ FireTimer(c, [task[c] EXCEPT !.lostTimers = @ - 1])
  /\ UNCHANGED <<running, staged, child, output, broken, events>>

(* The child ends by itself, or of one of the signals.                     *)
ChildExits(c) ==
  /\ child[c] = "alive"
  /\ child' = [child EXCEPT ![c] = "exited"]
  /\ UNCHANGED <<running, staged, task, output, broken, events>>

(* The "close" handler: the tail of the output, the timer in the field,    *)
(* the entry and the directory; then the completed event.                  *)
StatusOfExit(c) == {"passed", "failed"}                               \* faulty

Status(c) == IF task[c].stopped THEN {"stopped"} ELSE {"passed", "failed"}

FlushStdoutBuffer(c) ==
  IF task[c].buffer = <<>> THEN <<>> ELSE <<HandleStdoutLine(task[c].buffer)>>

Close(c) ==
  /\ child[c] = "exited"
  /\ child' = [child EXCEPT ![c] = "closed"]
  /\ task' = [task EXCEPT ![c].buffer = <<>>, ![c].killTimer = FALSE]
  /\ running' = [i \in Ids |-> IF running[i] = c THEN NoCall ELSE running[i]]
  /\ staged' = [staged EXCEPT ![IdOf[c]] = NoCall]
  /\ \E status \in Status(c) :
       events' = [events EXCEPT ![c] =
         (@ \o FlushStdoutBuffer(c)) \o <<[type |-> "completed", status |-> status]>>]
  /\ UNCHANGED <<output, broken>>

-----------------------------------------------------------------------------
CallStep(c) ==
  \/ Refuse(c) \/ FailToStart(c) \/ Start(c) \/ StdoutChunk(c)
  \/ KillTimerFires(c) \/ ChildExits(c) \/ Close(c)

TaskNext == (\E c \in Calls : CallStep(c)) \/ (\E i \in Ids : Stop(i))

TaskSpec == TaskInit /\ [][TaskNext]_taskVars

(* Timers fire, a killed child exits and the close event of a child that   *)
(* exited is delivered; nothing makes a child exit that is not killed.     *)
TaskFairness ==
  \A c \in Calls :
    /\ WF_taskVars(KillTimerFires(c)) /\ WF_taskVars(Close(c))
    /\ WF_taskVars(task[c].killed /\ ChildExits(c))

TaskFairSpec == TaskSpec /\ TaskFairness

-----------------------------------------------------------------------------
(* Status of the completed event, the last a call sends.                   *)
OutcomeOf(c) ==
  IF child[c] = "closed" THEN Last(events[c]).status ELSE "none"

(* Types of the variables that decide; what is written and sent has its    *)
(* shape in LinesReassembled.                                              *)
TaskTypeOK ==
  /\ running \in [Ids -> Calls \union {NoCall}]
  /\ staged \in [Ids -> Calls \union {NoCall}]
  /\ child \in [Calls -> {"none", "refused", "alive", "exited", "closed"}]
  /\ \A c \in Calls :
       /\ task[c].stopped \in BOOLEAN /\ task[c].stops \in 0..MaxStops
       /\ task[c].killTimer \in BOOLEAN /\ task[c].killed \in BOOLEAN
       /\ task[c].lostTimers \in Nat

(* The file a live child was started on is its own until it is closed: no  *)
(* call with the same id, refused, failed or closing late, removes it or   *)
(* puts another content in its place.                                      *)
StagedFileIsOwn ==
  \A c \in Calls : child[c] \in {"alive", "exited"} =>
    running[IdOf[c]] = c /\ staged[IdOf[c]] = c

(* A child is only killed after the user stopped its own task, although    *)
(* the timers look the task up by an id another call may own by then.      *)
KillsOnlyStopped ==
  \A c \in Calls : task[c].killed => task[c].stopped

(* The lines sent to the window, between its first event and its last, are *)
(* the lines of the output however the pipe cut it into chunks, a \r\n cut *)
(* in two included; what follows the last line end waits in the buffer,    *)
(* and after the close nothing is missing.  What a cut does spoil is the   *)
(* wide character a chunk ends within, and nothing else: no line end, no   *)
(* mark of an event and no character that no chunk ended in.               *)
LinesReassembled ==
  \A c \in Calls :
    LET whole == SplitLines(Received(output[c], broken[c]))
        tail == IF whole.rest = <<>> THEN <<>> ELSE <<whole.rest>>
        lines == Handled(whole.lines)
    IN /\ broken[c] \subseteq {i \in DOMAIN output[c] : output[c][i] = "lead"}
       /\ child[c] \in {"none", "refused"} => events[c] = <<>>
       /\ child[c] \in {"alive", "exited"} => events[c] = <<[type |-> "started"]>> \o lines
       /\ child[c] = "closed" =>
            \E status \in Status(c) :
              events[c] = (<<[type |-> "started"]>> \o lines) \o
                (Handled(tail) \o <<[type |-> "completed", status |-> status]>>)
       /\ task[c].buffer = IF child[c] = "closed" THEN <<>> ELSE whole.rest

(* Each call keeps the promise of a task (module TaskPromise): it          *)
(* completes once, as stopped exactly when it was stopped before.          *)
PhaseOf(c) ==
  CASE child[c] \in {"none", "refused"} -> "new"
    [] child[c] \in {"alive", "exited"} -> "running"
    [] child[c] = "closed" -> "forgotten"

Promise(c) == INSTANCE TaskPromise WITH
  phase <- PhaseOf(c), cancelled <- task[c].stopped, outcome <- OutcomeOf(c)

KeepsPromise ==
  /\ \A c \in Calls : Promise(c)!Init
  /\ [][\A c \in Calls : Promise(c)!Next \/ UNCHANGED Promise(c)!promise]_taskVars

(* A task that was stopped ends, even when its child ignores SIGTERM and   *)
(* however often it is stopped: one of the timers still finds it.          *)
StopEnds == []<>(\A c \in Calls : task[c].stopped => child[c] = "closed")

(* Calls that share an id never touch one another's run: a child keeps the *)
(* file it was started on, and only a stopped task's child is killed.      *)
TaskKeepsToItself == TaskTypeOK /\ StagedFileIsOwn /\ KillsOnlyStopped
=============================================================================
