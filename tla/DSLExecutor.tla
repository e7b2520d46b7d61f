----------------------------- MODULE DSLExecutor -----------------------------
(***************************************************************************)
(* The DSL executor of pytest_dsl/core: dsl_executor.py, the dispatcher,   *)
(* the loop handlers, the keyword invoker, custom keywords and the runner  *)
(* that surrounds one run with its tracker.                                *)
(*                                                                         *)
(* The executor is a recursive interpreter of a syntax tree.  The model is *)
(* its explicit activation stack: "frames" holds one record per call of    *)
(* dispatcher.execute, and "raised" the exception travelling through it.   *)
(* The tree itself is not fixed: wherever a handler takes its next         *)
(* statement, any statement the grammar allows there may come, so that a   *)
(* run of the model is a run of some test file.                            *)
(***************************************************************************)
EXTENDS ExecutionTracker, StepDebugger, FiniteSets

CONSTANTS
  Keywords,       \* names of registered custom keywords
  MaxLine,        \* bound: source lines are 1..MaxLine
  MaxFrames,      \* bound: nested activations
  MaxSteps,       \* bound: tracked steps per run
  MaxRepeat,      \* bound: loop iterations, retry attempts, teardown statements
  MaxRuns,        \* bound: consecutive runs with one executor and one tracker
  KeepVariables   \* PYTEST_DSL_KEEP_VARIABLES=1

ASSUME ExecutorAssumption ==
  /\ MaxLine \in Nat \ {0}
  /\ MaxFrames \in Nat /\ MaxFrames >= 3 /\ MaxSteps \in Nat /\ MaxRepeat \in Nat /\ MaxRuns \in Nat
  /\ KeepVariables \in BOOLEAN
  /\ Keywords \cap {"builtin", "none"} = {}

VARIABLES
  frames,      \* activations of dispatcher.execute, innermost last
  nodeStack,   \* _node_stack: lines of the active nodes that have one
  raised,      \* the exception being propagated, "none" while there is none
  pending,     \* the node whose start_step is blocked in the debugger
  callStack,   \* keywords whose closure's _call_stack is not empty
  locals,      \* runs whose context or local variables are still there
  run,         \* number of runs begun
  executed,    \* history: the last run that ended with its test executed
  stage,       \* how far _handle_start is
  bodyOutcome, \* what left the try block of _handle_start
  teardown,    \* the teardown block: statements it has, statements tried
  verdict      \* how the last run ended, "none" while it lasts

executorVars == <<frames, nodeStack, raised, pending, callStack, locals,
                  run, executed, stage, bodyOutcome, teardown, verdict>>
vars == <<executorVars, trackerVars, debuggerVars>>

-----------------------------------------------------------------------------
(* Nodes.  "kw" is the keyword a call names: a custom one, or "builtin"    *)
(* for any keyword (built-in or remote) that runs no DSL statements.       *)
Lines == 1..MaxLine
BlockKinds == {"ForRangeLoop", "IfStatement", "Retry"}
SimpleKinds == {"Assignment", "Return", "Break", "Continue"}
ControlFlow == {"break", "continue", "return"}

StatementNodes ==
  [kind : BlockKinds \cup SimpleKinds, line : Lines, kw : {"none"}]
    \cup [kind : KeywordCallKinds, line : Lines, kw : Keywords \cup {"builtin"}]

NoNode         == [kind |-> "None", line |-> 0, kw |-> "none"]
StartNode      == [kind |-> "Start", line |-> 1, kw |-> "none"]
StatementsNode == [kind |-> "Statements", line |-> 0, kw |-> "none"]
TeardownNode   == [kind |-> "Teardown", line |-> 0, kw |-> "none"]

(* An activation: its node, whether its handler is past the evaluation of  *)
(* its operands, and how many times it may still run its body.             *)
Activation(node) == [node |-> node, entered |-> FALSE, left |-> 0]

runVars == <<run, executed, stage, bodyOutcome, teardown, verdict>>

Top == frames[Len(frames)]
Running == frames # <<>> /\ raised = "none" /\ pending = NoNode
TopIs(kinds) == Top.node.kind \in kinds
TopLeft == [frames EXCEPT ![Len(frames)].left = @ - 1]

-----------------------------------------------------------------------------
Init ==
  /\ frames = <<>> /\ nodeStack = <<>>
  /\ raised = "none" /\ pending = NoNode
  /\ callStack = {} /\ locals = {}
  /\ run = 0 /\ executed = 0 /\ stage = "idle" /\ bodyOutcome = "none"
  /\ teardown = [has |-> FALSE, planned |-> 0, tried |-> 0]
  /\ verdict = "none"
  /\ TrackerInit /\ DebuggerInit

(* Entering the handler of a node: the part of dispatcher.execute between  *)
(* start_step and the handler call.                                        *)
PushFrame(node, stack) ==
  /\ frames' = Append(stack, Activation(node))
  /\ nodeStack' = IF node.line # 0 THEN Append(nodeStack, node.line) ELSE nodeStack

(* dispatcher.execute for a child of the innermost handler.  "stack" is    *)
(* the frames after that handler took the child.  A node with a line gets  *)
(* a tracked step, and the debugger may block inside start_step.           *)
Dispatch(node, stack) ==
  /\ Len(frames) < MaxFrames
  /\ IF node.line = 0
     THEN /\ PushFrame(node, stack)
          /\ UNCHANGED <<pending, trackerVars, debuggerVars>>
     ELSE /\ StartStep(node.kind, node.line)
          /\ OnStepStart(NewStep(node.kind, node.line))
          /\ IF Pauses(NewStep(node.kind, node.line))
             THEN /\ pending' = node
                  /\ frames' = stack
                  /\ UNCHANGED nodeStack
             ELSE /\ PushFrame(node, stack)
                  /\ UNCHANGED pending

(* The user answers the blocked debugger.  On stop the exception leaves    *)
(* start_step before the node's handler, so before the dispatcher's try.   *)
DebugCommand(command) ==
  /\ pending # NoNode
  /\ pending' = NoNode
  /\ autoContinue' = (autoContinue \/ command = "continue")
  /\ IF command = "stop"
     THEN raised' = "interrupt" /\ UNCHANGED <<frames, nodeStack>>
     ELSE PushFrame(pending, frames) /\ UNCHANGED raised
  /\ UNCHANGED <<callStack, locals, runVars, trackerVars, callDepth, tracked>>

(* The end of dispatcher.execute for the innermost node, with "none" or    *)
(* the exception that passes: the finally restores the node stack.         *)
PopNodeOnSuccess(node, exception) ==   \* faulty: the pop is not in a finally
  nodeStack' = IF node.line # 0 /\ exception = "none"
               THEN SubSeq(nodeStack, 1, Len(nodeStack) - 1) ELSE nodeStack

PopNode(node, exception) ==
  nodeStack' = IF node.line # 0
               THEN SubSeq(nodeStack, 1, Len(nodeStack) - 1) ELSE nodeStack

(* finish_current_step, in the else or the except: not for a BaseException.*)
FinishStep(node, exception) ==
  IF node.line = 0 \/ exception = "interrupt" \/ stepStack = <<>>
  THEN UNCHANGED <<trackerVars, debuggerVars>>
  ELSE FinishCurrentStep(exception = "error") /\ OnStepFinish(currentStep)

(* The closure of a custom keyword restores its _call_stack in a finally.  *)
RestoreCallStackOnSuccess(node, exception) ==   \* faulty: only after the body
  callStack' = IF Top.entered /\ exception = "none"
               THEN callStack \ {node.kw} ELSE callStack

RestoreCallStack(node, exception) ==
  callStack' = IF Top.entered THEN callStack \ {node.kw} ELSE callStack

Leave(exception) ==
  /\ frames' = SubSeq(frames, 1, Len(frames) - 1)
  /\ raised' = exception
  /\ PopNode(Top.node, exception)
  /\ RestoreCallStack(Top.node, exception)
  /\ FinishStep(Top.node, exception)
  /\ UNCHANGED pending

Complete == Leave("none")

-----------------------------------------------------------------------------
(* A run: runner.execute_from_content starts the tracker first.  Nothing   *)
(* catches an interrupt but the program, which ends: no run follows one.   *)
BeginRun ==
  /\ stage \in {"idle", "done"} /\ verdict # "interrupted" /\ run < MaxRuns
  /\ run' = run + 1
  /\ stage' = "begun" /\ verdict' = "none" /\ bodyOutcome' = "none"
  /\ teardown' \in {[has |-> FALSE, planned |-> 0, tried |-> 0]}
                     \cup [has : {TRUE}, planned : 0..MaxRepeat, tried : {0}]
  /\ StartExecution
  /\ UNCHANGED <<frames, nodeStack, raised, pending, callStack, locals, executed,
                 stepStack, currentStep, total, completed, failed, debuggerVars>>

(* No content, or a hook that raises before the try: finish_execution is   *)
(* not reached, and a context already applied stays (see ParseFails).      *)
NotStarted ==
  /\ stage = "begun"
  /\ stage' = "done" /\ verdict' = "failed"
  /\ locals' \in {locals, locals \cup {run}}
  /\ UNCHANGED <<frames, nodeStack, raised, pending, callStack, run, executed,
                 bodyOutcome, teardown, trackerVars, debuggerVars>>

(* The caller's context has become local variables when parsing fails, and *)
(* nothing clears them before a test is executed: the next run sees them.  *)
ParseFails ==
  /\ stage = "begun"
  /\ stage' = "done" /\ verdict' = "failed"
  /\ locals' \in {locals, locals \cup {run}}
  /\ FinishExecution
  /\ UNCHANGED <<frames, nodeStack, raised, pending, callStack, run, executed,
                 bodyOutcome, teardown, stepStack, currentStep, total, completed, failed,
                 debuggerVars>>

ExecuteTree ==
  /\ stage = "begun"
  /\ stage' = "import"
  /\ locals' \in {locals, locals \cup {run}}
  /\ Dispatch(StartNode, frames)
  /\ UNCHANGED <<raised, callStack, run, executed, bodyOutcome, teardown, verdict>>

OutcomeOf(exception) ==
  CASE exception = "none"      -> "passed"
    [] exception = "interrupt" -> "interrupted"
    [] OTHER                   -> "failed"

(* The exception, if any, has left the tree: the hooks, then the tracker.  *)
EndRun ==
  /\ stage = "exited"
  /\ stage' = "done"
  /\ verdict' = OutcomeOf(raised)
  /\ raised' = "none"
  /\ executed' = run
  /\ FinishExecution
  /\ UNCHANGED <<frames, nodeStack, pending, callStack, locals, run, bodyOutcome,
                 teardown, stepStack, currentStep, total, completed, failed,
                 debuggerVars>>

-----------------------------------------------------------------------------
(* _handle_start.  An @import that fails ends the metadata loop before the *)
(* Teardown child was seen: there is no teardown node to run.              *)
AtStart(s) == frames # <<>> /\ pending = NoNode /\ TopIs({"Start"}) /\ stage = s

ImportFails ==
  /\ AtStart("import")
  /\ stage' = "clear"
  /\ bodyOutcome' = "import"
  /\ UNCHANGED <<frames, nodeStack, raised, pending, callStack, locals, run, executed,
                 teardown, verdict, trackerVars, debuggerVars>>

ExecuteBody ==
  /\ AtStart("import")
  /\ stage' = "body"
  /\ Dispatch(StatementsNode, frames)
  /\ UNCHANGED <<raised, callStack, locals, run, executed, bodyOutcome, teardown, verdict>>

(* The finally: whatever left the body, the teardown block runs.           *)
EnterFinallyWhen(condition) ==
  /\ AtStart("body")
  /\ bodyOutcome' = raised
  /\ raised' = "none"
  /\ IF teardown.has /\ condition
     THEN stage' = "teardown" /\ Dispatch(TeardownNode, frames)
     ELSE stage' = "clear" /\ UNCHANGED <<frames, nodeStack, pending,
                                          trackerVars, debuggerVars>>
  /\ UNCHANGED <<callStack, locals, run, executed, teardown, verdict>>

EnterFinallyOnSuccess == EnterFinallyWhen(raised = "none")               \* faulty: no finally

EnterFinally == EnterFinallyWhen(TRUE)
(* A failed import is an error like any other once it leaves the node.     *)
Surfaced(outcome) == IF outcome = "import" THEN "error" ELSE outcome

(* After the teardown the execution state is cleared, and the exception of *)
(* the body goes on.                                                       *)
ClearThenLeave(remaining, exception) ==
  /\ AtStart("clear") \/ (AtStart("teardown") /\ raised = "none")
  /\ stage' = "exited"
  /\ locals' = IF KeepVariables THEN locals ELSE remaining
  /\ Leave(exception)
  /\ UNCHANGED <<run, executed, bodyOutcome, teardown, verdict>>

LeaveUncleared == ClearThenLeave(locals, Surfaced(bodyOutcome))  \* faulty: no clearing
ClearAndReturn == ClearThenLeave({}, "none")                     \* faulty: a return in the finally

ClearAndLeave == ClearThenLeave({}, Surfaced(bodyOutcome))

(* An interrupt inside the teardown is no Exception: the clearing after it *)
(* is skipped.                                                             *)
InterruptedInTeardown ==
  /\ AtStart("teardown") /\ raised = "interrupt"
  /\ stage' = "exited"
  /\ Leave("interrupt")
  /\ UNCHANGED <<locals, run, executed, bodyOutcome, teardown, verdict>>

(* _handle_teardown tries its next statement; an Exception of the          *)
(* statement before is only collected.                                     *)
AtTeardown == frames # <<>> /\ pending = NoNode /\ TopIs({"Teardown"})

TeardownStatement(node) ==
  /\ AtTeardown /\ raised # "interrupt"
  /\ teardown.tried < teardown.planned
  /\ teardown' = [teardown EXCEPT !.tried = @ + 1]
  /\ raised' = "none"
  /\ Dispatch(node, frames)
  /\ UNCHANGED <<callStack, locals, run, executed, stage, bodyOutcome, verdict>>

TeardownDone ==
  /\ AtTeardown /\ raised # "interrupt"
  /\ teardown.tried = teardown.planned
  /\ Complete
  /\ UNCHANGED <<locals, runVars>>

-----------------------------------------------------------------------------
(* Statement lists and keyword bodies execute statements one after another.*)
InKeywordBody == TopIs(KeywordCallKinds) /\ Top.entered

ExecuteStatement(node) ==
  /\ Running
  /\ TopIs({"Statements"}) \/ InKeywordBody
  /\ total < run * MaxSteps
  /\ Dispatch(node, frames)
  /\ UNCHANGED <<raised, callStack, locals, runVars>>

StatementsDone ==
  /\ Running /\ TopIs({"Statements"})
  /\ Complete
  /\ UNCHANGED <<locals, runVars>>

(* Handlers that execute no statements: assignments and the keywords       *)
(* implemented in Python.  A keyword may be interrupted (Ctrl-C).          *)
AtLeaf == Running /\ (TopIs({"Assignment"}) \/ Top.node.kw = "builtin")

LeafCompletes ==
  /\ AtLeaf
  /\ locals' = IF TopIs({"Assignment", "AssignmentKeywordCall"})
               THEN locals \cup {run} ELSE locals
  /\ Complete
  /\ UNCHANGED runVars

LeafRaises(exception) ==
  /\ AtLeaf
  /\ exception = "interrupt" => Top.node.kw = "builtin"
  /\ Leave(exception)
  /\ UNCHANGED <<locals, runVars>>

(* _handle_return, _handle_break, _handle_continue.                        *)
Jump ==
  /\ Running
  /\ \/ TopIs({"Return"})   /\ Leave("return")
     \/ TopIs({"Break"})    /\ Leave("break")
     \/ TopIs({"Continue"}) /\ Leave("continue")
  /\ UNCHANGED <<locals, runVars>>

(* Evaluating the operands of a node may fail.                             *)
EvaluationFails ==
  /\ Running /\ ~Top.entered
  /\ TopIs(BlockKinds \cup KeywordCallKinds \cup {"Return"})
  /\ Leave("error")
  /\ UNCHANGED <<locals, runVars>>

-----------------------------------------------------------------------------
(* The closure of a custom keyword: the recursion check on its own         *)
(* _call_stack, then the parameters, then the body.                        *)
AtCustomCall == Running /\ TopIs(KeywordCallKinds) /\ Top.node.kw \in Keywords

EnterKeyword ==
  /\ AtCustomCall /\ ~Top.entered
  /\ IF Top.node.kw \in callStack
     THEN Leave("error") /\ UNCHANGED locals
     ELSE /\ frames' = [frames EXCEPT ![Len(frames)].entered = TRUE]
          /\ callStack' = callStack \cup {Top.node.kw}
          /\ locals' \in {locals, locals \cup {run}}
          /\ UNCHANGED <<nodeStack, raised, pending, trackerVars, debuggerVars>>
  /\ UNCHANGED runVars

(* The body ends, or a return in it is caught by the closure.              *)
KeywordReturns ==
  /\ frames # <<>> /\ pending = NoNode /\ InKeywordBody
  /\ raised \in {"none", "return"}
  /\ locals' = IF TopIs({"AssignmentKeywordCall"}) THEN locals \cup {run} ELSE locals
  /\ Complete
  /\ UNCHANGED runVars

-----------------------------------------------------------------------------
(* Loops.  break and continue of the body end here.                        *)
AtLoop == frames # <<>> /\ pending = NoNode /\ TopIs({"ForRangeLoop"})

EnterLoop(n) ==
  /\ AtLoop /\ raised = "none" /\ ~Top.entered
  /\ n = 0 \/ Len(frames) < MaxFrames
  /\ frames' = [frames EXCEPT ![Len(frames)].entered = TRUE,
                              ![Len(frames)].left = n]
  /\ UNCHANGED <<nodeStack, raised, pending, callStack, locals, runVars,
                 trackerVars, debuggerVars>>

NextIteration ==
  /\ AtLoop /\ Top.entered /\ Top.left > 0
  /\ raised \in {"none", "continue"}
  /\ raised' = "none"
  /\ locals' = locals \cup {run}
  /\ Dispatch(StatementsNode, TopLeft)
  /\ UNCHANGED <<callStack, runVars>>

LoopDone ==
  /\ AtLoop /\ Top.entered
  /\ \/ raised \in {"none", "continue"} /\ Top.left = 0
     \/ raised = "break"
  /\ Complete
  /\ UNCHANGED <<locals, runVars>>

(* _handle_if_statement: one branch, or none.                              *)
EnterBranch ==
  /\ Running /\ TopIs({"IfStatement"}) /\ ~Top.entered
  /\ Dispatch(StatementsNode, [frames EXCEPT ![Len(frames)].entered = TRUE])
  /\ UNCHANGED <<raised, callStack, locals, runVars>>

BranchDone ==
  /\ Running /\ TopIs({"IfStatement"})
  /\ Complete
  /\ UNCHANGED <<locals, runVars>>

(* _handle_retry: up to "n" attempts; the body's errors and a false until  *)
(* condition call for another attempt, and the last one is raised.         *)
AtRetry == frames # <<>> /\ pending = NoNode /\ TopIs({"Retry"})

BeginAttempts(left) ==
  /\ AtRetry /\ raised = "none" /\ ~Top.entered
  /\ Dispatch(StatementsNode, [frames EXCEPT ![Len(frames)].entered = TRUE,
                                             ![Len(frames)].left = left])
  /\ UNCHANGED <<raised, callStack, locals, runVars>>

FirstAttempt(n) == BeginAttempts(n - 1)

NextAttempt ==
  /\ AtRetry /\ Top.entered /\ raised \in {"none", "error"} /\ Top.left > 0
  /\ raised' = "none"
  /\ Dispatch(StatementsNode, TopLeft)
  /\ UNCHANGED <<callStack, locals, runVars>>

RetrySucceeds ==
  /\ AtRetry /\ Top.entered /\ raised = "none"
  /\ Complete
  /\ UNCHANGED <<locals, runVars>>

RetryExhausted ==
  /\ AtRetry /\ Top.entered /\ raised \in {"none", "error"} /\ Top.left = 0
  /\ Leave("error")
  /\ UNCHANGED <<locals, runVars>>

-----------------------------------------------------------------------------
(* What the handler of the innermost node does not catch passes it.        *)
Caught ==
  CASE TopIs({"ForRangeLoop"})           -> {"break", "continue"}
    [] TopIs({"Retry"})                  -> {"error"}
    [] TopIs(KeywordCallKinds)           -> {"return"}
    [] TopIs({"Teardown"})               -> ControlFlow \cup {"error"}
    [] TopIs({"Start"})                  -> ControlFlow \cup {"error", "interrupt"}
    [] OTHER                             -> {}

Unwind ==
  /\ frames # <<>> /\ raised # "none" /\ pending = NoNode
  /\ raised \notin Caught
  /\ Leave(raised)
  /\ UNCHANGED <<locals, runVars>>

Stopped == stage = "done" /\ (run = MaxRuns \/ verdict = "interrupted") /\ UNCHANGED vars

Next ==
  \/ BeginRun \/ NotStarted \/ ParseFails \/ ExecuteTree \/ EndRun
  \/ ImportFails \/ ExecuteBody \/ EnterFinally
  \/ ClearAndLeave \/ InterruptedInTeardown
  \/ \E node \in StatementNodes : TeardownStatement(node) \/ ExecuteStatement(node)
  \/ TeardownDone \/ StatementsDone
  \/ LeafCompletes \/ \E e \in {"error", "interrupt"} : LeafRaises(e)
  \/ Jump \/ EvaluationFails
  \/ EnterKeyword \/ KeywordReturns
  \/ \E n \in 0..MaxRepeat : EnterLoop(n)
  \/ NextIteration \/ LoopDone
  \/ EnterBranch \/ BranchDone
  \/ \E n \in 1..MaxRepeat : FirstAttempt(n)
  \/ NextAttempt \/ RetrySucceeds \/ RetryExhausted
  \/ Unwind
  \/ \E command \in Commands : DebugCommand(command)
  \/ Stopped

Spec == Init /\ [][Next]_vars

-----------------------------------------------------------------------------
(* Properties.                                                             *)
Exceptions == ControlFlow \cup {"none", "error", "interrupt"}
Nodes == StatementNodes \cup {StartNode, StatementsNode, TeardownNode}

(* Types of the executor's state.                                          *)
TypeOK ==
  /\ frames \in Seq([node : Nodes, entered : BOOLEAN, left : Nat])
  /\ nodeStack \in Seq(Lines)
  /\ raised \in Exceptions
  /\ pending \in StatementNodes \cup {NoNode}
  /\ callStack \subseteq Keywords
  /\ locals \subseteq 1..run
  /\ run \in 0..MaxRuns /\ executed \in 0..run
  /\ stage \in {"idle", "begun", "import", "body", "teardown", "clear", "exited", "done"}
  /\ bodyOutcome \in Exceptions \cup {"import"}
  /\ teardown \in [has : BOOLEAN, planned : 0..MaxRepeat, tried : 0..MaxRepeat]
  /\ verdict \in {"none", "passed", "failed", "interrupted"}
  /\ total \in Nat /\ completed \in Nat /\ failed \in Nat
  /\ callDepth \in Nat /\ autoContinue \in BOOLEAN

(* A BaseException has crossed the tree of the current run.                *)
Interrupted == "interrupt" \in {raised, bodyOutcome} \/ verdict = "interrupted"

HasLine(frame) == frame.node.line # 0
OpenUpTo(i) == Cardinality({j \in 1..i : HasLine(frames[j])})

(* The node stack that error messages take their line from is the path of  *)
(* nodes being executed, whichever exception left the nodes before.        *)
NodeStackIsPath ==
  /\ Len(nodeStack) = OpenUpTo(Len(frames))
  /\ \A i \in 1..Len(frames) :
       HasLine(frames[i]) => nodeStack[OpenUpTo(i)] = frames[i].node.line

StepOf(step, node) == step.kind = node.kind /\ step.line = node.line

(* Every dispatch finishes the step it started, not another one: without   *)
(* an interrupt the open steps are the open nodes, innermost last, and the *)
(* node that the debugger holds back.                                      *)
StepsMirrorPath ==
  ~Interrupted =>
    /\ Len(stepStack) = OpenUpTo(Len(frames)) + (IF pending = NoNode THEN 0 ELSE 1)
    /\ \A i \in 1..Len(frames) :
         HasLine(frames[i]) => StepOf(stepStack[OpenUpTo(i)], frames[i].node)
    /\ pending # NoNode => StepOf(stepStack[Len(stepStack)], pending)

(* A tracker is shared by the runs of one file: its reported step and its  *)
(* counters agree with its stack through all of them.                      *)
TrackerAgrees ==
  /\ currentStep = InnermostStep(stepStack)
  /\ total = completed + failed + Len(stepStack)
  /\ \A i, j \in 1..Len(stepStack) : i < j => stepStack[i].id < stepStack[j].id

(* The recursion guard of a custom keyword is set exactly while its body   *)
(* runs: after any exception the keyword can be called again.              *)
RecursionGuard ==
  LET bodies == {i \in 1..Len(frames) :
                   frames[i].entered /\ frames[i].node.kind \in KeywordCallKinds} IN
  /\ callStack = {frames[i].node.kw : i \in bodies}
  /\ \A i, j \in bodies : frames[i].node.kw = frames[j].node.kw => i = j

(* Whatever ends the body - an error, an interrupt, a stray break or       *)
(* return - every teardown statement is tried before the test node is left,*)
(* unless the imports failed or the teardown itself is interrupted.        *)
TeardownCompletes ==
  [][stage # "exited" /\ stage' = "exited"
       => \/ teardown.tried = teardown.planned
          \/ bodyOutcome = "import"
          \/ stage = "teardown" /\ raised = "interrupt"]_vars

(* The executor implements the life cycle of a test.                       *)
Lifecycle == INSTANCE TestLifecycle WITH
  MaxTeardown <- MaxRepeat,
  phase   <- CASE stage = "idle"                         -> "idle"
               [] stage \in {"begun", "import", "body"}  -> "test"
               [] stage \in {"teardown", "clear"}        -> "teardown"
               [] OTHER                                  -> "over",
  outcome <- CASE stage \in {"teardown", "clear"} -> OutcomeOf(bodyOutcome)
               [] stage = "exited"                -> OutcomeOf(raised)
               [] OTHER                           -> verdict,
  toTry   <- IF bodyOutcome = "import" THEN 0 ELSE teardown.planned - teardown.tried

ImplementsLifecycle == Lifecycle!Spec

(* An executed test leaves no variable behind: whatever the executor still *)
(* holds was set by the current run, or given to runs that were rejected   *)
(* or did not parse since the last executed test ended, passed or failed.  *)
(* An interrupted test may skip the clearing, and no run follows it.       *)
TestsLeaveNoVariables ==
  ~KeepVariables /\ verdict # "interrupted" => \A r \in locals : r > executed

(* The comment on the finally of _handle_start ("make sure the teardown is *)
(* executed in any case") and the guide: a test that has teardown          *)
(* statements is not left before one was tried, unless the user interrupts *)
(* it.                                                                     *)
TeardownInAnyCase ==
  stage = "exited" /\ teardown.planned > 0 /\ raised # "interrupt"
    => teardown.tried > 0

IsCall(node) == node.kind \in KeywordCallKinds
OpenCalls == {i \in 1..Len(frames) : IsCall(frames[i].node)}

(* The debugger's count of nested keyword calls is the nesting of the      *)
(* program, until an interrupt leaves calls without finishing their steps. *)
DepthIsNesting ==
  ~Interrupted /\ DebuggerAttached =>
    callDepth = Cardinality(OpenCalls) + (IF IsCall(pending) THEN 1 ELSE 0)

(* The debugger steps over keyword calls: it never blocks on a statement   *)
(* of a keyword body.                                                      *)
StepsOverKeywords ==
  pending # NoNode => OpenCalls = {}

(* The debugger counts calls right, and so steps over their bodies.        *)
DebuggerStepsOver == StepsOverKeywords /\ DepthIsNesting

(* The stacks that messages and steps are taken from follow the execution. *)
StacksFollowPath == TypeOK /\ NodeStackIsPath /\ StepsMirrorPath
=============================================================================
