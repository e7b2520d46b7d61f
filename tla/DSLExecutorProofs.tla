------------------------- MODULE DSLExecutorProofs -------------------------
(***************************************************************************)
(* Proofs about DSLExecutor, for every set of keywords and every bound.    *)
(*                                                                         *)
(*   - the tracker agrees with its stack (TrackerStep);                    *)
(*   - every action does one of five things to the stacks, a "move"        *)
(*     (StepMoves), and what is true of the stacks is proved once for each *)
(*     move: types, the recursion guard, the node stack, the open steps,   *)
(*     the debugger's count of calls;                                      *)
(*   - the state of one test: its stage, its outcome, its teardown, the    *)
(*     variables it sees;                                                  *)
(*   - the inductive invariant ExecutorInv, and the theorems from it.      *)
(***************************************************************************)
EXTENDS DSLExecutor, SequenceTheorems, FiniteSetTheorems, TLAPS

StepKinds == {node.kind : node \in Nodes}
Steps == [id : Nat, kind : StepKinds, line : Nat]

(* The inductive form of TrackerAgrees: the ids of open steps grow along   *)
(* the stack and were all given out already.                               *)
TrackerInv ==
  /\ stepStack \in Seq(Steps)
  /\ total \in Nat /\ completed \in Nat /\ failed \in Nat
  /\ \A i \in 1..Len(stepStack) : stepStack[i].id <= total
  /\ TrackerAgrees

LEMMA AppendFacts ==
  ASSUME NEW T, NEW s \in Seq(T), NEW e \in T
  PROVE  /\ Append(s, e) \in Seq(T)
         /\ Len(Append(s, e)) = Len(s) + 1 /\ Len(s) \in Nat
         /\ \A i \in 1..Len(s) : Append(s, e)[i] = s[i]
         /\ Append(s, e)[Len(s) + 1] = e
         /\ Append(s, e) # <<>>
  OBVIOUS

LEMMA FrontFacts ==
  ASSUME NEW T, NEW s \in Seq(T), s # <<>>
  PROVE  /\ SubSeq(s, 1, Len(s) - 1) \in Seq(T)
         /\ Len(SubSeq(s, 1, Len(s) - 1)) = Len(s) - 1
         /\ \A i \in 1..(Len(s) - 1) : SubSeq(s, 1, Len(s) - 1)[i] = s[i]
         /\ Len(s) \in Nat \ {0}
<1>1. Len(s) \in Nat \ {0}
  BY EmptySeq
<1>2. Len(s) - 1 \in Nat /\ Len(s) - 1 <= Len(s)
  BY <1>1
<1>3. PICK n \in Nat : n = Len(s) - 1 /\ n <= Len(s)
  BY <1>2, Zenon
<1>4. Len(SubSeq(s, 1, n)) = n
  BY <1>3
<1>5. /\ SubSeq(s, 1, n) \in Seq(T)
      /\ \A i \in 1..n : SubSeq(s, 1, n)[i] = s[i]
  BY <1>3
<1> QED BY <1>1, <1>3, <1>4, <1>5

LEMMA NewStepType ==
  ASSUME TrackerInv, NEW node \in Nodes
  PROVE  NewStep(node.kind, node.line) \in Steps
  BY ExecutorAssumption DEF NewStep, Steps, StepKinds, TrackerInv, Nodes, StatementNodes,
                            StartNode, StatementsNode, TeardownNode, Lines

(* start_step keeps the tracker consistent. *)
LEMMA StartStepKeeps ==
  ASSUME TrackerInv, NEW node \in Nodes, StartStep(node.kind, node.line)
  PROVE  TrackerInv'
<1> DEFINE step == NewStep(node.kind, node.line)
<1>1. step \in Steps /\ step.id = total + 1
  BY NewStepType DEF NewStep
<1>2. /\ stepStack' = Append(stepStack, step) /\ currentStep' = step
      /\ total' = total + 1 /\ completed' = completed /\ failed' = failed
  BY DEF StartStep
<1> HIDE DEF step
<1>3. /\ stepStack' \in Seq(Steps)
      /\ Len(stepStack') = Len(stepStack) + 1 /\ Len(stepStack) \in Nat
      /\ \A i \in 1..Len(stepStack) : stepStack'[i] = stepStack[i]
      /\ stepStack'[Len(stepStack) + 1] = step
      /\ stepStack' # <<>>
  BY <1>1, <1>2, AppendFacts DEF TrackerInv
<1>4. \A i \in 1..Len(stepStack) : stepStack[i].id \in Nat /\ stepStack[i].id <= total
  <2>1. \A i \in 1..Len(stepStack) : stepStack[i] \in Steps
    BY ElementOfSeq DEF TrackerInv
  <2> QED BY <2>1 DEF TrackerInv, Steps
<1>5. \A i \in 1..Len(stepStack') : stepStack'[i].id <= total'
  <2>1. ASSUME NEW i \in 1..Len(stepStack') PROVE stepStack'[i].id <= total'
    <3>1. CASE i \in 1..Len(stepStack)
      BY <1>2, <1>3, <1>4, <3>1 DEF TrackerInv
    <3>2. CASE i = Len(stepStack) + 1
      BY <1>1, <1>2, <1>3, <3>2 DEF TrackerInv
    <3> QED BY <1>3, <3>1, <3>2
  <2> QED BY <2>1
<1>6. \A i, j \in 1..Len(stepStack') : i < j => stepStack'[i].id < stepStack'[j].id
  <2>1. ASSUME NEW i \in 1..Len(stepStack'), NEW j \in 1..Len(stepStack'), i < j
        PROVE stepStack'[i].id < stepStack'[j].id
    <3>1. i \in 1..Len(stepStack) /\ stepStack'[i] = stepStack[i]
      BY <1>3, <2>1
    <3>2. stepStack[i].id \in Nat /\ stepStack[i].id <= total /\ total \in Nat
      BY <3>1, <1>4 DEF TrackerInv
    <3>3. CASE j \in 1..Len(stepStack)
      BY <1>3, <2>1, <3>1, <3>3 DEF TrackerInv, TrackerAgrees
    <3>4. CASE j = Len(stepStack) + 1
      BY <1>1, <1>3, <3>1, <3>2, <3>4
    <3> QED BY <1>3, <3>3, <3>4
  <2> QED BY <2>1
<1>7. currentStep' = InnermostStep(stepStack)'
  BY <1>2, <1>3 DEF InnermostStep
<1>8. total' = completed' + failed' + Len(stepStack')
  BY <1>2, <1>3 DEF TrackerInv, TrackerAgrees
<1>9. TrackerAgrees'
  BY <1>6, <1>7, <1>8 DEF TrackerAgrees
<1>10. total' \in Nat /\ completed' \in Nat /\ failed' \in Nat
  BY <1>2 DEF TrackerInv
<1> QED BY <1>3, <1>5, <1>9, <1>10 DEF TrackerInv

(* finish_current_step keeps the tracker consistent. *)
LEMMA FinishCurrentStepKeeps ==
  ASSUME TrackerInv, NEW error \in BOOLEAN, FinishCurrentStep(error)
  PROVE  TrackerInv'
<1>1. CASE stepStack = <<>>
  BY <1>1 DEF FinishCurrentStep, PopStep, trackerVars, TrackerInv, TrackerAgrees,
              InnermostStep
<1>2. CASE stepStack # <<>>
  <2>1. /\ stepStack' = SubSeq(stepStack, 1, Len(stepStack) - 1)
        /\ currentStep' = InnermostStep(SubSeq(stepStack, 1, Len(stepStack) - 1))
        /\ total' = total
    BY <1>2 DEF FinishCurrentStep, PopStep
  <2>2. /\ failed' \in Nat /\ completed' \in Nat
        /\ \/ failed' = failed + 1 /\ completed' = completed
           \/ failed' = failed /\ completed' = completed + 1
    BY <1>2 DEF FinishCurrentStep, PopStep, TrackerInv
  <2>3. /\ stepStack' \in Seq(Steps)
        /\ Len(stepStack') = Len(stepStack) - 1
        /\ Len(stepStack) \in Nat \ {0}
        /\ \A i \in 1..Len(stepStack') : i \in 1..Len(stepStack) /\ stepStack'[i] = stepStack[i]
    BY <1>2, <2>1, FrontFacts DEF TrackerInv
  <2>4. \A i \in 1..Len(stepStack') : stepStack'[i].id <= total'
    BY <2>1, <2>3 DEF TrackerInv
  <2>5. \A i, j \in 1..Len(stepStack') : i < j => stepStack'[i].id < stepStack'[j].id
    BY <2>3 DEF TrackerInv, TrackerAgrees
  <2>6. currentStep' = InnermostStep(stepStack)'
    BY <2>1 DEF InnermostStep
  <2>7. total' = completed' + failed' + Len(stepStack')
    <3>1. /\ total = completed + failed + Len(stepStack)
          /\ total \in Nat /\ completed \in Nat /\ failed \in Nat
      BY DEF TrackerInv, TrackerAgrees
    <3>2. /\ total' = total
          /\ Len(stepStack) \in Nat /\ Len(stepStack') = Len(stepStack) - 1
      BY <2>1, <2>3
    <3> QED BY <2>2, <3>1, <3>2
  <2>8. TrackerAgrees'
    BY <2>5, <2>6, <2>7 DEF TrackerAgrees
  <2>9. total' \in Nat
    BY <2>1 DEF TrackerInv
  <2> QED BY <2>2, <2>3, <2>4, <2>8, <2>9 DEF TrackerInv
<1> QED BY <1>1, <1>2

(* What a handler does to the tracker, it does by dispatching a child or   *)
(* by leaving its node.                                                    *)
LEMMA UntouchedTracker ==
  ASSUME TrackerInv, UNCHANGED <<stepStack, currentStep, total, completed, failed>>
  PROVE  TrackerInv'
  BY DEF TrackerInv, TrackerAgrees

LEMMA DispatchKeeps ==
  ASSUME TrackerInv, NEW node \in Nodes, NEW stack, Dispatch(node, stack)
  PROVE  TrackerInv'
<1>1. CASE node.line = 0
  BY <1>1, UntouchedTracker DEF Dispatch, trackerVars
<1>2. CASE node.line # 0
  BY <1>2, StartStepKeeps DEF Dispatch
<1> QED BY <1>1, <1>2

LEMMA LeaveKeeps ==
  ASSUME TrackerInv, NEW exception, Leave(exception)
  PROVE  TrackerInv'
<1>1. CASE UNCHANGED trackerVars
  BY <1>1, UntouchedTracker DEF trackerVars
<1>2. CASE FinishCurrentStep(exception = "error")
  BY <1>2, FinishCurrentStepKeeps
<1> QED BY <1>1, <1>2 DEF Leave, FinishStep

THEOREM TrackerStep == TrackerInv /\ [Next]_vars => TrackerInv'
<1> SUFFICES ASSUME TrackerInv, [Next]_vars PROVE TrackerInv'
  OBVIOUS
<1>1. CASE UNCHANGED vars \/ Stopped
  BY <1>1, UntouchedTracker DEF vars, trackerVars, Stopped
<1>2. CASE BeginRun \/ NotStarted \/ ParseFails \/ EndRun \/ ImportFails
  BY <1>2, UntouchedTracker
  DEF BeginRun, NotStarted, ParseFails, EndRun, ImportFails, trackerVars
<1>3. CASE ExecuteTree \/ ExecuteBody \/ EnterFinally
  <2>1. StartNode \in Nodes /\ StatementsNode \in Nodes /\ TeardownNode \in Nodes
    BY DEF Nodes
  <2>2. CASE ExecuteTree
    BY <2>1, <2>2, DispatchKeeps DEF ExecuteTree
  <2>3. CASE ExecuteBody
    BY <2>1, <2>3, DispatchKeeps DEF ExecuteBody
  <2>4. CASE EnterFinally
    BY <2>1, <2>4, DispatchKeeps, UntouchedTracker DEF EnterFinally, EnterFinallyWhen,
                                                       trackerVars
  <2> QED BY <1>3, <2>2, <2>3, <2>4
<1>4. ASSUME NEW node \in StatementNodes, TeardownStatement(node) \/ ExecuteStatement(node)
      PROVE  TrackerInv'
  <2>1. node \in Nodes
    BY DEF Nodes
  <2> QED BY <1>4, <2>1, DispatchKeeps DEF TeardownStatement, ExecuteStatement
<1>5. CASE \/ ClearAndLeave \/ InterruptedInTeardown \/ TeardownDone \/ StatementsDone
           \/ LeafCompletes \/ KeywordReturns \/ LoopDone \/ BranchDone
           \/ RetrySucceeds \/ RetryExhausted \/ Jump \/ EvaluationFails \/ Unwind
           \/ \E e \in {"error", "interrupt"} : LeafRaises(e)
  BY <1>5, LeaveKeeps
  DEF ClearAndLeave, ClearThenLeave, InterruptedInTeardown, TeardownDone, StatementsDone, LeafCompletes,
      KeywordReturns, LoopDone, BranchDone, RetrySucceeds, RetryExhausted, Jump,
      EvaluationFails, Unwind, LeafRaises, Complete
<1>6. CASE EnterKeyword
  BY <1>6, LeaveKeeps, UntouchedTracker DEF EnterKeyword, trackerVars
<1>7. ASSUME NEW n \in 0..MaxRepeat, EnterLoop(n) PROVE TrackerInv'
  BY <1>7, UntouchedTracker DEF EnterLoop, trackerVars
<1>8. CASE NextIteration \/ EnterBranch \/ NextAttempt \/ \E n \in 1..MaxRepeat : FirstAttempt(n)
  <2>1. StatementsNode \in Nodes
    BY DEF Nodes
  <2> QED BY <1>8, <2>1, DispatchKeeps
          DEF NextIteration, EnterBranch, NextAttempt, FirstAttempt, BeginAttempts
<1>9. ASSUME NEW command \in Commands, DebugCommand(command) PROVE TrackerInv'
  BY <1>9, UntouchedTracker DEF DebugCommand, trackerVars
<1> QED
  BY <1>1, <1>2, <1>3, <1>4, <1>5, <1>6, <1>7, <1>8, <1>9 DEF Next

(* Whatever ends a node - normally, by an error, a break or an interrupt - *)
(* and over any number of runs, the reported step is the innermost open    *)
(* one and every started step is completed, failed or open.                *)
THEOREM TrackerAlwaysAgrees == Spec => []TrackerAgrees
<1>1. Init => TrackerInv
  BY EmptySeq DEF Init, TrackerInit, TrackerInv, TrackerAgrees, InnermostStep
<1>2. TrackerInv => TrackerAgrees
  BY DEF TrackerInv
<1> QED BY <1>1, <1>2, TrackerStep, PTL DEF Spec

-----------------------------------------------------------------------------
(* Moves.  Whatever an action means to the program, it does one of five    *)
(* things to the stacks; what is true of the stacks is proved once for     *)
(* each of them.                                                           *)
Frame == [node : Nodes, entered : BOOLEAN, left : Nat]

(* Types of the stacks. *)
StackTypes ==
  /\ frames \in Seq(Frame)
  /\ nodeStack \in Seq(Lines)
  /\ raised \in Exceptions
  /\ pending \in StatementNodes \cup {NoNode}
  /\ callStack \subseteq Keywords
  /\ callDepth \in Nat /\ autoContinue \in BOOLEAN
  /\ stepStack \in Seq(Steps)

(* Where the executor is in a test, seen from the stacks. *)
StageInv ==
  /\ frames = <<>> <=> stage \in {"idle", "begun", "exited", "done"}
  /\ \A i \in 1..Len(frames) : frames[i].node.kind = "Start" <=> i = 1
  /\ \A i \in 1..Len(frames) : frames[i].node.kind = "Teardown" => i = 2 /\ stage = "teardown"
  /\ stage = "teardown" /\ Len(frames) > 1 => frames[2].node.kind = "Teardown"
  /\ stage \in {"import", "clear"} => Len(frames) = 1
  /\ stage \in {"idle", "begun", "import", "clear", "done"} => raised = "none"
  /\ pending # NoNode => raised = "none" /\ Len(frames) > 1

(* The frames after the innermost handler has changed its own state. *)
Reframed(stack) ==
  /\ stack \in Seq(Frame) /\ Len(stack) = Len(frames)
  /\ \A i \in 1..Len(frames) :
       /\ stack[i].node = frames[i].node
       /\ stack[i].entered = frames[i].entered \/ ~IsCall(frames[i].node)

(* The handler of the innermost node executes a child ...                  *)
Takes(node) ==
  /\ node \in Nodes
  /\ pending = NoNode /\ raised' = "none"
  /\ raised = "interrupt" => Len(frames) = 1 /\ node = TeardownNode
  /\ \E stack : Reframed(stack) /\ Dispatch(node, stack)
  /\ UNCHANGED callStack

(* ... or is left with an exception, or without one ...                    *)
Goes(exception) ==
  /\ frames # <<>> /\ pending = NoNode
  /\ exception \in Exceptions
  /\ raised = "interrupt" => exception = "interrupt"
  /\ Leave(exception)

(* ... or changes only its own state ...                                   *)
Rests ==
  /\ Reframed(frames')
  /\ raised' \in {raised, "none"}
  /\ raised = "interrupt" => raised' = raised \/ Len(frames) <= 1
  /\ UNCHANGED <<nodeStack, pending, callStack, stepStack, currentStep, debuggerVars>>

(* ... or sets its recursion guard and begins the body.                    *)
Guards ==
  /\ frames # <<>> /\ pending = NoNode
  /\ IsCall(Top.node) /\ Top.node.kw \in Keywords \ callStack /\ ~Top.entered
  /\ frames' = [frames EXCEPT ![Len(frames)].entered = TRUE]
  /\ callStack' = callStack \cup {Top.node.kw}
  /\ UNCHANGED <<nodeStack, raised, pending, trackerVars, debuggerVars>>

Answers == \E command \in Commands : DebugCommand(command)

Moves ==
  \/ Rests \/ Guards \/ Answers
  \/ \E node \in Nodes : Takes(node)
  \/ \E exception \in Exceptions : Goes(exception)

LEMMA TopFacts ==
  ASSUME StackTypes, frames # <<>>
  PROVE  /\ Len(frames) \in Nat \ {0} /\ Len(frames) \in 1..Len(frames)
         /\ Top \in Frame /\ Top = frames[Len(frames)]
         /\ Top.node \in Nodes /\ Top.entered \in BOOLEAN /\ Top.left \in Nat
<1>1. frames \in Seq(Frame)
  BY DEF StackTypes
<1>2. Len(frames) \in Nat \ {0}
  BY <1>1, EmptySeq
<1>3. Len(frames) \in 1..Len(frames)
  BY <1>2
<1>4. Top \in Frame /\ Top = frames[Len(frames)]
  BY <1>1, <1>3, ElementOfSeq DEF Top
<1> QED BY <1>2, <1>3, <1>4 DEF Frame

(* A handler that changes "entered" or "left" of its own activation.       *)
LEMMA ReframeTop ==
  ASSUME StackTypes, frames # <<>>,
         NEW entered \in BOOLEAN, NEW left \in Nat, NEW stack,
         stack = [frames EXCEPT ![Len(frames)] = [node |-> Top.node, entered |-> entered, left |-> left]],
         entered = Top.entered \/ ~IsCall(Top.node)
  PROVE  Reframed(stack)
<1>1. /\ Len(frames) \in 1..Len(frames)
      /\ Top = frames[Len(frames)] /\ Top.node \in Nodes /\ frames \in Seq(Frame)
  BY TopFacts DEF StackTypes
<1>2. [node |-> Top.node, entered |-> entered, left |-> left] \in Frame
  BY <1>1 DEF Frame
<1>3. stack \in Seq(Frame) /\ Len(stack) = Len(frames)
  BY <1>1, <1>2, ExceptSeq
<1>4. ASSUME NEW i \in 1..Len(frames)
      PROVE  /\ stack[i].node = frames[i].node
             /\ stack[i].entered = frames[i].entered \/ ~IsCall(frames[i].node)
  <2>1. stack[i] = IF i = Len(frames)
                   THEN [node |-> Top.node, entered |-> entered, left |-> left] ELSE frames[i]
    BY <1>1, ExceptSeq
  <2> QED BY <1>1, <2>1
<1> QED BY <1>3, <1>4 DEF Reframed

LEMMA SameFrames ==
  ASSUME StackTypes
  PROVE  Reframed(frames)
  BY DEF Reframed, StackTypes

LEMMA UpdateLeft ==
  ASSUME NEW node, NEW entered, NEW old, NEW left, NEW frame,
         frame = [node |-> node, entered |-> entered, left |-> old]
  PROVE  [frame EXCEPT !.left = left] = [node |-> node, entered |-> entered, left |-> left]
  OBVIOUS

(* What the loop, retry and branch handlers write to their activation.     *)
LEMMA HandlerState ==
  ASSUME StackTypes, frames # <<>>, ~IsCall(Top.node)
  PROVE  /\ Top.left > 0 => Reframed(TopLeft)
         /\ Reframed([frames EXCEPT ![Len(frames)].entered = TRUE])
         /\ \A n \in Nat : Reframed([frames EXCEPT ![Len(frames)].entered = TRUE,
                                                   ![Len(frames)].left = n])
<1> DEFINE k == Len(frames)
           Put(e, l) == [frames EXCEPT ![k] = [node |-> Top.node, entered |-> e, left |-> l]]
<1>1. /\ frames \in Seq(Frame) /\ k \in 1..Len(frames)
      /\ Top = frames[k] /\ Top \in Frame /\ Top.left \in Nat /\ Top.entered \in BOOLEAN
  BY TopFacts DEF StackTypes
<1>2. frames[k] = [node |-> Top.node, entered |-> Top.entered, left |-> Top.left]
  BY <1>1 DEF Frame
<1>3. ASSUME NEW e, NEW l
      PROVE  /\ [frames[k] EXCEPT !.left = l]
                  = [node |-> Top.node, entered |-> Top.entered, left |-> l]
             /\ [frames[k] EXCEPT !.entered = e]
                  = [node |-> Top.node, entered |-> e, left |-> Top.left]
  BY <1>2
<1>4. TopLeft = Put(Top.entered, Top.left - 1)
  <2>1. TopLeft = [frames EXCEPT ![k] = [frames[k] EXCEPT !.left = frames[k].left - 1]]
    BY DEF TopLeft
  <2> QED BY <2>1, <1>3, <1>1
<1>5. [frames EXCEPT ![k].entered = TRUE] = Put(TRUE, Top.left)
  <2>1. [frames EXCEPT ![k].entered = TRUE] = [frames EXCEPT ![k] = [frames[k] EXCEPT !.entered = TRUE]]
    OBVIOUS
  <2> QED BY <2>1, <1>3
<1>6. ASSUME NEW n \in Nat, NEW e
      PROVE  [frames EXCEPT ![k].entered = e, ![k].left = n] = Put(e, n)
  <2>1. PICK f : f = Put(e, Top.left)
    OBVIOUS
  <2>2. [frames EXCEPT ![k].entered = e] = f
    <3>1. [frames EXCEPT ![k].entered = e] = [frames EXCEPT ![k] = [frames[k] EXCEPT !.entered = e]]
      OBVIOUS
    <3> QED BY <2>1, <3>1, <1>3
  <2>3. f[k] = [node |-> Top.node, entered |-> e, left |-> Top.left]
    <3>1. k \in DOMAIN frames
      BY <1>1, LenProperties
    <3> QED BY <2>1, <3>1
  <2>4. [frames EXCEPT ![k].entered = e, ![k].left = n]
          = [f EXCEPT ![k] = [f[k] EXCEPT !.left = n]]
    BY <2>2
  <2>5. [f[k] EXCEPT !.left = n] = [node |-> Top.node, entered |-> e, left |-> n]
    BY <2>3, UpdateLeft
  <2>6. [f EXCEPT ![k] = [node |-> Top.node, entered |-> e, left |-> n]] = Put(e, n)
    BY <2>1
  <2> QED BY <2>4, <2>5, <2>6
<1>7. \A e \in BOOLEAN, l \in Nat : e = Top.entered \/ ~IsCall(Top.node) => Reframed(Put(e, l))
  BY ReframeTop
<1> HIDE DEF Put
<1>8. Top.left > 0 => Reframed(TopLeft)
  <2>1. Top.left > 0 => Top.left - 1 \in Nat
    BY <1>1
  <2> QED BY <2>1, <1>1, <1>4, <1>7
<1>9. Reframed([frames EXCEPT ![Len(frames)].entered = TRUE])
  BY <1>1, <1>5, <1>7
<1>10. \A n \in Nat : Reframed([frames EXCEPT ![Len(frames)].entered = TRUE,
                                              ![Len(frames)].left = n])
  BY <1>6, <1>7
<1> QED BY <1>8, <1>9, <1>10

LEMMA NodeKinds ==
  /\ StartNode \in Nodes /\ StatementsNode \in Nodes /\ TeardownNode \in Nodes
  /\ StatementNodes \subseteq Nodes
  /\ \A node \in Nodes :
       /\ node.kind = "Start" => node = StartNode
       /\ node.kind = "Statements" => node = StatementsNode
       /\ node.kind = "Teardown" => node = TeardownNode
       /\ node.kind \in BlockKinds \cup SimpleKinds => node \in StatementNodes /\ node.kw = "none"
       /\ IsCall(node) => node \in StatementNodes /\ node.kw \in Keywords \cup {"builtin"}
       /\ node.kind \in {"Start", "Statements", "Teardown"} \cup BlockKinds \cup SimpleKinds
                          \cup KeywordCallKinds
       /\ node.line \in Nat /\ (node.line # 0 => node.line \in Lines)
       /\ node.line # 0 <=> node.kind \notin {"Statements", "Teardown"}
       /\ node # NoNode
  BY ExecutorAssumption
  DEF Nodes, StatementNodes, StartNode, StatementsNode, TeardownNode, BlockKinds,
      SimpleKinds, KeywordCallKinds, IsCall, Lines, NoNode

-----------------------------------------------------------------------------
(* The actions inside the tree: handlers of nodes other than Start and     *)
(* Teardown, and the debugger's answer.  They leave the test's own state.  *)
InTree ==
  /\ pending = NoNode /\ frames # <<>> /\ Top.node.kind \notin {"Start", "Teardown"}
  /\ \/ Rests /\ raised' = raised
     \/ Guards
     \/ \E node \in StatementNodes \cup {StatementsNode} : Takes(node)
     \/ \E exception \in Exceptions : Goes(exception)

Inside ==
  /\ UNCHANGED runVars
  /\ locals' \in {locals, locals \cup {run}}
  /\ InTree \/ Answers

LEMMA KindsApart ==
  /\ BlockKinds = {"ForRangeLoop", "IfStatement", "Retry"}
  /\ SimpleKinds = {"Assignment", "Return", "Break", "Continue"}
  /\ KeywordCallKinds = {"KeywordCall", "AssignmentKeywordCall"}
  BY DEF BlockKinds, SimpleKinds, KeywordCallKinds

(* Handlers that execute a child. *)
LEMMA ChildActions ==
  ASSUME StackTypes,
         \/ \E node \in StatementNodes : ExecuteStatement(node)
         \/ NextIteration \/ EnterBranch \/ NextAttempt
         \/ \E n \in 1..MaxRepeat : FirstAttempt(n)
  PROVE  Inside
<1>1. ASSUME NEW node \in StatementNodes, ExecuteStatement(node) PROVE Inside
  BY <1>1, SameFrames, NodeKinds, KindsApart
  DEF ExecuteStatement, Inside, InTree, Takes, Running, TopIs, InKeywordBody
<1>2. CASE NextIteration
  <2>1. frames # <<>> /\ ~IsCall(Top.node) /\ Top.node.kind = "ForRangeLoop" /\ Top.left > 0
    BY <1>2, KindsApart DEF NextIteration, AtLoop, TopIs, IsCall
  <2>2. Reframed(TopLeft)
    BY <2>1, HandlerState
  <2> QED BY <1>2, <2>1, <2>2, NodeKinds
          DEF NextIteration, AtLoop, TopIs, Inside, InTree, Takes, runVars
<1>3. CASE EnterBranch
  <2>1. frames # <<>> /\ ~IsCall(Top.node) /\ Top.node.kind = "IfStatement"
    BY <1>3, KindsApart DEF EnterBranch, Running, TopIs, IsCall
  <2>2. Reframed([frames EXCEPT ![Len(frames)].entered = TRUE])
    BY <2>1, HandlerState
  <2> QED BY <1>3, <2>1, <2>2, NodeKinds
          DEF EnterBranch, Running, TopIs, Inside, InTree, Takes, runVars
<1>4. CASE NextAttempt
  <2>1. frames # <<>> /\ ~IsCall(Top.node) /\ Top.node.kind = "Retry" /\ Top.left > 0
    BY <1>4, KindsApart DEF NextAttempt, AtRetry, TopIs, IsCall
  <2>2. Reframed(TopLeft)
    BY <2>1, HandlerState
  <2> QED BY <1>4, <2>1, <2>2, NodeKinds
          DEF NextAttempt, AtRetry, TopIs, Inside, InTree, Takes, runVars
<1>5. ASSUME NEW n \in 1..MaxRepeat, FirstAttempt(n) PROVE Inside
  <2>1. frames # <<>> /\ ~IsCall(Top.node) /\ Top.node.kind = "Retry"
    BY <1>5, KindsApart DEF FirstAttempt, BeginAttempts, AtRetry, TopIs, IsCall
  <2>2. n - 1 \in Nat
    BY ExecutorAssumption
  <2>3. Reframed([frames EXCEPT ![Len(frames)].entered = TRUE, ![Len(frames)].left = n - 1])
    BY <2>1, <2>2, HandlerState
  <2> QED BY <1>5, <2>1, <2>3, NodeKinds
          DEF FirstAttempt, BeginAttempts, AtRetry, TopIs, Inside, InTree, Takes, runVars
<1> QED BY <1>1, <1>2, <1>3, <1>4, <1>5

(* Handlers that are left. *)
LEMMA LeftInside ==
  ASSUME StackTypes, UNCHANGED runVars, locals' \in {locals, locals \cup {run}},
         Top.node.kind \notin {"Start", "Teardown"},
         NEW exception \in Exceptions, Goes(exception)
  PROVE  Inside
  BY DEF Inside, InTree, Goes

LEMMA SomeExceptions ==
  {"none", "error", "interrupt", "break", "continue", "return"} \subseteq Exceptions
  BY DEF Exceptions, ControlFlow

LEMMA LeavingActions ==
  ASSUME StackTypes,
         \/ StatementsDone \/ LeafCompletes \/ \E e \in {"error", "interrupt"} : LeafRaises(e)
         \/ Jump \/ EvaluationFails \/ KeywordReturns \/ LoopDone \/ BranchDone
         \/ RetrySucceeds \/ RetryExhausted
         \/ EnterKeyword /\ Top.node.kw \in callStack
  PROVE  Inside
<1>1. CASE StatementsDone \/ BranchDone
  <2>1. Goes("none") /\ Top.node.kind \notin {"Start", "Teardown"}
    BY <1>1, SomeExceptions DEF StatementsDone, BranchDone, Running, TopIs, Complete, Goes
  <2> QED BY <1>1, <2>1, LeftInside, SomeExceptions DEF StatementsDone, BranchDone, runVars
<1>2. CASE LeafCompletes \/ \E e \in {"error", "interrupt"} : LeafRaises(e)
  <2>1. AtLeaf => Top.node.kind \notin {"Start", "Teardown"} /\ Running
    <3>1. AtLeaf => Top.node \in Nodes
      <4>1. AtLeaf => frames # <<>>
        BY DEF AtLeaf, Running
      <4> QED BY <4>1, TopFacts
    <3>2. AtLeaf => Running /\ (Top.node.kind = "Assignment" \/ Top.node.kw = "builtin")
      BY DEF AtLeaf, TopIs
    <3>3. StartNode.kw = "none" /\ TeardownNode.kw = "none"
      BY DEF StartNode, TeardownNode
    <3> QED BY <3>1, <3>2, <3>3, NodeKinds
  <2>2. CASE LeafCompletes
    <3>1. Goes("none")
      BY <2>1, <2>2, SomeExceptions DEF LeafCompletes, Running, Complete, Goes
    <3> QED BY <2>1, <2>2, <3>1, LeftInside, SomeExceptions DEF LeafCompletes, runVars
  <2>3. ASSUME NEW e \in {"error", "interrupt"}, LeafRaises(e) PROVE Inside
    <3>1. Goes(e)
      BY <2>1, <2>3, SomeExceptions DEF LeafRaises, Running, Goes
    <3> QED BY <2>1, <2>3, <3>1, LeftInside, SomeExceptions DEF LeafRaises, runVars
  <2> QED BY <1>2, <2>2, <2>3
<1>3. CASE Jump
  <2>1. \E e \in {"return", "break", "continue"} : Goes(e)
    BY <1>3, SomeExceptions DEF Jump, Running, Goes
  <2>2. Top.node.kind \notin {"Start", "Teardown"}
    BY <1>3 DEF Jump, TopIs
  <2> QED BY <1>3, <2>1, <2>2, LeftInside, SomeExceptions DEF Jump, runVars
<1>4. CASE EvaluationFails
  <2>1. Goes("error") /\ Top.node.kind \notin {"Start", "Teardown"}
    BY <1>4, SomeExceptions, KindsApart DEF EvaluationFails, Running, Goes, TopIs
  <2> QED BY <1>4, <2>1, LeftInside, SomeExceptions DEF EvaluationFails, runVars
<1>5. CASE KeywordReturns
  <2>1. Goes("none") /\ Top.node.kind \notin {"Start", "Teardown"}
    BY <1>5, SomeExceptions, KindsApart DEF KeywordReturns, InKeywordBody, Complete, Goes, TopIs
  <2> QED BY <1>5, <2>1, LeftInside, SomeExceptions DEF KeywordReturns, runVars
<1>6. CASE EnterKeyword /\ Top.node.kw \in callStack
  <2>1. Goes("error") /\ Top.node.kind \notin {"Start", "Teardown"}
    BY <1>6, SomeExceptions, KindsApart DEF EnterKeyword, AtCustomCall, Running, Goes, TopIs
  <2> QED BY <1>6, <2>1, LeftInside, SomeExceptions DEF EnterKeyword, runVars
<1>7. CASE LoopDone
  <2>1. Goes("none") /\ Top.node.kind \notin {"Start", "Teardown"}
    BY <1>7, SomeExceptions DEF LoopDone, AtLoop, Complete, Goes, TopIs
  <2> QED BY <1>7, <2>1, LeftInside, SomeExceptions DEF LoopDone, runVars
<1>8. CASE RetrySucceeds
  <2>1. Goes("none") /\ Top.node.kind \notin {"Start", "Teardown"}
    BY <1>8, SomeExceptions DEF RetrySucceeds, AtRetry, Complete, Goes, TopIs
  <2> QED BY <1>8, <2>1, LeftInside, SomeExceptions DEF RetrySucceeds, runVars
<1>9. CASE RetryExhausted
  <2>1. Goes("error") /\ Top.node.kind \notin {"Start", "Teardown"}
    BY <1>9, SomeExceptions DEF RetryExhausted, AtRetry, Goes, TopIs
  <2> QED BY <1>9, <2>1, LeftInside, SomeExceptions DEF RetryExhausted, runVars
<1> QED BY <1>1, <1>2, <1>3, <1>4, <1>5, <1>6, <1>7, <1>8, <1>9

LEMMA UnwindInside ==
  ASSUME StackTypes, Unwind, Top.node.kind # "Teardown"
  PROVE  Inside
<1>1. Top.node.kind # "Start"
  BY KindsApart DEF Unwind, Caught, StackTypes, TopIs, Exceptions, ControlFlow
<1>2. raised \in Exceptions /\ Goes(raised)
  BY DEF Unwind, StackTypes, Goes
<1> QED BY <1>1, <1>2 DEF Unwind, Inside, InTree

(* Handlers that only mark their activation. *)
LEMMA MarkingActions ==
  ASSUME StackTypes,
         \/ \E n \in 0..MaxRepeat : EnterLoop(n)
         \/ EnterKeyword /\ Top.node.kw \notin callStack
  PROVE  Inside
<1>1. ASSUME NEW n \in 0..MaxRepeat, EnterLoop(n) PROVE Inside
  <2>1. frames # <<>> /\ ~IsCall(Top.node) /\ Top.node.kind = "ForRangeLoop" /\ pending = NoNode
    BY <1>1, KindsApart DEF EnterLoop, AtLoop, TopIs, IsCall
  <2>2. n \in Nat
    BY ExecutorAssumption
  <2>3. Reframed(frames')
    BY <1>1, <2>1, <2>2, HandlerState DEF EnterLoop
  <2> QED BY <1>1, <2>1, <2>3 DEF EnterLoop, Inside, InTree, Rests, trackerVars
<1>2. CASE EnterKeyword /\ Top.node.kw \notin callStack
  BY <1>2, KindsApart
  DEF EnterKeyword, AtCustomCall, Running, TopIs, Inside, InTree, Guards, IsCall, runVars
<1> QED BY <1>1, <1>2

(* Every action is one inside the tree or one of the test's own.           *)
TeardownUnwinds == Unwind /\ Top.node.kind = "Teardown"

Outside ==
  \/ BeginRun \/ NotStarted \/ ParseFails \/ ExecuteTree \/ EndRun
  \/ ImportFails \/ ExecuteBody \/ EnterFinally \/ ClearAndLeave \/ InterruptedInTeardown
  \/ \E node \in StatementNodes : TeardownStatement(node)
  \/ TeardownDone
  \/ TeardownUnwinds
  \/ UNCHANGED vars

LEMMA InsideOrOutside ==
  ASSUME StackTypes, [Next]_vars
  PROVE  Inside \/ Outside
<1>1. Answers => Inside
  BY DEF Answers, DebugCommand, Inside, runVars
<1> QED BY <1>1, ChildActions, LeavingActions, UnwindInside, MarkingActions
        DEF Next, Outside, TeardownUnwinds, Stopped, Answers

-----------------------------------------------------------------------------
(* What the moves do to the activations.                                   *)
Grown(node) ==
  /\ frames' \in Seq(Frame) /\ Len(frames') = Len(frames) + 1
  /\ \A i \in 1..Len(frames) :
       /\ frames'[i].node = frames[i].node
       /\ frames'[i].entered = frames[i].entered \/ ~IsCall(frames[i].node)
  /\ frames'[Len(frames) + 1].node = node
  /\ ~frames'[Len(frames) + 1].entered
  /\ nodeStack' = IF node.line # 0 THEN Append(nodeStack, node.line) ELSE nodeStack
  /\ pending' = NoNode

Cut ==
  /\ frames' \in Seq(Frame) /\ Len(frames') = Len(frames) - 1
  /\ \A i \in 1..Len(frames') : i \in 1..Len(frames) /\ frames'[i] = frames[i]

LEMMA PushGrows ==
  ASSUME StackTypes, NEW node \in Nodes, NEW stack, Reframed(stack),
         PushFrame(node, stack), pending' = NoNode
  PROVE  Grown(node)
<1>1. Activation(node) \in Frame /\ Activation(node).node = node /\ ~Activation(node).entered
  BY DEF Activation, Frame
<1>2. stack \in Seq(Frame) /\ Len(stack) = Len(frames)
  BY DEF Reframed
<1>3. /\ frames' \in Seq(Frame) /\ Len(frames') = Len(frames) + 1
      /\ \A i \in 1..Len(frames) : frames'[i] = stack[i]
      /\ frames'[Len(frames) + 1] = Activation(node)
  BY <1>1, <1>2, AppendFacts DEF PushFrame
<1> QED BY <1>1, <1>3 DEF Grown, Reframed, PushFrame

(* Executing a child pushes its activation, unless the debugger holds the  *)
(* child back.                                                             *)
LEMMA TakeEffect ==
  ASSUME StackTypes, NEW node, Takes(node)
  PROVE  \/ Grown(node)
         \/ /\ Reframed(frames') /\ UNCHANGED nodeStack
            /\ pending' = node /\ node \in StatementNodes /\ node.line # 0
            /\ Pauses(NewStep(node.kind, node.line))
<1>1. PICK stack : Reframed(stack) /\ Dispatch(node, stack)
  BY DEF Takes
<1>2. node \in Nodes /\ pending = NoNode
  BY DEF Takes
<1>3. CASE PushFrame(node, stack) /\ UNCHANGED pending
  BY <1>1, <1>2, <1>3, PushGrows
<1>4. CASE /\ node.line # 0 /\ Pauses(NewStep(node.kind, node.line))
           /\ pending' = node /\ frames' = stack /\ UNCHANGED nodeStack
  <2>1. NewStep(node.kind, node.line).kind = node.kind
    BY DEF NewStep
  <2>2. node.kind # "Start"
    BY <1>4, <2>1 DEF Pauses, Announced, Ignored, DebugStepKinds
  <2>3. node \in StatementNodes
    BY <1>2, <1>4, <2>2 DEF Nodes, StartNode, StatementsNode, TeardownNode
  <2> QED BY <1>1, <1>4, <2>3
<1> QED BY <1>1, <1>3, <1>4 DEF Dispatch

LEMMA GoEffect ==
  ASSUME StackTypes, NEW exception, Goes(exception)
  PROVE  Cut
<1>1. frames \in Seq(Frame) /\ frames # <<>> /\ frames' = SubSeq(frames, 1, Len(frames) - 1)
  BY DEF StackTypes, Goes, Leave
<1>2. /\ frames' \in Seq(Frame) /\ Len(frames') = Len(frames) - 1
      /\ \A i \in 1..(Len(frames) - 1) : frames'[i] = frames[i]
      /\ Len(frames) \in Nat \ {0}
  BY <1>1, FrontFacts
<1> QED BY <1>2 DEF Cut

LEMMA AnswerEffect ==
  ASSUME StackTypes, Answers
  PROVE  /\ pending # NoNode /\ pending \in StatementNodes /\ pending' = NoNode
         /\ UNCHANGED <<callStack, stepStack, currentStep, callDepth>>
         /\ \/ raised' = "interrupt" /\ UNCHANGED <<frames, nodeStack>>
            \/ raised' = raised /\ Grown(pending)
<1>1. PICK command \in Commands : DebugCommand(command)
  BY DEF Answers
<1>2. pending # NoNode /\ pending \in StatementNodes /\ pending \in Nodes /\ pending' = NoNode
  BY <1>1, NodeKinds DEF DebugCommand, StackTypes
<1>3. UNCHANGED <<callStack, stepStack, currentStep, callDepth>>
  BY <1>1 DEF DebugCommand, trackerVars
<1>4. CASE command = "stop"
  BY <1>1, <1>2, <1>3, <1>4 DEF DebugCommand
<1>5. CASE command # "stop"
  <2>1. PushFrame(pending, frames) /\ UNCHANGED raised
    BY <1>1, <1>5 DEF DebugCommand
  <2>2. Grown(pending)
    BY <1>2, <2>1, SameFrames, PushGrows
  <2> QED BY <1>2, <1>3, <2>1, <2>2
<1> QED BY <1>4, <1>5

LEMMA GuardEffect ==
  ASSUME StackTypes, Guards
  PROVE  /\ frames' \in Seq(Frame) /\ Len(frames') = Len(frames)
         /\ Len(frames) \in 1..Len(frames)
         /\ \A i \in 1..Len(frames) :
              /\ frames'[i].node = frames[i].node
              /\ i # Len(frames) => frames'[i].entered = frames[i].entered
         /\ frames'[Len(frames)].entered
<1> DEFINE k == Len(frames)
<1>1. /\ frames \in Seq(Frame) /\ frames # <<>> /\ k \in 1..Len(frames)
      /\ frames[k] \in Frame /\ frames[k] = Top
  BY TopFacts DEF StackTypes, Guards
<1>3. frames[k] = [node |-> Top.node, entered |-> Top.entered, left |-> Top.left]
  BY <1>1 DEF Frame
<1>4. \A e : [frames[k] EXCEPT !.entered = e] = [node |-> Top.node, entered |-> e, left |-> Top.left]
  BY <1>3
<1>5. [node |-> Top.node, entered |-> TRUE, left |-> Top.left] \in Frame
  BY <1>1 DEF Frame
<1>6. frames' = [frames EXCEPT ![k] = [frames[k] EXCEPT !.entered = TRUE]]
  BY DEF Guards
<1>7. frames' = [frames EXCEPT ![k] = [node |-> Top.node, entered |-> TRUE, left |-> Top.left]]
  BY <1>4, <1>6
<1>8. /\ frames' \in Seq(Frame) /\ Len(frames') = Len(frames)
      /\ \A j \in 1..Len(frames) :
           frames'[j] = IF j = k THEN [node |-> Top.node, entered |-> TRUE, left |-> Top.left]
                        ELSE frames[j]
  BY <1>1, <1>5, <1>7, ExceptSeq
<1> QED BY <1>1, <1>8

(* The moves keep the stacks well typed. *)
LEMMA DispatchTypes ==
  ASSUME StackTypes, NEW node, NEW stack, Dispatch(node, stack)
  PROVE  callDepth' \in Nat /\ autoContinue' = autoContinue
  BY DEF Dispatch, OnStepStart, CountCalls, StackTypes, debuggerVars

LEMMA LeaveTypes ==
  ASSUME StackTypes, NEW exception, Leave(exception)
  PROVE  /\ callDepth' \in Nat /\ autoContinue' = autoContinue
         /\ nodeStack' \in Seq(Lines)
         /\ callStack' \subseteq Keywords
         /\ raised' = exception /\ pending' = pending
<1>1. callDepth' \in Nat /\ autoContinue' = autoContinue
  BY DEF Leave, FinishStep, OnStepFinish, StackTypes, debuggerVars
<1>2. nodeStack' \in Seq(Lines)
  <2>1. SubSeq(nodeStack, 1, Len(nodeStack) - 1) \in Seq(Lines)
    <3>1. CASE nodeStack = <<>>
      <4>1. SubSeq(nodeStack, 1, Len(nodeStack) - 1) = <<>>
        BY <3>1, EmptySeq
      <4> QED BY <4>1, EmptySeq
    <3>2. CASE nodeStack # <<>>
      BY <3>2, FrontFacts DEF StackTypes
    <3> QED BY <3>1, <3>2
  <2> QED BY <2>1 DEF Leave, PopNode, StackTypes
<1>3. callStack' \subseteq Keywords
  BY DEF Leave, RestoreCallStack, StackTypes
<1> QED BY <1>1, <1>2, <1>3 DEF Leave

LEMMA GrownTypes ==
  ASSUME StackTypes, NEW node \in Nodes, Grown(node)
  PROVE  frames' \in Seq(Frame) /\ nodeStack' \in Seq(Lines) /\ pending' = NoNode
<1>1. node.line # 0 => node.line \in Lines
  BY NodeKinds
<1> QED BY <1>1, AppendFacts DEF Grown, StackTypes

LEMMA MoveTypes ==
  ASSUME StackTypes, stepStack' \in Seq(Steps), Moves
  PROVE  StackTypes'
<1>1. CASE Rests
  BY <1>1, SomeExceptions DEF Rests, Reframed, StackTypes, debuggerVars
<1>2. CASE Guards
  <2>1. frames' \in Seq(Frame)
    BY <1>2, GuardEffect
  <2> QED BY <1>2, <2>1 DEF Guards, StackTypes, debuggerVars
<1>3. CASE Answers
  <2>1. /\ pending \in Nodes /\ pending' = NoNode
        /\ UNCHANGED <<callStack, callDepth>>
    BY <1>3, AnswerEffect, NodeKinds
  <2>2. frames' \in Seq(Frame) /\ nodeStack' \in Seq(Lines) /\ raised' \in Exceptions
    <3>1. CASE raised' = "interrupt" /\ UNCHANGED <<frames, nodeStack>>
      BY <3>1, SomeExceptions DEF StackTypes
    <3>2. CASE raised' = raised /\ Grown(pending)
      BY <2>1, <3>2, GrownTypes DEF StackTypes
    <3> QED BY <1>3, <3>1, <3>2, AnswerEffect
  <2>3. autoContinue' \in BOOLEAN
    BY <1>3 DEF Answers, DebugCommand, StackTypes
  <2> QED BY <2>1, <2>2, <2>3 DEF StackTypes
<1>4. ASSUME NEW node \in Nodes, Takes(node) PROVE StackTypes'
  <2>1. callDepth' \in Nat /\ autoContinue' = autoContinue /\ raised' = "none"
        /\ UNCHANGED callStack
    BY <1>4, DispatchTypes DEF Takes
  <2>2. CASE Grown(node)
    <3>1. frames' \in Seq(Frame) /\ nodeStack' \in Seq(Lines) /\ pending' = NoNode
      BY <2>2, GrownTypes
    <3> QED BY <2>1, <3>1, SomeExceptions DEF StackTypes
  <2>3. CASE Reframed(frames') /\ UNCHANGED nodeStack /\ pending' \in StatementNodes
    BY <2>1, <2>3, SomeExceptions DEF StackTypes, Reframed
  <2> QED BY <1>4, <2>2, <2>3, TakeEffect
<1>5. ASSUME NEW exception \in Exceptions, Goes(exception) PROVE StackTypes'
  <2>1. frames' \in Seq(Frame)
    BY <1>5, GoEffect DEF Cut
  <2>2. Leave(exception)
    BY <1>5 DEF Goes
  <2> QED BY <2>1, <2>2, LeaveTypes DEF StackTypes
<1> QED BY <1>1, <1>2, <1>3, <1>4, <1>5 DEF Moves

-----------------------------------------------------------------------------
(* The recursion guard.                                                    *)
Bodies == {i \in 1..Len(frames) : frames[i].entered /\ frames[i].node.kind \in KeywordCallKinds}

LEMMA SameBodies ==
  ASSUME RecursionGuard, UNCHANGED callStack, Bodies' = Bodies,
         \A i \in Bodies : frames'[i].node = frames[i].node
  PROVE  RecursionGuard'
<1>1. /\ callStack = {frames[i].node.kw : i \in Bodies}
      /\ \A i, j \in Bodies : frames[i].node.kw = frames[j].node.kw => i = j
  BY DEF RecursionGuard, Bodies
<1>2. callStack' = {frames'[i].node.kw : i \in Bodies'}
  BY <1>1
<1>3. \A i, j \in Bodies' : frames'[i].node.kw = frames'[j].node.kw => i = j
  BY <1>1
<1> QED BY <1>2, <1>3 DEF RecursionGuard, Bodies

LEMMA ReframedGuard ==
  ASSUME StackTypes, RecursionGuard, Reframed(frames'), UNCHANGED callStack
  PROVE  RecursionGuard'
<1>1. Bodies' = Bodies
  BY DEF Bodies, Reframed, IsCall
<1>2. \A i \in Bodies : frames'[i].node = frames[i].node
  BY DEF Bodies, Reframed
<1> QED BY <1>1, <1>2, SameBodies

LEMMA GrownGuard ==
  ASSUME StackTypes, RecursionGuard, NEW node, Grown(node), UNCHANGED callStack
  PROVE  RecursionGuard'
<1>1. Len(frames) \in Nat /\ Len(frames') = Len(frames) + 1
  BY DEF StackTypes, Grown
<1>2. 1..Len(frames') = 1..Len(frames) \cup {Len(frames) + 1}
  BY <1>1
<1>3. Bodies' = Bodies
  BY <1>1, <1>2 DEF Bodies, Grown, IsCall
<1>4. \A i \in Bodies : frames'[i].node = frames[i].node
  BY DEF Bodies, Grown
<1> QED BY <1>3, <1>4, SameBodies

LEMMA GuardsGuard ==
  ASSUME StackTypes, RecursionGuard, Guards
  PROVE  RecursionGuard'
<1> DEFINE k == Len(frames)
           kw(i) == frames[i].node.kw
<1>1. /\ callStack = {kw(i) : i \in Bodies}
      /\ \A i, j \in Bodies : kw(i) = kw(j) => i = j
  BY DEF RecursionGuard, Bodies
<1>2. k \in 1..Len(frames) /\ k \notin Bodies /\ kw(k) \notin callStack
  BY GuardEffect DEF Guards, Top, Bodies
<1>3. /\ \A i \in 1..Len(frames) : frames'[i].node = frames[i].node
      /\ Bodies' = Bodies \cup {k}
  <2>1. frames[k].node.kind \in KeywordCallKinds
    BY DEF Guards, Top, IsCall
  <2> QED BY <2>1, <1>2, GuardEffect DEF Bodies
<1>4. Bodies \subseteq 1..Len(frames)
  BY DEF Bodies
<1>5. callStack' = {frames'[i].node.kw : i \in Bodies'}
  <2>1. callStack' = callStack \cup {kw(k)}
    BY DEF Guards, Top
  <2>2. \A i \in Bodies' : frames'[i].node.kw = kw(i)
    BY <1>2, <1>3, <1>4
  <2> QED BY <1>1, <1>3, <2>1, <2>2
<1>6. \A i, j \in Bodies' : frames'[i].node.kw = frames'[j].node.kw => i = j
  <2>1. ASSUME NEW i \in Bodies', NEW j \in Bodies', frames'[i].node.kw = frames'[j].node.kw
        PROVE  i = j
    <3>1. kw(i) = kw(j)
      BY <1>2, <1>3, <1>4, <2>1
    <3> QED BY <1>1, <1>2, <1>3, <2>1, <3>1
  <2> QED BY <2>1
<1> QED BY <1>5, <1>6 DEF RecursionGuard, Bodies

LEMMA GoesGuard ==
  ASSUME StackTypes, RecursionGuard, NEW exception, Goes(exception)
  PROVE  RecursionGuard'
<1> DEFINE k == Len(frames)
           kw(i) == frames[i].node.kw
<1>1. /\ callStack = {kw(i) : i \in Bodies}
      /\ \A i, j \in Bodies : kw(i) = kw(j) => i = j
  BY DEF RecursionGuard, Bodies
<1>2. /\ k \in Nat \ {0} /\ k \in 1..k /\ Top = frames[k] /\ Top.node \in Nodes
  BY TopFacts DEF Goes
<1>3. /\ Len(frames') = k - 1
      /\ \A i \in 1..(k - 1) : frames'[i] = frames[i]
  BY GoEffect DEF Cut
<1>4. Bodies' = Bodies \ {k} /\ \A i \in Bodies' : frames'[i].node.kw = kw(i)
  <2>1. 1..Len(frames') = (1..k) \ {k}
    BY <1>2, <1>3
  <2> QED BY <1>2, <1>3, <2>1 DEF Bodies
<1>5. callStack' = IF Top.entered THEN callStack \ {kw(k)} ELSE callStack
  BY <1>2 DEF Goes, Leave, RestoreCallStack
<1>6. callStack' = {kw(i) : i \in Bodies \ {k}}
  <2>1. CASE k \in Bodies
    BY <1>1, <1>2, <1>5, <2>1 DEF Bodies
  <2>2. CASE k \notin Bodies /\ ~Top.entered
    BY <1>1, <1>5, <2>2
  <2>3. CASE k \notin Bodies /\ Top.entered
    <3>1. Top.node.kw = "none"
      <4>1. Top.node.kind \notin KeywordCallKinds
        BY <1>2, <2>3 DEF Bodies
      <4> QED BY <1>2, <4>1 DEF Nodes, StatementNodes, StartNode, StatementsNode, TeardownNode
    <3>2. kw(k) \notin callStack
      BY <1>2, <3>1, ExecutorAssumption DEF StackTypes
    <3> QED BY <1>1, <1>5, <2>3, <3>2
  <2> QED BY <2>1, <2>2, <2>3
<1>7. callStack' = {frames'[i].node.kw : i \in Bodies'}
  BY <1>4, <1>6
<1>8. \A i, j \in Bodies' : frames'[i].node.kw = frames'[j].node.kw => i = j
  BY <1>1, <1>4
<1> QED BY <1>7, <1>8 DEF RecursionGuard, Bodies

LEMMA GuardStep ==
  ASSUME StackTypes, RecursionGuard, Moves
  PROVE  RecursionGuard'
<1>1. CASE Rests
  BY <1>1, ReframedGuard DEF Rests
<1>2. CASE Guards
  BY <1>2, GuardsGuard
<1>3. CASE Answers
  <2>1. CASE UNCHANGED frames
    BY <1>3, <2>1, AnswerEffect, SameFrames, ReframedGuard
  <2>2. CASE Grown(pending)
    BY <1>3, <2>2, AnswerEffect, GrownGuard
  <2> QED BY <1>3, <2>1, <2>2, AnswerEffect
<1>4. ASSUME NEW node \in Nodes, Takes(node) PROVE RecursionGuard'
  <2>1. UNCHANGED callStack
    BY <1>4 DEF Takes
  <2> QED BY <1>4, <2>1, TakeEffect, GrownGuard, ReframedGuard
<1>5. ASSUME NEW exception \in Exceptions, Goes(exception) PROVE RecursionGuard'
  BY <1>5, GoesGuard
<1> QED BY <1>1, <1>2, <1>3, <1>4, <1>5 DEF Moves

-----------------------------------------------------------------------------
(* Open nodes: how many of the first activations have a line.              *)
LEMMA CountOne ==
  ASSUME NEW n \in Nat, NEW S, S \subseteq 1..(n + 1)
  PROVE  /\ Cardinality(S) \in Nat /\ Cardinality(S \ {n + 1}) \in Nat
         /\ Cardinality(S) = Cardinality(S \ {n + 1}) + (IF n + 1 \in S THEN 1 ELSE 0)
         /\ S \ {n + 1} = S \cap (1..n)
<1>1. IsFiniteSet(1..(n + 1))
  BY FS_Interval
<1>2. IsFiniteSet(S)
  BY <1>1, FS_Subset
<1>3. /\ IsFiniteSet(S \ {n + 1})
      /\ Cardinality(S \ {n + 1}) = IF n + 1 \in S THEN Cardinality(S) - 1 ELSE Cardinality(S)
  BY <1>2, FS_RemoveElement
<1>4. Cardinality(S) \in Nat /\ Cardinality(S \ {n + 1}) \in Nat
  BY <1>2, <1>3, FS_CardinalityType
<1>5. S \ {n + 1} = S \cap (1..n)
  <2>1. \A x \in 1..(n + 1) : x # n + 1 <=> x \in 1..n
    OBVIOUS
  <2> QED BY <2>1
<1> QED BY <1>3, <1>4, <1>5

LEMMA CountLines ==
  ASSUME NEW f, NEW n \in Nat
  PROVE  /\ Cardinality({j \in 1..n : HasLine(f[j])}) \in Nat
         /\ Cardinality({j \in 1..(n + 1) : HasLine(f[j])})
              = Cardinality({j \in 1..n : HasLine(f[j])}) + (IF HasLine(f[n + 1]) THEN 1 ELSE 0)
<1> DEFINE S(m) == {j \in 1..m : HasLine(f[j])}
<1>1. S(n + 1) \subseteq 1..(n + 1) /\ S(n + 1) \cap (1..n) = S(n)
  OBVIOUS
<1>2. n + 1 \in S(n + 1) <=> HasLine(f[n + 1])
  OBVIOUS
<1> HIDE DEF S
<1>3. /\ Cardinality(S(n)) \in Nat
      /\ Cardinality(S(n + 1)) = Cardinality(S(n)) + (IF HasLine(f[n + 1]) THEN 1 ELSE 0)
  BY <1>1, <1>2, CountOne
<1> QED BY <1>3 DEF S

LEMMA OpenCount ==
  ASSUME NEW n \in Nat
  PROVE  /\ OpenUpTo(n) \in Nat
         /\ OpenUpTo(n + 1) = OpenUpTo(n) + (IF HasLine(frames[n + 1]) THEN 1 ELSE 0)
  BY CountLines DEF OpenUpTo

LEMMA OpenCountNext ==
  ASSUME NEW n \in Nat
  PROVE  /\ OpenUpTo(n)' \in Nat
         /\ OpenUpTo(n + 1)' = OpenUpTo(n)' + (IF HasLine(frames'[n + 1]) THEN 1 ELSE 0)
  BY CountLines DEF OpenUpTo

LEMMA NoneOpen == OpenUpTo(0) = 0
<1>1. {j \in 1..0 : HasLine(frames[j])} = {}
  OBVIOUS
<1> QED BY <1>1, FS_EmptySet DEF OpenUpTo

LEMMA OpenMonotone ==
  ASSUME NEW m \in Nat, NEW n \in Nat, m <= n
  PROVE  OpenUpTo(m) <= OpenUpTo(n)
<1>1. {j \in 1..m : HasLine(frames[j])} \subseteq {j \in 1..n : HasLine(frames[j])}
  OBVIOUS
<1>2. IsFiniteSet({j \in 1..n : HasLine(frames[j])})
  <2>1. IsFiniteSet(1..n)
    BY FS_Interval
  <2>2. {j \in 1..n : HasLine(frames[j])} \in SUBSET (1..n)
    OBVIOUS
  <2> QED BY <2>1, <2>2, FS_Subset
<1> QED BY <1>1, <1>2, FS_Subset DEF OpenUpTo

(* The rank of an open node: between 1 and the number of open nodes.       *)
LEMMA OpenRank ==
  ASSUME NEW n \in Nat, NEW i \in 1..n, HasLine(frames[i])
  PROVE  OpenUpTo(i) \in 1..OpenUpTo(n)
<1>1. i - 1 \in Nat /\ i \in Nat /\ i <= n
  OBVIOUS
<1>2. OpenUpTo((i - 1) + 1) = OpenUpTo(i - 1) + 1 /\ OpenUpTo(i - 1) \in Nat
  <2>1. (i - 1) + 1 = i
    OBVIOUS
  <2> QED BY <1>1, <2>1, OpenCount
<1>3. (i - 1) + 1 = i
  OBVIOUS
<1>4. OpenUpTo(i) <= OpenUpTo(n) /\ OpenUpTo(i) \in Nat /\ OpenUpTo(n) \in Nat
  BY <1>1, OpenMonotone, OpenCount
<1> QED BY <1>2, <1>3, <1>4

LEMMA SameOpen ==
  ASSUME NEW n \in Nat, \A i \in 1..n : frames'[i].node = frames[i].node
  PROVE  \A i \in 0..n : OpenUpTo(i)' = OpenUpTo(i)
<1>1. ASSUME NEW i \in 0..n PROVE OpenUpTo(i)' = OpenUpTo(i)
  <2>1. {j \in 1..i : HasLine(frames'[j])} = {j \in 1..i : HasLine(frames[j])}
    BY DEF HasLine
  <2> QED BY <2>1 DEF OpenUpTo
<1> QED BY <1>1

(* "OpenUpTo(Len(frames))", the number of open nodes, after a step.        *)
Open == OpenUpTo(Len(frames))

LEMMA NextOpen ==
  ASSUME NEW n, n = Len(frames')
  PROVE  Open' = OpenUpTo(n)'
  BY DEF Open, OpenUpTo

LEMMA GrownOpen ==
  ASSUME StackTypes, NEW node, Grown(node)
  PROVE  /\ \A i \in 0..Len(frames) : OpenUpTo(i)' = OpenUpTo(i)
         /\ Open \in Nat
         /\ Open' = Open + (IF node.line # 0 THEN 1 ELSE 0)
<1>1. PICK n \in Nat : n = Len(frames)
  BY DEF StackTypes
<1>2. Len(frames') = n + 1 /\ frames'[n + 1].node = node
  BY <1>1 DEF Grown
<1>3. \A i \in 0..n : OpenUpTo(i)' = OpenUpTo(i)
  BY <1>1, SameOpen DEF Grown
<1>4. Open' = OpenUpTo(n + 1)'
  BY <1>2, NextOpen
<1>5. OpenUpTo(n + 1)' = OpenUpTo(n)' + (IF HasLine(frames'[n + 1]) THEN 1 ELSE 0)
  BY OpenCountNext
<1>6. Open = OpenUpTo(n) /\ OpenUpTo(n) \in Nat /\ OpenUpTo(n)' = OpenUpTo(n)
  BY <1>1, <1>3, OpenCount DEF Open
<1> QED BY <1>1, <1>2, <1>3, <1>4, <1>5, <1>6 DEF HasLine

LEMMA ReframedOpen ==
  ASSUME StackTypes, Reframed(frames')
  PROVE  /\ \A i \in 0..Len(frames) : OpenUpTo(i)' = OpenUpTo(i)
         /\ Open \in Nat /\ Open' = Open
<1>1. PICK n \in Nat : n = Len(frames)
  BY DEF StackTypes
<1>2. Len(frames') = n
  BY <1>1 DEF Reframed
<1>3. \A i \in 0..n : OpenUpTo(i)' = OpenUpTo(i)
  BY <1>1, SameOpen DEF Reframed
<1>4. Open' = OpenUpTo(n)'
  BY <1>2, NextOpen
<1> QED BY <1>1, <1>3, <1>4, OpenCount DEF Open

LEMMA CutOpen ==
  ASSUME StackTypes, frames # <<>>, Cut
  PROVE  /\ \A i \in 0..Len(frames') : OpenUpTo(i)' = OpenUpTo(i)
         /\ Open \in Nat /\ Open' \in Nat
         /\ Open' = Open - (IF HasLine(Top) THEN 1 ELSE 0)
         /\ HasLine(Top) => Open > 0
<1>1. Len(frames) \in Nat \ {0} /\ Top = frames[Len(frames)]
  BY TopFacts
<1>2. PICK n \in Nat : n + 1 = Len(frames)
  <2>1. Len(frames) - 1 \in Nat /\ (Len(frames) - 1) + 1 = Len(frames)
    BY <1>1
  <2> QED BY <2>1
<1>3. Len(frames') = n
  BY <1>2 DEF Cut
<1>4. \A i \in 0..n : OpenUpTo(i)' = OpenUpTo(i)
  BY <1>3, SameOpen DEF Cut
<1>5. Open' = OpenUpTo(n)'
  BY <1>3, NextOpen
<1>6. /\ Open = OpenUpTo(n + 1) /\ OpenUpTo(n) \in Nat /\ OpenUpTo(n)' = OpenUpTo(n)
      /\ OpenUpTo(n + 1) = OpenUpTo(n) + (IF HasLine(frames[n + 1]) THEN 1 ELSE 0)
  <2>1. Open = OpenUpTo(n + 1)
    BY <1>2 DEF Open
  <2>2. OpenUpTo(n)' = OpenUpTo(n)
    BY <1>4
  <2> QED BY <2>1, <2>2, OpenCount
<1> QED BY <1>1, <1>2, <1>3, <1>4, <1>5, <1>6

(* The node stack is the path of open nodes.                               *)
LEMMA ReframedPath ==
  ASSUME StackTypes, NodeStackIsPath, Reframed(frames'), UNCHANGED nodeStack
  PROVE  NodeStackIsPath'
<1>1. Len(nodeStack') = Open'
  BY ReframedOpen DEF NodeStackIsPath, Open
<1>2. ASSUME NEW i \in 1..Len(frames'), HasLine(frames'[i])
      PROVE  nodeStack'[OpenUpTo(i)'] = frames'[i].node.line
  <2>1. i \in 1..Len(frames) /\ i \in 0..Len(frames) /\ frames'[i].node = frames[i].node
    BY DEF Reframed
  <2>2. OpenUpTo(i)' = OpenUpTo(i) /\ HasLine(frames[i])
    BY <1>2, <2>1, ReframedOpen DEF HasLine
  <2> QED BY <2>1, <2>2 DEF NodeStackIsPath
<1> QED BY <1>1, <1>2 DEF NodeStackIsPath, Open

LEMMA GrownPath ==
  ASSUME StackTypes, NodeStackIsPath, NEW node \in Nodes, Grown(node)
  PROVE  NodeStackIsPath'
<1>1. node.line # 0 => node.line \in Lines
  BY NodeKinds
<1>2. /\ Len(nodeStack) = Open /\ Open \in Nat
      /\ Open' = Open + (IF node.line # 0 THEN 1 ELSE 0)
      /\ \A i \in 0..Len(frames) : OpenUpTo(i)' = OpenUpTo(i)
  BY GrownOpen DEF NodeStackIsPath, Open
<1>3. /\ Len(nodeStack') = Open'
      /\ \A r \in 1..Open : nodeStack'[r] = nodeStack[r]
      /\ node.line # 0 => nodeStack'[Open'] = node.line
  <2>1. CASE node.line = 0
    BY <1>2, <2>1 DEF Grown
  <2>2. CASE node.line # 0
    BY <1>1, <1>2, <2>2, AppendFacts DEF Grown, StackTypes
  <2> QED BY <2>1, <2>2
<1>4. ASSUME NEW i \in 1..Len(frames'), HasLine(frames'[i])
      PROVE  nodeStack'[OpenUpTo(i)'] = frames'[i].node.line
  <2>1. Len(frames) \in Nat /\ Len(frames') = Len(frames) + 1
    BY DEF StackTypes, Grown
  <2>2. CASE i \in 1..Len(frames)
    <3>1. frames'[i].node = frames[i].node /\ HasLine(frames[i]) /\ i \in 0..Len(frames)
      BY <1>4, <2>2 DEF Grown, HasLine
    <3>2. OpenUpTo(i) \in 1..Open /\ nodeStack[OpenUpTo(i)] = frames[i].node.line
      BY <2>1, <2>2, <3>1, OpenRank DEF NodeStackIsPath, Open
    <3> QED BY <1>2, <1>3, <3>1, <3>2
  <2>3. CASE i = Len(frames')
    <3>1. Open' = OpenUpTo(i)'
      BY <2>3, NextOpen
    <3>2. frames'[i].node = node
      BY <2>1, <2>3 DEF Grown
    <3> QED BY <1>3, <1>4, <3>1, <3>2 DEF HasLine
  <2> QED BY <2>1, <2>2, <2>3
<1> QED BY <1>3, <1>4 DEF NodeStackIsPath, Open

LEMMA GoesPath ==
  ASSUME StackTypes, NodeStackIsPath, NEW exception, Goes(exception)
  PROVE  NodeStackIsPath'
<1>1. frames # <<>> /\ Cut /\ Top = frames[Len(frames)] /\ Len(frames) \in Nat \ {0}
  BY GoEffect, TopFacts DEF Goes
<1>2. /\ Len(nodeStack) = Open /\ Open \in Nat /\ Open' \in Nat
      /\ Open' = Open - (IF HasLine(Top) THEN 1 ELSE 0)
      /\ \A i \in 0..Len(frames') : OpenUpTo(i)' = OpenUpTo(i)
      /\ HasLine(Top) => Open > 0
  BY <1>1, CutOpen DEF NodeStackIsPath, Open
<1>3. Len(nodeStack') = Open' /\ \A r \in 1..Open' : nodeStack'[r] = nodeStack[r]
  <2>1. nodeStack' = IF HasLine(Top) THEN SubSeq(nodeStack, 1, Len(nodeStack) - 1) ELSE nodeStack
    BY DEF Goes, Leave, PopNode, HasLine
  <2>2. CASE HasLine(Top)
    <3>1. nodeStack # <<>> /\ nodeStack \in Seq(Lines)
      BY <1>2, <2>2 DEF StackTypes
    <3> QED BY <1>2, <2>1, <2>2, <3>1, FrontFacts
  <2>3. CASE ~HasLine(Top)
    BY <1>2, <2>1, <2>3
  <2> QED BY <2>2, <2>3
<1>4. ASSUME NEW i \in 1..Len(frames'), HasLine(frames'[i])
      PROVE  nodeStack'[OpenUpTo(i)'] = frames'[i].node.line
  <2>1. frames'[i] = frames[i] /\ i \in 1..Len(frames) /\ i \in 0..Len(frames')
    BY <1>1 DEF Cut
  <2>2. PICK n \in Nat : n = Len(frames')
    BY <1>1 DEF Cut
  <2>3. OpenUpTo(i) \in 1..OpenUpTo(n)
    BY <1>4, <2>1, <2>2, OpenRank
  <2>4. OpenUpTo(n)' = OpenUpTo(n) /\ OpenUpTo(n)' = Open' /\ OpenUpTo(i)' = OpenUpTo(i)
    BY <1>2, <2>1, <2>2, NextOpen
  <2>5. nodeStack[OpenUpTo(i)] = frames[i].node.line
    BY <1>4, <2>1 DEF NodeStackIsPath
  <2> QED BY <1>3, <2>1, <2>3, <2>4, <2>5
<1> QED BY <1>3, <1>4 DEF NodeStackIsPath, Open

LEMMA PathStep ==
  ASSUME StackTypes, NodeStackIsPath, Moves
  PROVE  NodeStackIsPath'
<1>1. CASE Rests
  BY <1>1, ReframedPath DEF Rests
<1>2. CASE Guards
  <2>1. /\ Len(frames') = Len(frames) /\ UNCHANGED nodeStack
        /\ \A i \in 1..Len(frames) : frames'[i].node = frames[i].node
    BY <1>2, GuardEffect DEF Guards
  <2>2. PICK n \in Nat : n = Len(frames)
    BY DEF StackTypes
  <2>3. /\ \A i \in 0..n : OpenUpTo(i)' = OpenUpTo(i)
        /\ Open' = OpenUpTo(n)' /\ Open = OpenUpTo(n)
    BY <2>1, <2>2, SameOpen, NextOpen DEF Open
  <2>4. Len(nodeStack') = Open'
    BY <2>1, <2>2, <2>3 DEF NodeStackIsPath, Open
  <2>5. ASSUME NEW i \in 1..Len(frames'), HasLine(frames'[i])
        PROVE  nodeStack'[OpenUpTo(i)'] = frames'[i].node.line
    BY <2>1, <2>2, <2>3, <2>5 DEF NodeStackIsPath, HasLine
  <2> QED BY <2>4, <2>5 DEF NodeStackIsPath, Open
<1>3. CASE Answers
  <2>1. CASE UNCHANGED <<frames, nodeStack>>
    BY <2>1, SameFrames, ReframedPath
  <2>2. CASE Grown(pending)
    BY <1>3, <2>2, AnswerEffect, NodeKinds, GrownPath
  <2> QED BY <1>3, <2>1, <2>2, AnswerEffect
<1>4. ASSUME NEW node \in Nodes, Takes(node) PROVE NodeStackIsPath'
  BY <1>4, TakeEffect, GrownPath, ReframedPath
<1>5. ASSUME NEW exception \in Exceptions, Goes(exception) PROVE NodeStackIsPath'
  BY <1>5, GoesPath
<1> QED BY <1>1, <1>2, <1>3, <1>4, <1>5 DEF Moves

-----------------------------------------------------------------------------
(* The steps of the tracker and the open nodes.  After an interrupt the    *)
(* stack keeps steps that nobody finishes; the nodes opened since then,    *)
(* those of the teardown, still have their steps on top of them.           *)
Held == IF pending = NoNode THEN 0 ELSE 1
Stale == Len(stepStack) - (Open + Held)

MirrorInv ==
  /\ Stale >= 0
  /\ ~Interrupted => Stale = 0
  /\ raised # "interrupt" =>
       /\ \A i \in 1..Len(frames) :
            HasLine(frames[i]) /\ (i > 1 \/ ~Interrupted) =>
              StepOf(stepStack[Stale + OpenUpTo(i)], frames[i].node)
       /\ pending # NoNode => StepOf(stepStack[Len(stepStack)], pending)

LEMMA MirrorGives == ASSUME StackTypes, MirrorInv PROVE StepsMirrorPath
<1>1. SUFFICES ASSUME ~Interrupted PROVE StepsMirrorPath
  BY DEF StepsMirrorPath
<1>2. raised # "interrupt"
  BY <1>1 DEF Interrupted
<1>3. Len(stepStack) \in Nat /\ Open \in Nat
  <2>1. Len(frames) \in Nat /\ Len(stepStack) \in Nat
    BY DEF StackTypes
  <2> QED BY <2>1, OpenCount DEF Open
<1>4. Stale = 0 /\ Len(stepStack) = Open + Held
  BY <1>1, <1>3 DEF MirrorInv, Stale, Held
<1>5. ASSUME NEW i \in 1..Len(frames), HasLine(frames[i])
      PROVE  StepOf(stepStack[OpenUpTo(i)], frames[i].node)
  <2>1. OpenUpTo(i) \in Nat
    BY OpenCount
  <2> QED BY <1>1, <1>2, <1>4, <1>5, <2>1 DEF MirrorInv
<1> QED BY <1>1, <1>2, <1>4, <1>5 DEF MirrorInv, StepsMirrorPath, Held, Open

(* The frames keep their nodes, and the steps stay.                        *)
LEMMA UnchangedMirror ==
  ASSUME StackTypes, StageInv, MirrorInv, Interrupted => Interrupted',
         Len(frames') = Len(frames), \A i \in 1..Len(frames) : frames'[i].node = frames[i].node,
         UNCHANGED <<pending, stepStack>>,
         raised = "interrupt" => raised' = raised \/ Len(frames) <= 1
  PROVE  MirrorInv'
<1>1. PICK n \in Nat : n = Len(frames)
  BY DEF StackTypes
<1>2. \A i \in 0..n : OpenUpTo(i)' = OpenUpTo(i)
  BY <1>1, SameOpen
<1>3. Open' = Open /\ Held' = Held
  BY <1>1, <1>2, NextOpen DEF Open, Held
<1>4. Stale' = Stale
  BY <1>3 DEF Stale
<1>5. (Interrupted /\ raised = "interrupt") \/ raised # "interrupt"
  BY DEF Interrupted
<1>6. ASSUME raised' # "interrupt", NEW i \in 1..Len(frames'), HasLine(frames'[i]),
             i > 1 \/ ~Interrupted'
      PROVE  StepOf(stepStack'[Stale' + OpenUpTo(i)'], frames'[i].node)
  <2>1. raised # "interrupt"
    BY <1>1, <1>5, <1>6
  <2>2. frames'[i].node = frames[i].node /\ HasLine(frames[i]) /\ i \in 0..n /\ i \in 1..Len(frames)
    BY <1>1, <1>6 DEF HasLine
  <2> QED BY <1>2, <1>4, <1>6, <2>1, <2>2 DEF MirrorInv
<1>7. raised' # "interrupt" /\ pending' # NoNode => StepOf(stepStack'[Len(stepStack')], pending')
  BY DEF MirrorInv, StageInv
<1> QED BY <1>4, <1>6, <1>7 DEF MirrorInv

LEMMA TakenStep ==
  ASSUME TrackerInv, NEW node, Takes(node)
  PROVE  /\ node \in Nodes
         /\ node.line = 0 => UNCHANGED <<stepStack, currentStep>>
         /\ node.line # 0 =>
              \E step \in Steps : stepStack' = Append(stepStack, step) /\ StepOf(step, node)
<1>1. node \in Nodes /\ \E stack : Dispatch(node, stack)
  BY DEF Takes
<1>2. node.line = 0 => UNCHANGED <<stepStack, currentStep>>
  BY <1>1 DEF Dispatch, trackerVars
<1>3. CASE node.line # 0
  <2>1. stepStack' = Append(stepStack, NewStep(node.kind, node.line))
    BY <1>1, <1>3 DEF Dispatch, StartStep
  <2>2. StepOf(NewStep(node.kind, node.line), node)
    BY DEF StepOf, NewStep
  <2> QED BY <1>1, <1>2, <2>1, <2>2, NewStepType
<1> QED BY <1>1, <1>2, <1>3

LEMMA OpenIsNat ==
  ASSUME StackTypes
  PROVE  /\ Len(frames) \in Nat /\ Len(stepStack) \in Nat
         /\ Open \in Nat /\ Held \in {0, 1} /\ Stale \in Int
         /\ Len(stepStack) = Stale + Open + Held
         /\ \A i \in 1..Len(frames) : HasLine(frames[i]) => OpenUpTo(i) \in 1..Open
<1>1. Len(frames) \in Nat /\ Len(stepStack) \in Nat
  BY DEF StackTypes
<1>2. Open \in Nat
  BY <1>1, OpenCount DEF Open
<1>3. \A i \in 1..Len(frames) : HasLine(frames[i]) => OpenUpTo(i) \in 1..Open
  BY <1>1, OpenRank DEF Open
<1> QED BY <1>1, <1>2, <1>3 DEF Held, Stale

LEMMA TakesMirror ==
  ASSUME StackTypes, TrackerInv, StageInv, MirrorInv, Interrupted => Interrupted',
         StackTypes', NEW node, Takes(node)
  PROVE  MirrorInv'
<1>1. /\ node \in Nodes /\ pending = NoNode /\ Held = 0 /\ raised' = "none"
      /\ raised = "interrupt" => Interrupted' /\ Len(frames) = 1 /\ node.line = 0
  BY TakenStep DEF Takes, Held, Interrupted, TeardownNode
<1>2. \/ Grown(node) /\ Held' = 0
      \/ Reframed(frames') /\ pending' = node /\ node.line # 0 /\ Held' = 1
  <2>1. node # NoNode
    BY <1>1, NodeKinds
  <2> QED BY <2>1, TakeEffect DEF Held, Grown
<1>3. /\ Len(frames) \in Nat /\ Len(stepStack) \in Nat /\ Open \in Nat
      /\ Stale \in Int /\ Len(stepStack) = Stale + Open
      /\ \A i \in 1..Len(frames) : HasLine(frames[i]) => OpenUpTo(i) \in 1..Open
  BY <1>1, OpenIsNat
<1>4. /\ \A i \in 0..Len(frames) : OpenUpTo(i)' = OpenUpTo(i)
      /\ Open' + Held' = Open + (IF node.line # 0 THEN 1 ELSE 0)
      /\ \A i \in 1..Len(frames) : frames'[i].node = frames[i].node
  <2>1. CASE Grown(node) /\ Held' = 0
    BY <2>1, <1>3, GrownOpen DEF Grown
  <2>2. CASE Reframed(frames') /\ node.line # 0 /\ Held' = 1
    BY <2>2, <1>3, ReframedOpen DEF Reframed
  <2> QED BY <1>2, <2>1, <2>2
<1>5. /\ Len(stepStack') = Len(stepStack) + (IF node.line # 0 THEN 1 ELSE 0)
      /\ \A r \in 1..Len(stepStack) : stepStack'[r] = stepStack[r]
      /\ node.line # 0 => StepOf(stepStack'[Len(stepStack')], node)
  <2>1. CASE node.line = 0
    BY <1>3, <2>1, TakenStep
  <2>2. CASE node.line # 0
    <3>1. PICK step \in Steps : stepStack' = Append(stepStack, step) /\ StepOf(step, node)
      BY <2>2, TakenStep
    <3> QED BY <2>2, <3>1, AppendFacts DEF StackTypes
  <2> QED BY <2>1, <2>2
<1>6. Stale' = Stale
  BY <1>3, <1>4, <1>5, OpenIsNat DEF Stale
<1>7. ASSUME NEW i \in 1..Len(frames'), HasLine(frames'[i]), i > 1 \/ ~Interrupted'
      PROVE  StepOf(stepStack'[Stale' + OpenUpTo(i)'], frames'[i].node)
  <2>1. CASE i \in 1..Len(frames)
    <3>1. HasLine(frames[i]) /\ frames'[i].node = frames[i].node /\ OpenUpTo(i)' = OpenUpTo(i)
      BY <1>3, <1>4, <1>7, <2>1 DEF HasLine
    <3>2. raised # "interrupt" /\ (i > 1 \/ ~Interrupted)
      <4>1. Len(frames) = 1 => ~(i > 1)
        BY <2>1
      <4> QED BY <1>1, <1>7, <4>1
    <3>3. StepOf(stepStack[Stale + OpenUpTo(i)], frames[i].node)
      BY <2>1, <3>1, <3>2 DEF MirrorInv
    <3>4. Stale + OpenUpTo(i) \in 1..Len(stepStack)
      <4>1. Stale >= 0 /\ OpenUpTo(i) \in 1..Open
        BY <1>3, <2>1, <3>1 DEF MirrorInv
      <4> QED BY <1>3, <4>1
    <3> QED BY <1>5, <1>6, <3>1, <3>3, <3>4
  <2>2. CASE i \notin 1..Len(frames)
    <3>1. Grown(node) /\ Held' = 0 /\ i = Len(frames) + 1 /\ i = Len(frames')
      <4>1. ~Reframed(frames')
        BY <1>7, <2>2 DEF Reframed
      <4> QED BY <1>2, <1>3, <1>7, <2>2, <4>1 DEF Grown
    <3>2. frames'[i].node = node /\ node.line # 0
      BY <1>7, <3>1 DEF Grown, HasLine
    <3>3. Open' = OpenUpTo(i)'
      BY <3>1, NextOpen
    <3>4. Stale' + OpenUpTo(i)' = Len(stepStack')
      <4>1. Open' = Open + 1
        BY <3>1, <3>2, GrownOpen
      <4> QED BY <1>3, <1>5, <1>6, <3>2, <3>3, <4>1
    <3> QED BY <1>5, <3>2, <3>4
  <2> QED BY <2>1, <2>2
<1>8. raised' # "interrupt" /\ pending' # NoNode => StepOf(stepStack'[Len(stepStack')], pending')
  BY <1>1, <1>2, <1>5 DEF Grown
<1> QED BY <1>6, <1>7, <1>8 DEF MirrorInv

(* What FinishStep leaves of the stack of steps.                           *)
LEMMA FinishedStep ==
  ASSUME StackTypes, NEW exception, Leave(exception), frames # <<>>
  PROVE  \/ /\ exception # "interrupt" /\ HasLine(Top) /\ stepStack # <<>>
            /\ Len(stepStack') = Len(stepStack) - 1
            /\ \A r \in 1..Len(stepStack') : stepStack'[r] = stepStack[r]
         \/ /\ exception = "interrupt" \/ ~HasLine(Top) \/ stepStack = <<>>
            /\ UNCHANGED <<stepStack, currentStep, callDepth>>
<1>1. CASE exception # "interrupt" /\ HasLine(Top) /\ stepStack # <<>>
  <2>1. stepStack' = SubSeq(stepStack, 1, Len(stepStack) - 1)
    BY <1>1 DEF Leave, FinishStep, FinishCurrentStep, PopStep, HasLine
  <2> QED BY <1>1, <2>1, FrontFacts DEF StackTypes
<1>2. CASE ~(exception # "interrupt" /\ HasLine(Top) /\ stepStack # <<>>)
  BY <1>2 DEF Leave, FinishStep, HasLine, trackerVars, debuggerVars
<1> QED BY <1>1, <1>2

LEMMA GoesMirror ==
  ASSUME StackTypes, MirrorInv, Interrupted => Interrupted',
         StackTypes', NEW exception, Goes(exception)
  PROVE  MirrorInv'
<1>1. /\ frames # <<>> /\ Leave(exception) /\ Cut /\ pending = NoNode /\ pending' = NoNode
      /\ raised' = exception
      /\ raised = "interrupt" => exception = "interrupt"
  BY GoEffect DEF Goes, Leave
<1>2. Held = 0 /\ Held' = 0
  BY <1>1 DEF Held
<1>3. /\ Len(frames) \in Nat /\ Len(stepStack) \in Nat /\ Open \in Nat
      /\ Stale \in Int /\ Len(stepStack) = Stale + Open /\ Stale >= 0
  BY <1>2, OpenIsNat DEF MirrorInv
<1>4. /\ \A i \in 0..Len(frames') : OpenUpTo(i)' = OpenUpTo(i)
      /\ Open' \in Nat /\ Open' = Open - (IF HasLine(Top) THEN 1 ELSE 0)
      /\ HasLine(Top) => Open > 0
  BY <1>1, CutOpen
<1>5. CASE exception = "interrupt"
  <2>1. Len(stepStack') = Len(stepStack)
    BY <1>1, <1>5, FinishedStep
  <2>2. Stale' >= 0
    BY <1>2, <1>3, <1>4, <2>1 DEF Stale
  <2>3. Interrupted'
    BY <1>1, <1>5 DEF Interrupted
  <2> QED BY <1>1, <1>5, <2>2, <2>3 DEF MirrorInv
<1>6. CASE exception # "interrupt"
  <2>1. raised # "interrupt"
    BY <1>1, <1>6
  <2>2. HasLine(Top) => stepStack # <<>>
    BY <1>3, <1>4
  <2>3. /\ Len(stepStack') = Len(stepStack) - (IF HasLine(Top) THEN 1 ELSE 0)
        /\ \A r \in 1..Len(stepStack') : stepStack'[r] = stepStack[r]
    BY <1>1, <1>3, <1>6, <2>2, FinishedStep
  <2>4. Stale' = Stale
    <3>1. Stale' = Len(stepStack') - Open'
      BY <1>2, <1>4 DEF Stale
    <3>2. CASE HasLine(Top)
      BY <1>3, <1>4, <2>3, <3>1, <3>2
    <3>3. CASE ~HasLine(Top)
      BY <1>3, <1>4, <2>3, <3>1, <3>3
    <3> QED BY <3>2, <3>3
  <2>5. ASSUME NEW i \in 1..Len(frames'), HasLine(frames'[i]), i > 1 \/ ~Interrupted'
        PROVE  StepOf(stepStack'[Stale' + OpenUpTo(i)'], frames'[i].node)
    <3>1. frames'[i] = frames[i] /\ i \in 1..Len(frames) /\ OpenUpTo(i)' = OpenUpTo(i)
      BY <1>1, <1>4, <2>5 DEF Cut
    <3>2. StepOf(stepStack[Stale + OpenUpTo(i)], frames[i].node)
      BY <2>1, <2>5, <3>1 DEF MirrorInv
    <3>3. Stale + OpenUpTo(i) \in 1..Len(stepStack')
      <4>1. PICK n \in Nat : n = Len(frames')
        BY DEF StackTypes
      <4>2. OpenUpTo(i) \in 1..OpenUpTo(n) /\ OpenUpTo(n) = Open'
        BY <1>4, <2>5, <3>1, <4>1, OpenRank, NextOpen
      <4> QED BY <1>3, <1>4, <2>3, <4>2
    <3> QED BY <2>3, <2>4, <3>1, <3>2, <3>3
  <2> QED BY <1>1, <1>3, <2>4, <2>5 DEF MirrorInv
<1> QED BY <1>5, <1>6

LEMMA AnswersMirror ==
  ASSUME StackTypes, StageInv, MirrorInv, Interrupted => Interrupted', Answers
  PROVE  MirrorInv'
<1>1. /\ pending # NoNode /\ pending \in Nodes /\ pending' = NoNode /\ pending.line # 0
      /\ UNCHANGED stepStack /\ raised = "none"
  <2>1. pending.line # 0
    BY AnswerEffect, ExecutorAssumption DEF StatementNodes, Lines
  <2> QED BY <2>1, AnswerEffect, NodeKinds DEF StageInv
<1>2. Held = 1 /\ Held' = 0
  BY <1>1 DEF Held
<1>3. /\ Len(frames) \in Nat /\ Len(stepStack) \in Nat /\ Open \in Nat
      /\ Stale \in Int /\ Len(stepStack) = Stale + Open + 1 /\ Stale >= 0
      /\ \A i \in 1..Len(frames) : HasLine(frames[i]) => OpenUpTo(i) \in 1..Open
  BY <1>2, OpenIsNat DEF MirrorInv
<1>4. CASE raised' = "interrupt" /\ UNCHANGED frames
  <2>1. Open' = Open
    BY <1>4, SameFrames, ReframedOpen
  <2>2. Stale' >= 0
    BY <1>1, <1>2, <1>3, <2>1 DEF Stale
  <2>3. Interrupted'
    BY <1>4 DEF Interrupted
  <2> QED BY <1>4, <2>2, <2>3 DEF MirrorInv
<1>5. CASE raised' = raised /\ Grown(pending)
  <2>1. /\ \A i \in 0..Len(frames) : OpenUpTo(i)' = OpenUpTo(i)
        /\ Open' = Open + 1
    BY <1>1, <1>5, GrownOpen
  <2>2. Stale' = Stale
    BY <1>1, <1>2, <1>3, <2>1 DEF Stale
  <2>3. ASSUME NEW i \in 1..Len(frames'), HasLine(frames'[i]), i > 1 \/ ~Interrupted'
        PROVE  StepOf(stepStack'[Stale' + OpenUpTo(i)'], frames'[i].node)
    <3>1. CASE i \in 1..Len(frames)
      <4>1. HasLine(frames[i]) /\ frames'[i].node = frames[i].node /\ OpenUpTo(i)' = OpenUpTo(i)
        <5>1. frames'[i].node = frames[i].node
          BY <1>5, <3>1 DEF Grown
        <5>2. i \in 0..Len(frames)
          BY <1>3, <3>1
        <5> QED BY <2>1, <2>3, <5>1, <5>2 DEF HasLine
      <4>2. StepOf(stepStack[Stale + OpenUpTo(i)], frames[i].node)
        BY <1>1, <2>3, <3>1, <4>1 DEF MirrorInv
      <4> QED BY <1>1, <2>2, <4>1, <4>2
    <3>2. CASE i \notin 1..Len(frames)
      <4>1. i = Len(frames') /\ frames'[i].node = pending
        BY <1>3, <1>5, <2>3, <3>2 DEF Grown
      <4>2. OpenUpTo(i)' = Open'
        BY <4>1, NextOpen
      <4>3. Stale' + OpenUpTo(i)' = Len(stepStack')
        BY <1>1, <1>3, <2>1, <2>2, <4>2
      <4> QED BY <1>1, <4>1, <4>3 DEF MirrorInv
    <3> QED BY <3>1, <3>2
  <2> QED BY <1>1, <2>2, <2>3 DEF MirrorInv
<1> QED BY <1>4, <1>5, AnswerEffect

LEMMA MirrorStep ==
  ASSUME StackTypes, TrackerInv, StageInv, MirrorInv, Interrupted => Interrupted',
         StackTypes', Moves
  PROVE  MirrorInv'
<1>1. CASE Rests
  <2>1. /\ Len(frames') = Len(frames) /\ \A i \in 1..Len(frames) : frames'[i].node = frames[i].node
        /\ UNCHANGED <<pending, stepStack>>
        /\ raised = "interrupt" => raised' = raised \/ Len(frames) <= 1
    BY <1>1 DEF Rests, Reframed
  <2> QED BY <2>1, UnchangedMirror
<1>2. CASE Guards
  <2>1. /\ Len(frames') = Len(frames) /\ \A i \in 1..Len(frames) : frames'[i].node = frames[i].node
        /\ UNCHANGED <<pending, stepStack, raised>>
    BY <1>2, GuardEffect DEF Guards, trackerVars
  <2> QED BY <2>1, UnchangedMirror
<1>3. CASE Answers
  BY <1>3, AnswersMirror
<1>4. ASSUME NEW node \in Nodes, Takes(node) PROVE MirrorInv'
  BY <1>4, TakesMirror
<1>5. ASSUME NEW exception \in Exceptions, Goes(exception) PROVE MirrorInv'
  BY <1>5, GoesMirror
<1> QED BY <1>1, <1>2, <1>3, <1>4, <1>5 DEF Moves

-----------------------------------------------------------------------------
(* The debugger's count.  It is exact until an interrupt, and never below  *)
(* the nesting: so the debugger never blocks inside a keyword.             *)
Nest == Cardinality(OpenCalls) + (IF IsCall(pending) THEN 1 ELSE 0)

NestInv ==
  DebuggerAttached =>
    /\ callDepth >= Nest
    /\ ~Interrupted => callDepth = Nest
    /\ StepsOverKeywords

LEMMA CallsFinite ==
  ASSUME StackTypes
  PROVE  IsFiniteSet(OpenCalls) /\ Cardinality(OpenCalls) \in Nat
<1>1. IsFiniteSet(1..Len(frames)) /\ OpenCalls \in SUBSET (1..Len(frames))
  BY FS_Interval DEF OpenCalls, StackTypes
<1> QED BY <1>1, FS_Subset, FS_CardinalityType

LEMMA NotHeld ==
  ~IsCall(NoNode)
  BY DEF IsCall, NoNode, KeywordCallKinds

LEMMA SameCalls ==
  ASSUME Len(frames') = Len(frames), \A i \in 1..Len(frames) : frames'[i].node = frames[i].node
  PROVE  OpenCalls' = OpenCalls
  BY DEF OpenCalls

LEMMA GrownCalls ==
  ASSUME StackTypes, NEW node, Grown(node)
  PROVE  Cardinality(OpenCalls') = Cardinality(OpenCalls) + (IF IsCall(node) THEN 1 ELSE 0)
<1>1. Len(frames) \in Nat /\ Len(frames') = Len(frames) + 1
  BY DEF StackTypes, Grown
<1>2. 1..Len(frames') = 1..Len(frames) \cup {Len(frames) + 1}
  BY <1>1
<1>3. OpenCalls' = IF IsCall(node) THEN OpenCalls \cup {Len(frames) + 1} ELSE OpenCalls
  BY <1>1, <1>2 DEF OpenCalls, Grown, IsCall
<1>4. Len(frames) + 1 \notin OpenCalls
  BY <1>1 DEF OpenCalls
<1> QED BY <1>3, <1>4, CallsFinite, FS_AddElement

LEMMA CutCalls ==
  ASSUME StackTypes, frames # <<>>, Cut
  PROVE  /\ Cardinality(OpenCalls') \in Nat
         /\ Cardinality(OpenCalls') = Cardinality(OpenCalls) - (IF IsCall(Top.node) THEN 1 ELSE 0)
<1>1. Len(frames) \in Nat \ {0} /\ Len(frames') = Len(frames) - 1 /\ Top = frames[Len(frames)]
  BY TopFacts DEF Cut
<1>2. 1..Len(frames') = (1..Len(frames)) \ {Len(frames)}
  BY <1>1
<1>3. OpenCalls' = OpenCalls \ {Len(frames)}
  BY <1>2 DEF OpenCalls, Cut
<1>4. Len(frames) \in OpenCalls <=> IsCall(Top.node)
  BY <1>1 DEF OpenCalls
<1>5. /\ IsFiniteSet(OpenCalls \ {Len(frames)})
      /\ Cardinality(OpenCalls \ {Len(frames)})
           = IF Len(frames) \in OpenCalls THEN Cardinality(OpenCalls) - 1 ELSE Cardinality(OpenCalls)
  BY CallsFinite, FS_RemoveElement
<1>6. Cardinality(OpenCalls \ {Len(frames)}) \in Nat
  BY <1>5, FS_CardinalityType
<1>7. Cardinality(OpenCalls) \in Nat
  BY CallsFinite
<1> QED BY <1>3, <1>4, <1>5, <1>6, <1>7

(* The start callback counts every call, and only calls.                   *)
LEMMA CountedCall ==
  ASSUME StackTypes, NEW node \in Nodes, NEW stack, Dispatch(node, stack),
         DebuggerAttached, PauseFromLine = 0
  PROVE  /\ callDepth' = callDepth + (IF IsCall(node) THEN 1 ELSE 0)
         /\ Pauses(NewStep(node.kind, node.line)) => callDepth = 0
<1> DEFINE step == NewStep(node.kind, node.line)
<1>1. step.kind = node.kind /\ step.line = node.line
  BY DEF NewStep
<1>2. node.line \in Nat /\ (node.line = 0 => ~IsCall(node))
  BY NodeKinds, ExecutorAssumption DEF Nodes, StatementNodes, StatementsNode, TeardownNode,
                                       StartNode, Lines, IsCall, KeywordCallKinds
<1>3. CASE node.line = 0
  BY <1>2, <1>3 DEF Dispatch, debuggerVars, StackTypes, Pauses, Announced
<1>4. CASE node.line # 0
  <2>1. OnStepStart(step)
    BY <1>4 DEF Dispatch
  <2>2. IsCall(node) => ~Ignored(step)
    BY <1>1, <1>2 DEF Ignored, IsCall, KeywordCallKinds, DebugStepKinds
  <2> HIDE DEF step
  <2>3. callDepth' = callDepth + (IF IsCall(node) THEN 1 ELSE 0)
    BY <1>1, <2>1, <2>2 DEF OnStepStart, CountCalls, IsCall, StackTypes
  <2> QED BY <2>3 DEF Pauses, Announced, step
<1> QED BY <1>3, <1>4

LEMMA TakesNest ==
  ASSUME StackTypes, StageInv, NestInv, Interrupted => Interrupted', PauseFromLine = 0,
         NEW node, Takes(node)
  PROVE  NestInv'
<1>1. SUFFICES ASSUME DebuggerAttached
               PROVE  callDepth' >= Nest' /\ (~Interrupted' => callDepth' = Nest') /\ StepsOverKeywords'
  BY DEF NestInv
<1>2. /\ node \in Nodes /\ pending = NoNode
      /\ callDepth' = callDepth + (IF IsCall(node) THEN 1 ELSE 0)
      /\ Pauses(NewStep(node.kind, node.line)) => callDepth = 0
  BY <1>1, CountedCall DEF Takes
<1>3. Nest = Cardinality(OpenCalls) /\ Nest \in Nat
  BY <1>2, NotHeld, CallsFinite DEF Nest
<1>4. CASE Grown(node)
  <2>1. Nest' = Nest + (IF IsCall(node) THEN 1 ELSE 0)
    BY <1>3, <1>4, GrownCalls, NotHeld DEF Nest, Grown
  <2>2. StepsOverKeywords'
    BY <1>4 DEF Grown, StepsOverKeywords
  <2> QED BY <1>1, <1>2, <1>3, <2>1, <2>2 DEF NestInv, StackTypes
<1>5. CASE Reframed(frames') /\ pending' = node /\ Pauses(NewStep(node.kind, node.line))
  <2>1. OpenCalls' = OpenCalls
    BY <1>5, SameCalls DEF Reframed
  <2>2. Nest' = Nest + (IF IsCall(node) THEN 1 ELSE 0)
    BY <1>3, <1>5, <2>1 DEF Nest
  <2>3. StepsOverKeywords'
    <3>1. Cardinality(OpenCalls) = 0
      BY <1>1, <1>2, <1>3, <1>5 DEF NestInv
    <3>2. OpenCalls = {}
      BY <3>1, CallsFinite, FS_EmptySet
    <3> QED BY <2>1, <3>2 DEF StepsOverKeywords
  <2> QED BY <1>1, <1>2, <1>3, <2>2, <2>3 DEF NestInv, StackTypes
<1> QED BY <1>4, <1>5, TakeEffect

(* The finish callback counts down for every call that is left.            *)
LEMMA GoesNest ==
  ASSUME StackTypes, StackTypes', StageInv, TrackerInv, MirrorInv, NestInv,
         Interrupted => Interrupted', NEW exception, Goes(exception)
  PROVE  NestInv'
<1>1. SUFFICES ASSUME DebuggerAttached
               PROVE  callDepth' >= Nest' /\ (~Interrupted' => callDepth' = Nest') /\ StepsOverKeywords'
  BY DEF NestInv
<1>2. /\ frames # <<>> /\ Leave(exception) /\ Cut /\ pending = NoNode /\ pending' = NoNode
      /\ raised' = exception
      /\ raised = "interrupt" => exception = "interrupt"
  BY GoEffect DEF Goes, Leave
<1>3. Nest = Cardinality(OpenCalls) /\ Nest \in Nat /\ Nest' = Cardinality(OpenCalls') /\ Nest' \in Nat
  BY <1>2, NotHeld, CallsFinite, CutCalls DEF Nest
<1>4. Nest' = Nest - (IF IsCall(Top.node) THEN 1 ELSE 0)
  BY <1>2, <1>3, CutCalls
<1>5. StepsOverKeywords'
  BY <1>2 DEF StepsOverKeywords
<1>6. callDepth \in Nat /\ callDepth' \in Nat /\ callDepth >= Nest /\ (~Interrupted => callDepth = Nest)
  BY <1>1 DEF StackTypes, NestInv
<1>7. CASE exception = "interrupt"
  <2>1. callDepth' = callDepth /\ Interrupted'
    BY <1>2, <1>7, FinishedStep DEF Interrupted
  <2> QED BY <1>3, <1>4, <1>5, <1>6, <2>1
<1>8. CASE exception # "interrupt" /\ ~HasLine(Top)
  <2>1. callDepth' = callDepth
    BY <1>2, <1>8, FinishedStep
  <2>2. ~IsCall(Top.node)
    BY <1>2, <1>8, TopFacts, NodeKinds DEF HasLine, IsCall, KeywordCallKinds
  <2> QED BY <1>3, <1>4, <1>5, <1>6, <2>1, <2>2
<1>9. CASE exception # "interrupt" /\ HasLine(Top)
  <2>1. /\ Len(frames) \in Nat \ {0} /\ Len(frames) \in 1..Len(frames) /\ Top = frames[Len(frames)]
        /\ Len(stepStack) \in Nat /\ Len(stepStack) = Stale + Open /\ Stale >= 0 /\ Stale \in Int
        /\ Open \in Nat /\ Open > 0
    BY <1>2, <1>9, TopFacts, OpenIsNat, CutOpen DEF MirrorInv, Held
  <2>2. stepStack # <<>> /\ currentStep = stepStack[Len(stepStack)]
    BY <2>1 DEF TrackerInv, TrackerAgrees, InnermostStep
  <2>3. callDepth' = IF currentStep.kind \in KeywordCallKinds /\ callDepth > 0
                     THEN callDepth - 1 ELSE callDepth
    BY <1>1, <1>2, <1>9, <2>2 DEF Leave, FinishStep, OnStepFinish, HasLine
  <2>4. CASE Len(frames) > 1 \/ ~Interrupted
    <3>1. StepOf(currentStep, Top.node)
      <4>1. Stale + OpenUpTo(Len(frames)) = Len(stepStack)
        BY <2>1 DEF Open
      <4> QED BY <1>2, <1>9, <2>1, <2>2, <2>4, <4>1 DEF MirrorInv
    <3>2. callDepth' = IF IsCall(Top.node) /\ callDepth > 0 THEN callDepth - 1 ELSE callDepth
      BY <2>3, <3>1 DEF StepOf, IsCall
    <3>3. callDepth' = callDepth - (IF IsCall(Top.node) THEN 1 ELSE 0)
      BY <1>3, <1>4, <1>6, <3>2
    <3> QED BY <1>3, <1>4, <1>5, <1>6, <3>3
  <2>5. CASE Len(frames) = 1 /\ Interrupted
    <3>1. OpenCalls' = {}
      BY <1>2, <2>5 DEF OpenCalls, Cut
    <3>2. Nest' = 0
      BY <1>3, <3>1, FS_EmptySet
    <3> QED BY <1>5, <1>6, <2>5, <3>2
  <2>6. Len(frames) > 1 \/ Len(frames) = 1
    <3>1. PICK n \in Nat \ {0} : n = Len(frames)
      BY <1>2, TopFacts
    <3> QED BY <3>1
  <2> QED BY <2>4, <2>5, <2>6
<1> QED BY <1>7, <1>8, <1>9

LEMMA NestStep ==
  ASSUME StackTypes, StackTypes', StageInv, TrackerInv, MirrorInv, NestInv,
         Interrupted => Interrupted', PauseFromLine = 0, Moves
  PROVE  NestInv'
<1>1. ASSUME Len(frames') = Len(frames), \A i \in 1..Len(frames) : frames'[i].node = frames[i].node,
             UNCHANGED <<pending, callDepth>>
      PROVE  NestInv'
  <2>1. OpenCalls' = OpenCalls
    BY <1>1, SameCalls
  <2> QED BY <1>1, <2>1 DEF NestInv, Nest, StepsOverKeywords
<1>2. CASE Rests
  BY <1>1, <1>2 DEF Rests, Reframed, debuggerVars
<1>3. CASE Guards
  BY <1>1, <1>3, GuardEffect DEF Guards, debuggerVars
<1>4. CASE Answers
  <2>1. CASE raised' = "interrupt" /\ UNCHANGED frames
    <3>1. OpenCalls' = OpenCalls /\ Interrupted'
      BY <2>1, SameCalls DEF Interrupted
    <3>2. Nest' = Cardinality(OpenCalls) /\ Cardinality(OpenCalls) \in Nat
      BY <1>4, <3>1, AnswerEffect, NotHeld, CallsFinite DEF Nest
    <3>3. DebuggerAttached => callDepth' >= Nest'
      BY <1>4, <3>2, AnswerEffect DEF NestInv, Nest, StackTypes
    <3> QED BY <1>4, <3>1, <3>3, AnswerEffect DEF NestInv, StepsOverKeywords
  <2>2. CASE raised' = raised /\ Grown(pending)
    <3>1. Cardinality(OpenCalls') = Cardinality(OpenCalls) + (IF IsCall(pending) THEN 1 ELSE 0)
      BY <2>2, GrownCalls
    <3>2. Nest' = Nest
      BY <1>4, <3>1, AnswerEffect, NotHeld, CallsFinite DEF Nest
    <3> QED BY <1>4, <3>2, AnswerEffect DEF NestInv, StepsOverKeywords
  <2> QED BY <1>4, <2>1, <2>2, AnswerEffect
<1>5. ASSUME NEW node \in Nodes, Takes(node) PROVE NestInv'
  BY <1>5, TakesNest
<1>6. ASSUME NEW exception \in Exceptions, Goes(exception) PROVE NestInv'
  BY <1>6, GoesNest
<1> QED BY <1>2, <1>3, <1>4, <1>5, <1>6 DEF Moves

-----------------------------------------------------------------------------
(* The state of one test: how it ends, its teardown, the variables it sees.*)
ControlTypes ==
  /\ locals \subseteq 1..run
  /\ run \in 0..MaxRuns /\ executed \in 0..run
  /\ stage \in {"idle", "begun", "import", "body", "teardown", "clear", "exited", "done"}
  /\ bodyOutcome \in Exceptions \cup {"import"}
  /\ teardown \in [has : BOOLEAN, planned : 0..MaxRepeat, tried : 0..MaxRepeat]
  /\ verdict \in {"none", "passed", "failed", "interrupted"}

(* What left the body is known from the finally on, and an interrupt is    *)
(* never forgotten before the next run.                                    *)
OutcomeInv ==
  /\ stage \in {"idle", "begun", "import", "body"} => bodyOutcome = "none"
  /\ bodyOutcome = "import" => stage \in {"clear", "exited", "done"}
  /\ bodyOutcome = "interrupt" /\ stage = "exited" => raised = "interrupt"
  /\ bodyOutcome = "interrupt" /\ stage = "done" => verdict = "interrupted"
  /\ stage # "done" => verdict = "none"

(* The test node goes on after its teardown only when every statement of   *)
(* it was tried, or the teardown was interrupted.                          *)
TeardownInv ==
  /\ teardown.tried <= teardown.planned
  /\ ~teardown.has => teardown.planned = 0
  /\ stage = "clear" => teardown.tried = teardown.planned \/ bodyOutcome = "import"
  /\ stage = "teardown" /\ Len(frames) = 1
       => raised = "interrupt" \/ (raised = "none" /\ teardown.tried = teardown.planned)

(* A run that goes on is not yet an executed one.  A test that is left     *)
(* without an interrupt leaves nothing, and an interrupted one is the last.*)
LocalsInv ==
  /\ stage \notin {"idle", "done"} => executed < run
  /\ ~KeepVariables /\ stage = "exited" /\ raised # "interrupt" => locals = {}
  /\ TestsLeaveNoVariables

(* Where a node of the test itself can be innermost. *)
LEMMA Depths ==
  ASSUME StackTypes, StageInv, frames # <<>>
  PROVE  /\ Len(frames) \in Nat \ {0} /\ Top = frames[Len(frames)]
         /\ Top.node.kind = "Start" => Len(frames) = 1
         /\ Top.node.kind # "Start" => Len(frames) > 1
         /\ Top.node.kind = "Teardown" => Len(frames) = 2 /\ stage = "teardown"
         /\ stage = "teardown" /\ Top.node.kind \notin {"Start", "Teardown"} => Len(frames) > 2
<1>1. /\ Len(frames) \in Nat \ {0} /\ Len(frames) \in 1..Len(frames) /\ Top = frames[Len(frames)]
  BY TopFacts
<1>2. PICK n \in Nat \ {0} : n = Len(frames)
  BY <1>1
<1>3. Top = frames[n] /\ n \in 1..Len(frames)
  BY <1>1, <1>2
<1>4. (Top.node.kind = "Start" <=> n = 1) /\ (Top.node.kind = "Teardown" => n = 2 /\ stage = "teardown")
  BY <1>3 DEF StageInv
<1>5. stage = "teardown" /\ n > 1 => frames[2].node.kind = "Teardown"
  BY <1>2 DEF StageInv
<1> QED BY <1>1, <1>2, <1>3, <1>4, <1>5

(* A node of the grammar's own levels is never held back by the debugger.  *)
LEMMA BlockGrows ==
  ASSUME StackTypes, NEW node \in {StartNode, StatementsNode, TeardownNode}, Takes(node)
  PROVE  Grown(node)
<1>1. node \notin StatementNodes
  BY KindsApart DEF StartNode, StatementsNode, TeardownNode, StatementNodes
<1> QED BY <1>1, TakeEffect

LEMMA PausesAttached ==
  ASSUME NEW step, Pauses(step) PROVE DebuggerAttached
  BY DEF Pauses, Announced, Ignored

(* The actions of the test itself as moves. *)
LEMMA AtStartFacts ==
  ASSUME StackTypes, StageInv, NEW s, AtStart(s)
  PROVE  frames # <<>> /\ Len(frames) = 1 /\ pending = NoNode /\ stage = s
  BY Depths DEF AtStart, TopIs

LEMMA SurfacedType ==
  ASSUME bodyOutcome \in Exceptions \cup {"import"}
  PROVE  Surfaced(bodyOutcome) \in Exceptions
  BY SomeExceptions DEF Surfaced

LEMMA QuietActions ==
  ASSUME StackTypes, StageInv,
         \/ BeginRun \/ NotStarted \/ ParseFails \/ EndRun \/ ImportFails \/ UNCHANGED vars
         \/ EnterFinally /\ ~teardown.has
  PROVE  Rests /\ UNCHANGED <<frames, nodeStack, pending>>
<1>1. Reframed(frames)
  BY SameFrames
<1>2. CASE BeginRun \/ NotStarted \/ ParseFails \/ ImportFails \/ UNCHANGED vars
  BY <1>1, <1>2
  DEF BeginRun, NotStarted, ParseFails, ImportFails, Rests, vars, executorVars, trackerVars
<1>3. CASE EndRun
  <2>1. frames = <<>>
    BY <1>3 DEF EndRun, StageInv
  <2>2. Len(frames) = 0
    BY <2>1, EmptySeq
  <2> QED BY <1>1, <1>3, <2>2 DEF EndRun, Rests
<1>4. CASE EnterFinally /\ ~teardown.has
  <2>1. Len(frames) = 1
    BY <1>4, AtStartFacts DEF EnterFinally, EnterFinallyWhen
  <2> QED BY <1>1, <1>4, <2>1 DEF EnterFinally, EnterFinallyWhen, Rests, trackerVars
<1> QED BY <1>2, <1>3, <1>4

LEMMA TestTakes ==
  ASSUME StackTypes, StageInv
  PROVE  /\ ExecuteTree => Takes(StartNode) /\ frames = <<>>
         /\ ExecuteBody => Takes(StatementsNode) /\ Len(frames) = 1
         /\ EnterFinally /\ teardown.has => Takes(TeardownNode) /\ Len(frames) = 1
         /\ \A node \in StatementNodes :
              TeardownStatement(node) => Takes(node) /\ Len(frames) = 2 /\ stage = "teardown"
<1>1. Reframed(frames)
  BY SameFrames
<1>2. ASSUME ExecuteTree PROVE Takes(StartNode) /\ frames = <<>>
  <2>1. frames = <<>> /\ raised = "none" /\ raised' = "none"
    BY <1>2 DEF ExecuteTree, StageInv
  <2>2. Len(frames) = 0
    BY <2>1, EmptySeq
  <2>3. pending = NoNode
    BY <2>2 DEF StageInv
  <2> QED BY <1>1, <1>2, <2>1, <2>3, NodeKinds DEF ExecuteTree, Takes
<1>3. ASSUME ExecuteBody PROVE Takes(StatementsNode) /\ Len(frames) = 1
  <2>1. Len(frames) = 1 /\ pending = NoNode /\ stage = "import"
    BY <1>3, AtStartFacts DEF ExecuteBody
  <2>2. raised = "none" /\ raised' = "none"
    BY <1>3, <2>1 DEF ExecuteBody, StageInv
  <2> QED BY <1>1, <1>3, <2>1, <2>2, NodeKinds DEF ExecuteBody, Takes
<1>4. ASSUME EnterFinally, teardown.has PROVE Takes(TeardownNode) /\ Len(frames) = 1
  <2>1. Len(frames) = 1 /\ pending = NoNode /\ stage = "body"
    BY <1>4, AtStartFacts DEF EnterFinally, EnterFinallyWhen
  <2> QED BY <1>1, <1>4, <2>1, NodeKinds DEF EnterFinally, EnterFinallyWhen, Takes
<1>5. ASSUME NEW node \in StatementNodes, TeardownStatement(node)
      PROVE  Takes(node) /\ Len(frames) = 2 /\ stage = "teardown"
  <2>1. frames # <<>> /\ Top.node.kind = "Teardown" /\ pending = NoNode
    BY <1>5 DEF TeardownStatement, AtTeardown, TopIs
  <2> QED BY <1>1, <1>5, <2>1, Depths, NodeKinds DEF TeardownStatement, Takes
<1> QED BY <1>2, <1>3, <1>4, <1>5

LEMMA TestGoes ==
  ASSUME StackTypes, StageInv, bodyOutcome \in Exceptions \cup {"import"}
  PROVE  /\ ClearAndLeave => Goes(Surfaced(bodyOutcome)) /\ Len(frames) = 1 /\ raised = "none"
         /\ InterruptedInTeardown => Goes("interrupt") /\ Len(frames) = 1
         /\ TeardownDone => Goes("none") /\ Len(frames) = 2 /\ stage = "teardown"
         /\ TeardownUnwinds
              => Goes("interrupt") /\ raised = "interrupt" /\ Len(frames) = 2 /\ stage = "teardown"
<1>1. ASSUME ClearAndLeave
      PROVE  Goes(Surfaced(bodyOutcome)) /\ Len(frames) = 1 /\ raised = "none"
  <2>1. frames # <<>> /\ Len(frames) = 1 /\ pending = NoNode
    BY <1>1, AtStartFacts DEF ClearAndLeave, ClearThenLeave
  <2>2. raised = "none"
    BY <1>1 DEF ClearAndLeave, ClearThenLeave, AtStart, StageInv
  <2> QED BY <1>1, <2>1, <2>2, SurfacedType DEF ClearAndLeave, ClearThenLeave, Goes
<1>2. ASSUME InterruptedInTeardown PROVE Goes("interrupt") /\ Len(frames) = 1
  <2>1. frames # <<>> /\ Len(frames) = 1 /\ pending = NoNode
    BY <1>2, AtStartFacts DEF InterruptedInTeardown
  <2> QED BY <1>2, <2>1, SomeExceptions DEF InterruptedInTeardown, Goes
<1>3. ASSUME TeardownDone PROVE Goes("none") /\ Len(frames) = 2 /\ stage = "teardown"
  <2>1. frames # <<>> /\ Top.node.kind = "Teardown" /\ pending = NoNode
    BY <1>3 DEF TeardownDone, AtTeardown, TopIs
  <2> QED BY <1>3, <2>1, Depths, SomeExceptions DEF TeardownDone, Complete, Goes
<1>4. ASSUME TeardownUnwinds
      PROVE  Goes("interrupt") /\ raised = "interrupt" /\ Len(frames) = 2 /\ stage = "teardown"
  <2>1. frames # <<>> /\ pending = NoNode /\ raised # "none" /\ raised \notin Caught /\ Leave(raised)
    BY <1>4 DEF Unwind, TeardownUnwinds
  <2>2. Caught = ControlFlow \cup {"error"}
    BY <1>4, KindsApart DEF Caught, TopIs, TeardownUnwinds
  <2>3. raised = "interrupt"
    BY <2>1, <2>2 DEF StackTypes, Exceptions
  <2> QED BY <1>4, <2>1, <2>3, Depths, SomeExceptions DEF Goes, TeardownUnwinds
<1> QED BY <1>1, <1>2, <1>3, <1>4

(* Every step is one of the five moves. *)
LEMMA StepMoves ==
  ASSUME StackTypes, StageInv, ControlTypes, [Next]_vars
  PROVE  Moves
<1>1. CASE Inside
  BY <1>1, NodeKinds DEF Inside, InTree, Moves
<1>2. CASE Outside
  <2>1. bodyOutcome \in Exceptions \cup {"import"}
    BY DEF ControlTypes
  <2>2. \A node \in StatementNodes : TeardownStatement(node) => \E n \in Nodes : Takes(n)
    BY TestTakes, NodeKinds
  <2>3. ASSUME ExecuteTree \/ ExecuteBody \/ (EnterFinally /\ teardown.has)
        PROVE  \E n \in Nodes : Takes(n)
    BY <2>3, TestTakes, NodeKinds
  <2>4. ASSUME ClearAndLeave \/ InterruptedInTeardown \/ TeardownDone \/ TeardownUnwinds
        PROVE  \E exception \in Exceptions : Goes(exception)
    BY <2>1, <2>4, TestGoes, SurfacedType, SomeExceptions
  <2>5. ASSUME \/ BeginRun \/ NotStarted \/ ParseFails \/ EndRun \/ ImportFails \/ UNCHANGED vars
               \/ EnterFinally /\ ~teardown.has
        PROVE  Rests
    BY <2>5, QuietActions
  <2>6. \/ Rests
        \/ \E n \in Nodes : Takes(n)
        \/ \E exception \in Exceptions : Goes(exception)
    <3>1. CASE \E node \in StatementNodes : TeardownStatement(node)
      BY <2>2, <3>1
    <3>2. CASE ExecuteTree \/ ExecuteBody \/ EnterFinally
      BY <2>3, <2>5, <3>2
    <3>3. CASE ClearAndLeave \/ InterruptedInTeardown \/ TeardownDone \/ TeardownUnwinds
      BY <2>4, <3>3
    <3>4. CASE BeginRun \/ NotStarted \/ ParseFails \/ EndRun \/ ImportFails \/ UNCHANGED vars
      BY <2>5, <3>4
    <3> QED BY <1>2, <3>1, <3>2, <3>3, <3>4 DEF Outside
  <2> QED BY <2>6 DEF Moves
<1> QED BY <1>1, <1>2, InsideOrOutside

-----------------------------------------------------------------------------
(* Where a test is: StageInv is kept. *)
LEMMA InsideFacts ==
  ASSUME StackTypes, StageInv, ControlTypes, Inside
  PROVE  /\ UNCHANGED runVars /\ stage \in {"body", "teardown"}
         /\ Len(frames) > 1 /\ Len(frames) \in Nat
<1>1. UNCHANGED runVars
  BY DEF Inside
<1>2. Len(frames) > 1 /\ Len(frames) \in Nat
  <2>1. CASE Answers
    BY <2>1, AnswerEffect DEF StageInv, StackTypes
  <2>2. CASE InTree
    BY <2>2, Depths DEF InTree
  <2> QED BY <2>1, <2>2 DEF Inside
<1>3. stage \in {"body", "teardown"}
  <2>1. frames # <<>>
    BY <1>2, EmptySeq
  <2>2. stage \notin {"import", "clear"}
    BY <1>2 DEF StageInv
  <2> QED BY <2>1, <2>2 DEF StageInv, ControlTypes
<1> QED BY <1>1, <1>2, <1>3

(* The activations up to some depth keep their nodes, and nothing of the   *)
(* test's own levels is pushed.                                            *)
LEMMA KeptStage ==
  ASSUME StackTypes, StageInv, stage' = stage, stage \in {"body", "teardown"},
         NEW n, Len(frames') = n, n \in Nat \ {0},
         stage = "teardown" => n > 1,
         \A i \in 1..n : \/ i \in 1..Len(frames) /\ frames'[i].node = frames[i].node
                         \/ i > 2 /\ frames'[i].node.kind \notin {"Start", "Teardown"}
                         \/ i = 2 /\ stage = "body" /\ frames'[i].node.kind \notin {"Start", "Teardown"},
         pending' # NoNode => raised' = "none" /\ n > 1
  PROVE  StageInv'
<1>1. frames' # <<>>
  BY EmptySeq
<1>2. \A i \in 1..Len(frames') : frames'[i].node.kind = "Start" <=> i = 1
  <2>1. SUFFICES ASSUME NEW i \in 1..n PROVE frames'[i].node.kind = "Start" <=> i = 1
    OBVIOUS
  <2>2. CASE i \in 1..Len(frames) /\ frames'[i].node = frames[i].node
    BY <2>2 DEF StageInv
  <2>3. CASE i >= 2 /\ frames'[i].node.kind \notin {"Start", "Teardown"}
    BY <2>3
  <2> QED BY <2>1, <2>2, <2>3
<1>3. \A i \in 1..Len(frames') : frames'[i].node.kind = "Teardown" => i = 2 /\ stage' = "teardown"
  <2>1. SUFFICES ASSUME NEW i \in 1..n PROVE frames'[i].node.kind = "Teardown" => i = 2 /\ stage = "teardown"
    OBVIOUS
  <2> QED BY <2>1 DEF StageInv
<1>4. stage' = "teardown" /\ Len(frames') > 1 => frames'[2].node.kind = "Teardown"
  <2>1. SUFFICES ASSUME stage = "teardown", n > 1 PROVE frames'[2].node.kind = "Teardown"
    OBVIOUS
  <2>2. 2 \in 1..n
    BY <2>1
  <2>3. 2 \in 1..Len(frames) /\ frames'[2].node = frames[2].node
    BY <2>1, <2>2
  <2>4. Len(frames) > 1
    BY <2>3 DEF StackTypes
  <2> QED BY <2>1, <2>3, <2>4 DEF StageInv
<1> QED BY <1>1, <1>2, <1>3, <1>4 DEF StageInv

LEMMA InsideStage ==
  ASSUME StackTypes, StageInv, ControlTypes, Inside
  PROVE  StageInv'
<1>1. /\ stage' = stage /\ stage \in {"body", "teardown"}
      /\ Len(frames) > 1 /\ Len(frames) \in Nat \ {0}
  BY InsideFacts DEF runVars
<1>2. frames # <<>>
  BY <1>1, EmptySeq
<1>3. pending # NoNode => raised = "none"
  BY DEF StageInv
<1>4. CASE InTree /\ Rests /\ raised' = raised
  BY <1>1, <1>3, <1>4, KeptStage DEF Rests, Reframed
<1>5. CASE InTree /\ Guards
  <2>1. Len(frames') = Len(frames) /\ \A i \in 1..Len(frames) : frames'[i].node = frames[i].node
    BY <1>5, GuardEffect
  <2> QED BY <1>1, <1>3, <1>5, <2>1, KeptStage DEF Guards
<1>6. ASSUME NEW node \in Nodes, node.kind \notin {"Start", "Teardown"}, Grown(node)
      PROVE  StageInv'
  <2>1. PICK n \in Nat : n = Len(frames) /\ n > 1 /\ Len(frames') = n + 1
    BY <1>1, <1>6 DEF Grown
  <2>2. \A i \in 1..n : frames'[i].node = frames[i].node
    BY <1>6, <2>1 DEF Grown
  <2>3. frames'[n + 1].node = node /\ pending' = NoNode
    BY <1>6, <2>1 DEF Grown
  <2>4. \A i \in 1..(n + 1) : i \in 1..n \/ i = n + 1
    BY <2>1
  <2>5. n + 1 > 2 /\ n + 1 \in Nat \ {0}
    BY <2>1
  <2> QED BY <1>1, <1>6, <2>1, <2>2, <2>3, <2>4, <2>5, KeptStage
<1>7. ASSUME InTree, NEW node \in StatementNodes \cup {StatementsNode}, Takes(node)
      PROVE  StageInv'
  <2>1. node \in Nodes /\ node.kind \notin {"Start", "Teardown"}
    BY <1>7, NodeKinds, KindsApart DEF StatementNodes, StatementsNode
  <2>2. CASE Reframed(frames') /\ raised' = "none"
    BY <1>1, <2>2, KeptStage DEF Reframed
  <2> QED BY <1>6, <1>7, <2>1, <2>2, TakeEffect DEF Takes
<1>8. ASSUME InTree, NEW exception \in Exceptions, Goes(exception) PROVE StageInv'
  <2>1. PICK n \in Nat \ {0} : n = Len(frames)
    BY <1>1
  <2>2. n > 1 /\ (stage = "teardown" => n > 2)
    BY <1>2, <1>8, <2>1, Depths DEF InTree
  <2>3. Len(frames') = n - 1 /\ \A i \in 1..(n - 1) : i \in 1..Len(frames) /\ frames'[i] = frames[i]
    BY <1>8, <2>1, GoEffect DEF Cut
  <2>4. pending' = NoNode
    BY <1>8 DEF Goes, Leave
  <2>5. n - 1 \in Nat \ {0} /\ (stage = "teardown" => n - 1 > 1)
    BY <2>2
  <2> QED BY <1>1, <2>3, <2>4, <2>5, KeptStage
<1>9. CASE Answers
  <2>1. pending \in Nodes /\ pending.kind \notin {"Start", "Teardown"} /\ pending' = NoNode
    BY <1>9, AnswerEffect, NodeKinds, KindsApart DEF StatementNodes
  <2>2. CASE UNCHANGED frames
    BY <1>1, <2>1, <2>2, KeptStage
  <2>3. CASE Grown(pending)
    BY <1>6, <2>1, <2>3
  <2> QED BY <1>9, <2>2, <2>3, AnswerEffect
<1> QED BY <1>4, <1>5, <1>7, <1>8, <1>9 DEF Inside, InTree

LEMMA OutsideStage ==
  ASSUME StackTypes, StageInv, ControlTypes, Outside
  PROVE  StageInv'
<1>1. CASE BeginRun \/ NotStarted \/ ParseFails \/ UNCHANGED vars
  BY <1>1 DEF BeginRun, NotStarted, ParseFails, vars, executorVars, StageInv
<1>2. CASE EndRun
  BY <1>2 DEF EndRun, StageInv
<1>3. CASE ImportFails
  <2>1. Len(frames) = 1 /\ frames # <<>>
    BY <1>3, AtStartFacts DEF ImportFails
  <2> QED BY <1>3, <2>1 DEF ImportFails, AtStart, StageInv
<1>4. CASE EnterFinally /\ ~teardown.has
  <2>1. Len(frames) = 1 /\ frames # <<>> /\ pending = NoNode /\ stage = "body"
    BY <1>4, AtStartFacts DEF EnterFinally, EnterFinallyWhen
  <2> QED BY <1>4, <2>1 DEF EnterFinally, EnterFinallyWhen, StageInv
<1>5. CASE ExecuteTree
  <2>1. Len(frames') = 1 /\ frames'[1].node = StartNode /\ pending' = NoNode /\ raised' = "none"
    <3>1. frames = <<>> /\ Takes(StartNode)
      BY <1>5, TestTakes
    <3>2. Grown(StartNode) /\ Len(frames) = 0
      BY <3>1, BlockGrows, EmptySeq
    <3> QED BY <3>1, <3>2 DEF Grown, Takes
  <2>2. frames' # <<>>
    BY <2>1, EmptySeq
  <2>3. StartNode.kind = "Start" /\ stage' = "import"
    BY <1>5 DEF StartNode, ExecuteTree
  <2> QED BY <2>1, <2>2, <2>3 DEF StageInv
<1>6. ASSUME NEW node \in {StatementsNode, TeardownNode}, Takes(node), Len(frames) = 1,
             stage' = (IF node = TeardownNode THEN "teardown" ELSE "body")
      PROVE  StageInv'
  <2>1. /\ Len(frames') = 2 /\ frames'[1].node = frames[1].node /\ frames'[2].node = node
        /\ pending' = NoNode
    BY <1>6, BlockGrows DEF Grown
  <2>2. frames' # <<>>
    BY <2>1, EmptySeq
  <2>3. frames[1].node.kind = "Start"
    BY <1>6 DEF StageInv
  <2>4. node.kind # "Start" /\ (node.kind = "Teardown" <=> node = TeardownNode)
    BY DEF StatementsNode, TeardownNode
  <2>5. \A i \in 1..2 : i = 1 \/ i = 2
    OBVIOUS
  <2> QED BY <1>6, <2>1, <2>2, <2>3, <2>4, <2>5 DEF StageInv
<1>7. CASE ExecuteBody
  <2>1. Takes(StatementsNode) /\ Len(frames) = 1
    BY <1>7, TestTakes
  <2>2. StatementsNode # TeardownNode
    BY DEF StatementsNode, TeardownNode
  <2> QED BY <1>6, <1>7, <2>1, <2>2 DEF ExecuteBody
<1>8. CASE EnterFinally /\ teardown.has
  <2>1. Takes(TeardownNode) /\ Len(frames) = 1
    BY <1>8, TestTakes
  <2> QED BY <1>6, <1>8, <2>1 DEF EnterFinally, EnterFinallyWhen
<1>9. ASSUME NEW node \in StatementNodes, TeardownStatement(node) PROVE StageInv'
  <2>1. Takes(node) /\ Len(frames) = 2 /\ stage = "teardown" /\ stage' = stage /\ raised' = "none"
    BY <1>9, TestTakes DEF TeardownStatement
  <2>2. node.kind \notin {"Start", "Teardown"}
    BY KindsApart DEF StatementNodes
  <2>3. CASE Reframed(frames')
    BY <2>1, <2>3, KeptStage DEF Reframed
  <2>4. CASE Grown(node)
    <3>1. Len(frames') = 3 /\ frames'[3].node = node /\ pending' = NoNode
          /\ \A i \in 1..2 : i \in 1..Len(frames) /\ frames'[i].node = frames[i].node
      BY <2>1, <2>4 DEF Grown
    <3>2. \A i \in 1..3 : i \in 1..2 \/ i = 3
      OBVIOUS
    <3> QED BY <2>1, <2>2, <3>1, <3>2, KeptStage
  <2> QED BY <2>1, <2>3, <2>4, TakeEffect
<1>10. ASSUME NEW exception \in Exceptions, Goes(exception), Len(frames) = 1, stage' = "exited"
       PROVE  StageInv'
  <2>1. Len(frames') = 0 /\ frames' \in Seq(Frame) /\ pending' = NoNode
    BY <1>10, GoEffect DEF Cut, Goes, Leave
  <2>2. frames' = <<>>
    BY <2>1, EmptySeq
  <2> QED BY <1>10, <2>1, <2>2 DEF StageInv
<1>11. bodyOutcome \in Exceptions \cup {"import"}
  BY DEF ControlTypes
<1>12. CASE ClearAndLeave
  BY <1>10, <1>11, <1>12, TestGoes, SurfacedType DEF ClearAndLeave, ClearThenLeave
<1>13. CASE InterruptedInTeardown
  BY <1>10, <1>11, <1>13, TestGoes, SomeExceptions DEF InterruptedInTeardown
<1>14. ASSUME NEW exception \in Exceptions, Goes(exception), Len(frames) = 2, stage = "teardown",
              stage' = stage
       PROVE  StageInv'
  <2>1. Len(frames') = 1 /\ frames'[1] = frames[1] /\ pending' = NoNode
    BY <1>14, GoEffect DEF Cut, Goes, Leave
  <2>2. frames' # <<>>
    BY <2>1, EmptySeq
  <2>3. frames[1].node.kind = "Start"
    BY <1>14 DEF StageInv
  <2> QED BY <1>14, <2>1, <2>2, <2>3 DEF StageInv
<1>15. CASE TeardownDone
  BY <1>11, <1>14, <1>15, TestGoes, SomeExceptions DEF TeardownDone, runVars
<1>16. CASE TeardownUnwinds
  BY <1>11, <1>14, <1>16, TestGoes, SomeExceptions DEF TeardownUnwinds, Unwind, runVars
<1> QED BY <1>1, <1>2, <1>3, <1>4, <1>5, <1>7, <1>8, <1>9, <1>12, <1>13, <1>15, <1>16 DEF Outside

-----------------------------------------------------------------------------
(* How a test ends, its teardown and its variables. *)
LEMMA CleanTeardown ==
  ASSUME teardown' \in {[has |-> FALSE, planned |-> 0, tried |-> 0]}
                         \cup [has : {TRUE}, planned : 0..MaxRepeat, tried : {0}]
  PROVE  /\ teardown' \in [has : BOOLEAN, planned : 0..MaxRepeat, tried : 0..MaxRepeat]
         /\ teardown'.tried = 0 /\ teardown'.tried <= teardown'.planned
         /\ ~teardown'.has => teardown'.planned = 0
<1>1. 0 \in 0..MaxRepeat
  BY ExecutorAssumption
<1>2. CASE teardown' = [has |-> FALSE, planned |-> 0, tried |-> 0]
  BY <1>1, <1>2
<1>3. CASE teardown' \in [has : {TRUE}, planned : 0..MaxRepeat, tried : {0}]
  <2>1. /\ teardown'.has = TRUE /\ teardown'.planned \in 0..MaxRepeat /\ teardown'.tried = 0
        /\ teardown' = [has |-> teardown'.has, planned |-> teardown'.planned, tried |-> teardown'.tried]
    BY <1>3
  <2>2. 0 <= teardown'.planned
    BY <2>1, ExecutorAssumption
  <2> QED BY <1>1, <2>1, <2>2
<1> QED BY <1>2, <1>3

LEMMA TriedOneMore ==
  ASSUME teardown \in [has : BOOLEAN, planned : 0..MaxRepeat, tried : 0..MaxRepeat],
         teardown.tried < teardown.planned,
         teardown' = [teardown EXCEPT !.tried = @ + 1]
  PROVE  /\ teardown' \in [has : BOOLEAN, planned : 0..MaxRepeat, tried : 0..MaxRepeat]
         /\ teardown'.has = teardown.has /\ teardown'.planned = teardown.planned
         /\ teardown'.tried = teardown.tried + 1
<1>1. /\ teardown.tried \in 0..MaxRepeat /\ teardown.planned \in 0..MaxRepeat /\ teardown.has \in BOOLEAN
      /\ teardown = [has |-> teardown.has, planned |-> teardown.planned, tried |-> teardown.tried]
  OBVIOUS
<1>2. teardown.tried + 1 \in 0..MaxRepeat
  BY <1>1, ExecutorAssumption
<1>3. teardown' = [has |-> teardown.has, planned |-> teardown.planned, tried |-> teardown.tried + 1]
  BY <1>1
<1> QED BY <1>1, <1>2, <1>3

LEMMA TypesStep ==
  ASSUME StackTypes, StageInv, ControlTypes, LocalsInv, [Next]_vars
  PROVE  ControlTypes'
<1>1. run \in Nat /\ MaxRuns \in Nat
  BY ExecutorAssumption DEF ControlTypes
<1>2. stage \notin {"idle", "done"} => run \in 1..run
  BY <1>1 DEF LocalsInv, ControlTypes
<1>3. CASE Inside
  <2>1. stage \in {"body", "teardown"} /\ locals' \in {locals, locals \cup {run}}
    BY <1>3, InsideFacts DEF Inside
  <2> QED BY <1>2, <1>3, <2>1 DEF Inside, runVars, ControlTypes
<1>4. CASE Outside
  <2>1. CASE BeginRun
    <3>1. run + 1 \in 0..MaxRuns /\ locals \subseteq 1..(run + 1) /\ executed \in 0..(run + 1)
      <4>1. run < MaxRuns /\ locals \subseteq 1..run /\ executed \in 0..run
        BY <2>1 DEF BeginRun, ControlTypes
      <4> QED BY <1>1, <4>1
    <3> QED BY <2>1, <3>1, CleanTeardown, SomeExceptions DEF BeginRun, ControlTypes
  <2>2. CASE NotStarted \/ ParseFails \/ ExecuteTree
    BY <1>2, <2>2 DEF NotStarted, ParseFails, ExecuteTree, ControlTypes
  <2>3. CASE EndRun
    BY <2>3 DEF EndRun, OutcomeOf, ControlTypes
  <2>4. CASE ImportFails \/ ExecuteBody
    BY <2>4 DEF ImportFails, ExecuteBody, ControlTypes
  <2>5. CASE EnterFinally
    BY <2>5 DEF EnterFinally, EnterFinallyWhen, ControlTypes, StackTypes
  <2>6. CASE ClearAndLeave \/ InterruptedInTeardown
    BY <2>6 DEF ClearAndLeave, ClearThenLeave, InterruptedInTeardown, ControlTypes
  <2>7. ASSUME NEW node \in StatementNodes, TeardownStatement(node) PROVE ControlTypes'
    BY <2>7, TriedOneMore DEF TeardownStatement, ControlTypes
  <2>8. CASE TeardownDone \/ TeardownUnwinds \/ UNCHANGED vars
    BY <2>8 DEF TeardownDone, TeardownUnwinds, Unwind, runVars, vars, executorVars, ControlTypes
  <2> QED BY <1>4, <2>1, <2>2, <2>3, <2>4, <2>5, <2>6, <2>7, <2>8 DEF Outside
<1> QED BY <1>3, <1>4, InsideOrOutside

(* An exception passes the tree, an interrupt through every node of it.    *)
LEMMA InsideInterrupt ==
  ASSUME Inside
  PROVE  raised = "interrupt" => raised' = "interrupt"
<1>1. CASE InTree /\ Rests /\ raised' = raised
  BY <1>1
<1>2. CASE Guards
  BY <1>2 DEF Guards
<1>3. ASSUME NEW node \in StatementNodes \cup {StatementsNode}, Takes(node)
      PROVE  raised # "interrupt"
  <2>1. node.kind # "Teardown" /\ TeardownNode.kind = "Teardown"
    BY KindsApart DEF StatementNodes, StatementsNode, TeardownNode
  <2> QED BY <1>3, <2>1 DEF Takes
<1>4. ASSUME NEW exception, Goes(exception)
      PROVE  raised = "interrupt" => raised' = "interrupt"
  BY <1>4 DEF Goes, Leave
<1>5. CASE Answers
  BY <1>5 DEF Answers, DebugCommand
<1> QED BY <1>1, <1>2, <1>3, <1>4, <1>5 DEF Inside, InTree

LEMMA OutcomeStep ==
  ASSUME StackTypes, StageInv, ControlTypes, OutcomeInv, [Next]_vars
  PROVE  OutcomeInv' /\ (Interrupted => Interrupted')
<1>1. CASE Inside
  <2>1. UNCHANGED runVars /\ stage \in {"body", "teardown"}
    BY <1>1, InsideFacts
  <2> QED BY <1>1, <2>1, InsideInterrupt DEF runVars, OutcomeInv, Interrupted
<1>2. CASE Outside
  <2>1. CASE BeginRun
    BY <2>1 DEF BeginRun, OutcomeInv, Interrupted, StageInv
  <2>2. CASE NotStarted \/ ParseFails \/ ExecuteTree \/ ImportFails \/ ExecuteBody
    BY <2>2 DEF NotStarted, ParseFails, ExecuteTree, ImportFails, ExecuteBody, AtStart,
                OutcomeInv, Interrupted, StageInv
  <2>3. CASE EndRun
    BY <2>3 DEF EndRun, OutcomeOf, OutcomeInv, Interrupted
  <2>4. CASE EnterFinally
    <3>1. stage = "body" /\ bodyOutcome = "none" /\ verdict = "none" /\ bodyOutcome' = raised
          /\ verdict' = verdict /\ stage' \in {"teardown", "clear"}
      BY <2>4 DEF EnterFinally, EnterFinallyWhen, AtStart, OutcomeInv
    <3>2. raised # "import"
      BY DEF StackTypes, Exceptions, ControlFlow
    <3> QED BY <3>1, <3>2 DEF OutcomeInv, Interrupted
  <2>5. CASE ClearAndLeave
    <3>1. raised = "none" /\ raised' = Surfaced(bodyOutcome) /\ stage \in {"clear", "teardown"}
      BY <2>5, TestGoes DEF ClearAndLeave, ClearThenLeave, Leave, AtStart, ControlTypes
    <3> QED BY <2>5, <3>1 DEF ClearAndLeave, ClearThenLeave, Surfaced, OutcomeInv, Interrupted
  <2>6. CASE InterruptedInTeardown
    BY <2>6 DEF InterruptedInTeardown, Leave, AtStart, OutcomeInv, Interrupted
  <2>7. ASSUME NEW node \in StatementNodes, TeardownStatement(node)
        PROVE  OutcomeInv' /\ (Interrupted => Interrupted')
    <3>1. stage = "teardown"
      BY <2>7, TestTakes
    <3> QED BY <2>7, <3>1 DEF TeardownStatement, OutcomeInv, Interrupted
  <2>8. CASE TeardownDone \/ TeardownUnwinds
    <3>1. stage = "teardown" /\ (raised' = raised \/ raised # "interrupt")
      BY <2>8, TestGoes DEF TeardownDone, TeardownUnwinds, Unwind, Leave, ControlTypes
    <3> QED BY <2>8, <3>1 DEF TeardownDone, TeardownUnwinds, Unwind, runVars, OutcomeInv, Interrupted
  <2>9. CASE UNCHANGED vars
    BY <2>9 DEF vars, executorVars, OutcomeInv, Interrupted
  <2> QED BY <1>2, <2>1, <2>2, <2>3, <2>4, <2>5, <2>6, <2>7, <2>8, <2>9 DEF Outside
<1> QED BY <1>1, <1>2, InsideOrOutside

LEMMA TeardownStep ==
  ASSUME StackTypes, StageInv, ControlTypes, TeardownInv, OutcomeInv, [Next]_vars
  PROVE  TeardownInv'
<1>1. CASE Inside
  <2>1. UNCHANGED runVars /\ stage \in {"body", "teardown"}
    BY <1>1, InsideFacts
  <2>2. stage = "teardown" => Len(frames') # 1
    <3>1. StageInv' /\ Len(frames) > 1
      BY <1>1, InsideStage, InsideFacts
    <3>2. ASSUME stage = "teardown", Len(frames') = 1, InTree PROVE FALSE
      <4>1. PICK n \in Nat : n = Len(frames) /\ n > 2
        BY <1>1, <3>2, InsideFacts, Depths DEF InTree
      <4>2. ASSUME NEW node, Takes(node) PROVE FALSE
        BY <3>2, <4>1, <4>2, TakeEffect DEF Grown, Reframed
      <4>3. ASSUME NEW exception, Goes(exception) PROVE FALSE
        BY <3>2, <4>1, <4>3, GoEffect DEF Cut
      <4>4. ASSUME Rests PROVE FALSE
        <5>1. Len(frames') = Len(frames)
          BY <4>4 DEF Rests, Reframed
        <5> QED BY <3>2, <4>1, <5>1
      <4>5. ASSUME Guards PROVE FALSE
        <5>1. Len(frames') = Len(frames)
          BY <4>5, GuardEffect
        <5> QED BY <3>2, <4>1, <5>1
      <4> QED BY <3>2, <4>2, <4>3, <4>4, <4>5 DEF InTree
    <3>3. ASSUME Len(frames') = 1, Answers PROVE FALSE
      <4>1. PICK n \in Nat : n = Len(frames) /\ n > 1
        BY <1>1, InsideFacts
      <4>2. Len(frames') = Len(frames) \/ Len(frames') = Len(frames) + 1
        BY <3>3, AnswerEffect DEF Grown
      <4> QED BY <3>3, <4>1, <4>2
    <3> QED BY <1>1, <3>2, <3>3 DEF Inside
  <2> QED BY <2>1, <2>2 DEF runVars, TeardownInv
<1>2. CASE Outside
  <2>1. CASE BeginRun
    BY <2>1, CleanTeardown DEF BeginRun, TeardownInv
  <2>2. CASE NotStarted \/ ParseFails \/ ExecuteTree \/ ImportFails \/ ExecuteBody \/ EndRun
    BY <2>2 DEF NotStarted, ParseFails, ExecuteTree, ImportFails, ExecuteBody, EndRun, TeardownInv
  <2>3. CASE EnterFinally /\ ~teardown.has
    <3>1. teardown.planned = 0 /\ teardown.tried <= 0 /\ teardown.tried \in Nat
      BY <2>3, ExecutorAssumption DEF TeardownInv, ControlTypes
    <3> QED BY <2>3, <3>1 DEF EnterFinally, EnterFinallyWhen, TeardownInv
  <2>4. CASE EnterFinally /\ teardown.has
    <3>1. Takes(TeardownNode) /\ Len(frames) = 1
      BY <2>4, TestTakes
    <3>2. Grown(TeardownNode)
      BY <3>1, BlockGrows
    <3>3. Len(frames') = 2
      BY <3>1, <3>2 DEF Grown
    <3> QED BY <2>4, <3>3 DEF EnterFinally, EnterFinallyWhen, TeardownInv
  <2>5. CASE ClearAndLeave \/ InterruptedInTeardown
    BY <2>5 DEF ClearAndLeave, ClearThenLeave, InterruptedInTeardown, TeardownInv
  <2>6. ASSUME NEW node \in StatementNodes, TeardownStatement(node) PROVE TeardownInv'
    <3>1. Takes(node) /\ Len(frames) = 2 /\ stage = "teardown" /\ stage' = "teardown"
      BY <2>6, TestTakes DEF TeardownStatement
    <3>2. Len(frames') # 1
      BY <3>1, TakeEffect DEF Grown, Reframed
    <3>3. teardown.tried < teardown.planned /\ teardown' = [teardown EXCEPT !.tried = @ + 1]
          /\ teardown \in [has : BOOLEAN, planned : 0..MaxRepeat, tried : 0..MaxRepeat]
      BY <2>6 DEF TeardownStatement, ControlTypes
    <3>4. teardown.tried \in Nat /\ teardown.planned \in Nat
      BY <3>3, ExecutorAssumption
    <3>5. teardown'.tried <= teardown'.planned /\ (~teardown'.has => teardown'.planned = 0)
      BY <3>3, <3>4, TriedOneMore DEF TeardownInv
    <3> QED BY <3>1, <3>2, <3>5 DEF TeardownInv
  <2>7. CASE TeardownDone
    BY <2>7 DEF TeardownDone, Complete, Leave, runVars, TeardownInv, TestGoes
  <2>8. CASE TeardownUnwinds
    <3>1. stage = "teardown" /\ raised' = "interrupt"
      BY <2>8, TestGoes DEF TeardownUnwinds, Unwind, Leave, ControlTypes
    <3> QED BY <2>8, <3>1 DEF TeardownUnwinds, Unwind, runVars, TeardownInv
  <2>9. CASE UNCHANGED vars
    BY <2>9 DEF vars, executorVars, TeardownInv
  <2> QED BY <1>2, <2>1, <2>2, <2>3, <2>4, <2>5, <2>6, <2>7, <2>8, <2>9 DEF Outside
<1> QED BY <1>1, <1>2, InsideOrOutside

LEMMA LocalsStep ==
  ASSUME StackTypes, StageInv, ControlTypes, OutcomeInv, LocalsInv, [Next]_vars
  PROVE  LocalsInv'
<1>1. /\ run \in Nat /\ executed \in Nat /\ executed <= run
      /\ \A r \in locals : r \in Nat
  BY ExecutorAssumption DEF ControlTypes
<1>2. CASE Inside
  <2>1. UNCHANGED runVars /\ stage \in {"body", "teardown"} /\ locals' \in {locals, locals \cup {run}}
    BY <1>2, InsideFacts DEF Inside
  <2>2. executed < run
    BY <2>1 DEF LocalsInv
  <2> QED BY <2>1, <2>2 DEF runVars, LocalsInv, TestsLeaveNoVariables
<1>3. CASE Outside
  <2>1. CASE BeginRun
    <3>1. executed < run + 1
      BY <1>1
    <3> QED BY <2>1, <3>1 DEF BeginRun, LocalsInv, TestsLeaveNoVariables
  <2>2. CASE NotStarted \/ ParseFails \/ ExecuteTree
    <3>1. executed < run /\ verdict = "none" /\ locals' \in {locals, locals \cup {run}}
      BY <2>2 DEF NotStarted, ParseFails, ExecuteTree, LocalsInv, OutcomeInv
    <3> QED BY <2>2, <3>1
        DEF NotStarted, ParseFails, ExecuteTree, LocalsInv, TestsLeaveNoVariables
  <2>3. CASE EndRun
    <3>1. raised = "interrupt" => verdict' = "interrupted"
      BY <2>3 DEF EndRun, OutcomeOf
    <3> QED BY <2>3, <3>1 DEF EndRun, LocalsInv, TestsLeaveNoVariables
  <2>4. CASE ImportFails \/ ExecuteBody \/ EnterFinally
    BY <2>4 DEF ImportFails, ExecuteBody, EnterFinally, EnterFinallyWhen, AtStart,
                LocalsInv, TestsLeaveNoVariables
  <2>5. CASE ClearAndLeave
    BY <2>5 DEF ClearAndLeave, ClearThenLeave, AtStart, LocalsInv, TestsLeaveNoVariables
  <2>6. CASE InterruptedInTeardown
    BY <2>6 DEF InterruptedInTeardown, Leave, AtStart, LocalsInv, TestsLeaveNoVariables
  <2>7. CASE TeardownDone \/ TeardownUnwinds \/ \E node \in StatementNodes : TeardownStatement(node)
    <3>1. stage = "teardown" /\ UNCHANGED <<locals, stage, run, executed, verdict>>
      BY <2>7, TestGoes, TestTakes
      DEF TeardownDone, TeardownUnwinds, Unwind, TeardownStatement, runVars, ControlTypes
    <3> QED BY <3>1 DEF LocalsInv, TestsLeaveNoVariables
  <2>8. CASE UNCHANGED vars
    BY <2>8 DEF vars, executorVars, LocalsInv, TestsLeaveNoVariables
  <2> QED BY <1>3, <2>1, <2>2, <2>3, <2>4, <2>5, <2>6, <2>7, <2>8 DEF Outside
<1> QED BY <1>2, <1>3, InsideOrOutside

-----------------------------------------------------------------------------
(* The inductive invariant of the executor.  None of the properties is     *)
(* inductive: what the stacks hold depends on where the test is, what the  *)
(* teardown owes on what left the body, and what is left of the variables  *)
(* on both.                                                                *)
ExecutorInv ==
  /\ TrackerInv /\ StackTypes /\ ControlTypes
  /\ StageInv /\ OutcomeInv /\ TeardownInv /\ LocalsInv
  /\ NodeStackIsPath /\ MirrorInv /\ RecursionGuard
  /\ pending # NoNode => DebuggerAttached

LEMMA NothingOpen ==
  ASSUME frames = <<>>
  PROVE  OpenUpTo(Len(frames)) = 0 /\ Open = 0 /\ OpenCalls = {} /\ Len(frames) = 0
<1>1. Len(frames) = 0
  BY EmptySeq
<1> QED BY <1>1, NoneOpen DEF Open, OpenCalls

LEMMA ExecutorInit == Init => ExecutorInv
<1>1. SUFFICES ASSUME Init PROVE ExecutorInv
  OBVIOUS
<1>2. frames = <<>> /\ nodeStack = <<>> /\ stepStack = <<>> /\ pending = NoNode
  BY <1>1 DEF Init, TrackerInit
<1>3. /\ Len(frames) = 0 /\ Len(nodeStack) = 0 /\ Len(stepStack) = 0
      /\ OpenUpTo(Len(frames)) = 0 /\ Open = 0
  BY <1>2, EmptySeq, NothingOpen
<1>4. TrackerInv
  BY <1>1, <1>3, EmptySeq
  DEF Init, TrackerInit, TrackerInv, TrackerAgrees, InnermostStep, Steps
<1>5. StackTypes
  BY <1>1, EmptySeq, SomeExceptions DEF Init, DebuggerInit, TrackerInit, StackTypes
<1>6. ControlTypes
  BY <1>1, SomeExceptions, ExecutorAssumption DEF Init, ControlTypes
<1>7. StageInv
  BY <1>1, <1>3 DEF Init, StageInv
<1>8. OutcomeInv /\ TeardownInv /\ LocalsInv
  BY <1>1, <1>3 DEF Init, OutcomeInv, TeardownInv, LocalsInv, TestsLeaveNoVariables
<1>9. NodeStackIsPath
  BY <1>3 DEF NodeStackIsPath
<1>10. MirrorInv
  BY <1>2, <1>3 DEF MirrorInv, Stale, Held
<1>11. RecursionGuard
  BY <1>1, <1>3 DEF Init, RecursionGuard
<1> QED BY <1>2, <1>4, <1>5, <1>6, <1>7, <1>8, <1>9, <1>10, <1>11 DEF ExecutorInv

LEMMA HeldStep ==
  ASSUME StackTypes, pending # NoNode => DebuggerAttached, Moves
  PROVE  pending' # NoNode => DebuggerAttached
<1>1. CASE Rests \/ Guards
  BY <1>1 DEF Rests, Guards
<1>2. CASE Answers
  BY <1>2, AnswerEffect
<1>3. ASSUME NEW node \in Nodes, Takes(node)
      PROVE  pending' # NoNode => DebuggerAttached
  BY <1>3, TakeEffect, PausesAttached DEF Grown
<1>4. ASSUME NEW exception \in Exceptions, Goes(exception)
      PROVE  pending' # NoNode => DebuggerAttached
  BY <1>4 DEF Goes, Leave
<1> QED BY <1>1, <1>2, <1>3, <1>4 DEF Moves

LEMMA ExecutorStep == ExecutorInv /\ [Next]_vars => ExecutorInv'
<1>1. SUFFICES ASSUME ExecutorInv, [Next]_vars PROVE ExecutorInv'
  OBVIOUS
<1>2. /\ TrackerInv /\ StackTypes /\ ControlTypes
      /\ StageInv /\ OutcomeInv /\ TeardownInv /\ LocalsInv
      /\ NodeStackIsPath /\ MirrorInv /\ RecursionGuard
  BY <1>1 DEF ExecutorInv
<1>3. Moves
  BY <1>1, <1>2, StepMoves
<1>4. TrackerInv' /\ stepStack' \in Seq(Steps)
  <2>1. TrackerInv'
    BY <1>1, <1>2, TrackerStep
  <2> QED BY <2>1 DEF TrackerInv
<1>5. StackTypes'
  BY <1>2, <1>3, <1>4, MoveTypes
<1>6. ControlTypes'
  BY <1>1, <1>2, TypesStep
<1>7. StageInv'
  BY <1>1, <1>2, InsideStage, OutsideStage, InsideOrOutside
<1>8. OutcomeInv' /\ (Interrupted => Interrupted')
  BY <1>1, <1>2, OutcomeStep
<1>9. TeardownInv' /\ LocalsInv'
  BY <1>1, <1>2, TeardownStep, LocalsStep
<1>10. NodeStackIsPath' /\ RecursionGuard'
  BY <1>2, <1>3, PathStep, GuardStep
<1>11. MirrorInv'
  BY <1>2, <1>3, <1>5, <1>8, MirrorStep
<1>12. pending' # NoNode => DebuggerAttached
  BY <1>1, <1>2, <1>3, HeldStep DEF ExecutorInv
<1> QED BY <1>4, <1>5, <1>6, <1>7, <1>8, <1>9, <1>10, <1>11, <1>12 DEF ExecutorInv

THEOREM ExecutorInvariant == Spec => []ExecutorInv
<1>1. Init => ExecutorInv
  BY ExecutorInit
<1>2. ExecutorInv /\ [Next]_vars => ExecutorInv'
  BY ExecutorStep
<1> QED BY <1>1, <1>2, PTL DEF Spec

(* The stacks that error messages and reported steps are taken from follow *)
(* the execution: in every state the node stack is the path of nodes being *)
(* executed, whatever exception left the nodes before, and without an      *)
(* interrupt the open steps are those of the same nodes.                   *)
THEOREM StacksAlwaysFollowPath == Spec => []StacksFollowPath
<1>1. ExecutorInv => StacksFollowPath
  <2>1. SUFFICES ASSUME ExecutorInv PROVE StacksFollowPath
    OBVIOUS
  <2>2. StepsMirrorPath
    BY <2>1, MirrorGives DEF ExecutorInv
  <2>3. TypeOK
    BY <2>1 DEF ExecutorInv, StackTypes, ControlTypes, TrackerInv, TypeOK, Frame
  <2> QED BY <2>1, <2>2, <2>3 DEF StacksFollowPath, ExecutorInv
<1> QED BY <1>1, ExecutorInvariant, PTL

(* The recursion guard of a custom keyword is set exactly while its body   *)
(* runs: no exception leaves it behind, and no keyword runs inside itself. *)
THEOREM RecursionIsGuarded == Spec => []RecursionGuard
<1>1. ExecutorInv => RecursionGuard
  BY DEF ExecutorInv
<1> QED BY <1>1, ExecutorInvariant, PTL

(* An executed test that was not interrupted leaves no variable behind:    *)
(* whatever the executor holds in a later run is of that run, or was given *)
(* to a run in between that was rejected or did not parse.                 *)
THEOREM TestsNeverLeaveVariables == Spec => []TestsLeaveNoVariables
<1>1. ExecutorInv => TestsLeaveNoVariables
  BY DEF ExecutorInv, LocalsInv
<1> QED BY <1>1, ExecutorInvariant, PTL

(* Whatever ends the body of a test, the test node is left only after      *)
(* every teardown statement was tried - unless the imports failed or the   *)
(* teardown itself is interrupted.                                         *)
THEOREM TeardownAlwaysCompletes == Spec => TeardownCompletes
<1> DEFINE Completes ==
      stage # "exited" /\ stage' = "exited"
        => \/ teardown.tried = teardown.planned
           \/ bodyOutcome = "import"
           \/ stage = "teardown" /\ raised = "interrupt"
<1>1. ExecutorInv /\ [Next]_vars => [Completes]_vars
  <2>1. SUFFICES ASSUME ExecutorInv, [Next]_vars, stage # "exited", stage' = "exited"
                 PROVE  Completes
    OBVIOUS
  <2>2. StackTypes /\ StageInv /\ ControlTypes /\ TeardownInv
    BY <2>1 DEF ExecutorInv
  <2>3. ~Inside
    <3>1. Inside => stage' = stage
      BY DEF Inside, runVars
    <3> QED BY <2>1, <3>1
  <2>4. ClearAndLeave \/ InterruptedInTeardown
    <3>1. Outside
      BY <2>1, <2>2, <2>3, InsideOrOutside
    <3>2. stage' # stage
      BY <2>1
    <3>3. ~\E node \in StatementNodes : TeardownStatement(node)
      BY <3>2 DEF TeardownStatement
    <3> QED BY <2>1, <3>1, <3>2, <3>3
            DEF Outside, BeginRun, NotStarted, ParseFails, ExecuteTree, EndRun, ImportFails,
                ExecuteBody, EnterFinally, EnterFinallyWhen, TeardownDone, TeardownUnwinds,
                Unwind, runVars, vars, executorVars
  <2>5. CASE ClearAndLeave
    <3>1. Len(frames) = 1 /\ raised = "none" /\ stage \in {"clear", "teardown"}
      BY <2>2, <2>5, TestGoes DEF ClearAndLeave, ClearThenLeave, AtStart, ControlTypes
    <3> QED BY <2>2, <3>1 DEF TeardownInv
  <2>6. CASE InterruptedInTeardown
    BY <2>6 DEF InterruptedInTeardown, AtStart
  <2> QED BY <2>4, <2>5, <2>6
<1> QED BY <1>1, ExecutorInvariant, PTL DEF Spec, TeardownCompletes

(* A debugger that pauses from the first line on counts calls right, and   *)
(* so never stops inside the body of a keyword.  With --pause-from-line it *)
(* does not count the calls of earlier lines, and the theorem fails.       *)
THEOREM DebuggerAlwaysStepsOver ==
  ASSUME PauseFromLine = 0
  PROVE  Spec => []DebuggerStepsOver
<1> DEFINE Inv == ExecutorInv /\ NestInv
<1>1. Init => Inv
  <2>1. SUFFICES ASSUME Init PROVE NestInv
    BY ExecutorInit
  <2>2. frames = <<>> /\ pending = NoNode /\ callDepth = 0
    BY <2>1 DEF Init, DebuggerInit
  <2>3. OpenCalls = {} /\ ~IsCall(pending)
    BY <2>2, NothingOpen, NotHeld
  <2>4. Nest = 0
    BY <2>3, FS_EmptySet DEF Nest
  <2> QED BY <2>2, <2>4 DEF NestInv, StepsOverKeywords
<1>2. Inv /\ [Next]_vars => Inv'
  <2>1. SUFFICES ASSUME ExecutorInv, NestInv, [Next]_vars PROVE ExecutorInv' /\ NestInv'
    OBVIOUS
  <2>2. ExecutorInv'
    BY <2>1, ExecutorStep
  <2>3. StackTypes /\ StackTypes' /\ StageInv /\ TrackerInv /\ MirrorInv /\ ControlTypes /\ OutcomeInv
    BY <2>1, <2>2 DEF ExecutorInv
  <2>4. Moves /\ (Interrupted => Interrupted')
    BY <2>1, <2>3, StepMoves, OutcomeStep
  <2> QED BY <2>1, <2>2, <2>3, <2>4, NestStep
<1>3. Inv => DebuggerStepsOver
  BY DEF ExecutorInv, NestInv, Nest, DebuggerStepsOver, StepsOverKeywords, DepthIsNesting
<1> QED BY <1>1, <1>2, <1>3, PTL DEF Spec

-----------------------------------------------------------------------------
(* The executor implements the life cycle of a test.  The abstract state,  *)
(* by the names it has there.                                              *)
Phase ==
  CASE stage = "idle"                         -> "idle"
    [] stage \in {"begun", "import", "body"}  -> "test"
    [] stage \in {"teardown", "clear"}        -> "teardown"
    [] OTHER                                  -> "over"
Outcome ==
  CASE stage \in {"teardown", "clear"} -> OutcomeOf(bodyOutcome)
    [] stage = "exited"                -> OutcomeOf(raised)
    [] OTHER                           -> verdict
ToTry == IF bodyOutcome = "import" THEN 0 ELSE teardown.planned - teardown.tried

(* The abstract steps in these names. *)
LEMMA LifecycleSteps ==
  /\ Phase = "idle" /\ Outcome = "none" /\ ToTry = 0 => Lifecycle!Init
  /\ /\ Phase \in {"idle", "over"}
     /\ Phase' = "test" /\ Outcome' = "none" /\ ToTry' \in 0..MaxRepeat
     => Lifecycle!Begin
  /\ Phase = "test" /\ Phase' = "over" /\ Outcome' = "failed" /\ ToTry' = ToTry
     => Lifecycle!Reject
  /\ /\ Phase = "test" /\ Phase' = "teardown"
     /\ \/ Outcome' \in {"passed", "failed", "interrupted"} /\ ToTry' = ToTry
        \/ Outcome' = "failed" /\ ToTry' = 0
     => Lifecycle!EndBody
  /\ /\ Phase = "teardown" /\ ToTry > 0 /\ ToTry' = ToTry - 1
     /\ Phase' = Phase /\ Outcome' = Outcome
     => Lifecycle!TryStatement
  /\ /\ Phase = "teardown" /\ ToTry = 0
     /\ Phase' = "over" /\ Outcome' = Outcome /\ ToTry' = ToTry
     => Lifecycle!Finish
  /\ Phase = "teardown" /\ Phase' = "over" /\ Outcome' = "interrupted" /\ ToTry' = ToTry
     => Lifecycle!Interrupt
  /\ Phase' = Phase /\ Outcome' = Outcome /\ ToTry' = ToTry
     => UNCHANGED Lifecycle!lifecycle
BY DEF Phase, Outcome, ToTry, Lifecycle!Init, Lifecycle!Begin, Lifecycle!Reject,
       Lifecycle!EndBody, Lifecycle!TryStatement, Lifecycle!Finish, Lifecycle!Interrupt,
       Lifecycle!lifecycle

LEMMA LifecycleInit == Init => Lifecycle!Init
  BY LifecycleSteps DEF Init, Phase, Outcome, ToTry

LEMMA OutcomeNames ==
  /\ OutcomeOf("none") = "passed" /\ OutcomeOf("error") = "failed"
  /\ OutcomeOf("interrupt") = "interrupted"
  /\ \A e : OutcomeOf(e) \in {"passed", "failed", "interrupted"}
  /\ OutcomeOf("import") = "failed"
  BY DEF OutcomeOf

(* A step that leaves stage, outcomes and teardown is no abstract step.    *)
LEMMA Stutter ==
  ASSUME stage' = stage, bodyOutcome' = bodyOutcome, teardown' = teardown, verdict' = verdict,
         stage = "exited" => raised' = raised
  PROVE  UNCHANGED Lifecycle!lifecycle
<1>1. Phase' = Phase /\ ToTry' = ToTry
  BY DEF Phase, ToTry
<1>2. Outcome' = Outcome
  BY DEF Outcome, OutcomeOf
<1> QED BY <1>1, <1>2, LifecycleSteps

LEMMA LifecycleStep ==
  ASSUME ExecutorInv, [Next]_vars
  PROVE  [Lifecycle!Next]_Lifecycle!lifecycle
<1>1. /\ StackTypes /\ StageInv /\ ControlTypes /\ OutcomeInv /\ TeardownInv
  BY DEF ExecutorInv
<1>2. /\ teardown.planned \in Nat /\ teardown.tried \in Nat
      /\ teardown.planned \in 0..MaxRepeat /\ teardown.tried \in 0..MaxRepeat
  BY <1>1, ExecutorAssumption DEF ControlTypes
<1>3. CASE Inside
  <2>1. UNCHANGED runVars /\ stage \in {"body", "teardown"}
    BY <1>1, <1>3, InsideFacts
  <2> QED BY <2>1, Stutter DEF runVars
<1>4. CASE UNCHANGED vars
  BY <1>4, Stutter DEF vars, executorVars
<1>5. CASE TeardownDone \/ TeardownUnwinds
  <2>1. stage = "teardown" /\ UNCHANGED runVars
    BY <1>1, <1>5, TestGoes DEF TeardownDone, TeardownUnwinds, Unwind, ControlTypes
  <2> QED BY <2>1, Stutter DEF runVars
<1>6. CASE BeginRun
  <2>1. Phase \in {"idle", "over"}
    BY <1>6 DEF BeginRun, Phase
  <2>2. Phase' = "test" /\ Outcome' = "none"
    BY <1>6 DEF BeginRun, Phase, Outcome
  <2>3. ToTry' \in 0..MaxRepeat
    <3>1. bodyOutcome' = "none" /\ teardown'.tried = 0 /\ teardown'.planned \in 0..MaxRepeat
      BY <1>6, CleanTeardown DEF BeginRun
    <3> QED BY <3>1, ExecutorAssumption DEF ToTry
  <2> QED BY <2>1, <2>2, <2>3, LifecycleSteps DEF Lifecycle!Next
<1>7. CASE NotStarted \/ ParseFails
  <2>1. Phase = "test" /\ Phase' = "over" /\ Outcome' = "failed" /\ ToTry' = ToTry
    BY <1>7 DEF NotStarted, ParseFails, Phase, Outcome, ToTry
  <2> QED BY <2>1, LifecycleSteps DEF Lifecycle!Next
<1>8. CASE ExecuteTree \/ ExecuteBody
  <2>1. Phase' = Phase /\ Outcome' = Outcome /\ ToTry' = ToTry
    BY <1>8 DEF ExecuteTree, ExecuteBody, AtStart, Phase, Outcome, ToTry
  <2> QED BY <2>1, LifecycleSteps
<1>9. CASE EndRun
  <2>1. Phase' = Phase /\ Outcome' = Outcome /\ ToTry' = ToTry
    BY <1>9 DEF EndRun, Phase, Outcome, ToTry
  <2> QED BY <2>1, LifecycleSteps
<1>10. CASE ImportFails
  <2>1. Phase = "test" /\ Phase' = "teardown" /\ Outcome' = "failed" /\ ToTry' = 0
    BY <1>10, OutcomeNames DEF ImportFails, AtStart, Phase, Outcome, ToTry
  <2> QED BY <2>1, LifecycleSteps DEF Lifecycle!Next
<1>11. CASE EnterFinally
  <2>1. stage = "body" /\ bodyOutcome = "none" /\ bodyOutcome' = raised
        /\ stage' \in {"teardown", "clear"} /\ teardown' = teardown
    BY <1>1, <1>11 DEF EnterFinally, EnterFinallyWhen, AtStart, OutcomeInv
  <2>2. raised # "import"
    BY <1>1 DEF StackTypes, Exceptions, ControlFlow
  <2>3. Phase = "test" /\ Phase' = "teardown" /\ ToTry' = ToTry
    BY <2>1, <2>2 DEF Phase, ToTry
  <2>4. Outcome' \in {"passed", "failed", "interrupted"}
    BY <2>1 DEF Outcome, OutcomeOf
  <2> QED BY <2>3, <2>4, LifecycleSteps DEF Lifecycle!Next
<1>12. CASE ClearAndLeave
  <2>1. /\ raised = "none" /\ raised' = Surfaced(bodyOutcome) /\ Len(frames) = 1
        /\ stage \in {"clear", "teardown"} /\ stage' = "exited"
        /\ UNCHANGED <<bodyOutcome, teardown>>
    BY <1>1, <1>12, TestGoes DEF ClearAndLeave, ClearThenLeave, Leave, AtStart, ControlTypes
  <2>2. ToTry = 0 /\ ToTry' = ToTry
    BY <1>1, <1>2, <2>1 DEF ToTry, TeardownInv
  <2>3. Phase = "teardown" /\ Phase' = "over"
    BY <2>1 DEF Phase
  <2>4. Outcome' = Outcome
    BY <2>1 DEF Outcome, OutcomeOf, Surfaced
  <2> QED BY <2>2, <2>3, <2>4, LifecycleSteps DEF Lifecycle!Next
<1>13. CASE InterruptedInTeardown
  <2>1. Phase = "teardown" /\ Phase' = "over" /\ Outcome' = "interrupted" /\ ToTry' = ToTry
    BY <1>13 DEF InterruptedInTeardown, AtStart, Leave, Phase, Outcome, OutcomeOf, ToTry
  <2> QED BY <2>1, LifecycleSteps DEF Lifecycle!Next
<1>14. ASSUME NEW node \in StatementNodes, TeardownStatement(node)
       PROVE  Lifecycle!Next
  <2>1. stage = "teardown" /\ stage' = stage /\ bodyOutcome # "import" /\ bodyOutcome' = bodyOutcome
    BY <1>1, <1>14, TestTakes DEF TeardownStatement, OutcomeInv
  <2>2. /\ teardown'.planned = teardown.planned /\ teardown'.tried = teardown.tried + 1
        /\ teardown.tried < teardown.planned
    BY <1>1, <1>14, TriedOneMore DEF TeardownStatement, ControlTypes
  <2>3. ToTry > 0 /\ ToTry' = ToTry - 1
    BY <1>2, <2>1, <2>2 DEF ToTry
  <2>4. Phase = "teardown" /\ Phase' = Phase
    BY <2>1 DEF Phase
  <2>5. Outcome' = Outcome
    BY <2>1 DEF Outcome, OutcomeOf
  <2> QED BY <2>3, <2>4, <2>5, LifecycleSteps DEF Lifecycle!Next
<1> QED BY <1>1, <1>3, <1>4, <1>5, <1>6, <1>7, <1>8, <1>9, <1>10, <1>11, <1>12, <1>13, <1>14,
           InsideOrOutside DEF Outside

(* The executor implements the promise of TestLifecycle: the body decides  *)
(* the outcome, every teardown statement is tried once, and only then is   *)
(* the test over, with that outcome.                                       *)
THEOREM ExecutorImplementsLifecycle == Spec => ImplementsLifecycle
<1>1. Init => Lifecycle!Init
  BY LifecycleInit
<1>2. ExecutorInv /\ [Next]_vars => [Lifecycle!Next]_Lifecycle!lifecycle
  BY LifecycleStep
<1> QED BY <1>1, <1>2, ExecutorInvariant, PTL DEF Spec, ImplementsLifecycle, Lifecycle!Spec

=============================================================================
