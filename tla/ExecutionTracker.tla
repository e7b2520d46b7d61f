-------------------------- MODULE ExecutionTracker --------------------------
(***************************************************************************)
(* The step tracker of pytest_dsl/core/execution_tracker.py.               *)
(*                                                                         *)
(* A tracker is found or created per dsl_id in a process-wide registry, so *)
(* consecutive runs of one file share it.  It keeps a stack of the steps   *)
(* being executed, a cached pointer to the innermost one, and counters.    *)
(* Every operation runs under one non-reentrant lock; in the single        *)
(* executing thread modelled here an operation is therefore one step.      *)
(*                                                                         *)
(* The module has no next-state relation of its own: the executor that     *)
(* EXTENDS it conjoins these operations to its actions.                    *)
(***************************************************************************)
EXTENDS Naturals, Sequences

VARIABLES
  stepStack,    \* _step_stack: the steps started and not finished, innermost last
  currentStep,  \* current_step: what get_current_line reports
  total,        \* total_steps
  completed,    \* completed_steps
  failed,       \* failed_steps
  execution     \* "idle", "running" after start_execution, "finished" after finish_execution

trackerVars == <<stepStack, currentStep, total, completed, failed, execution>>

(* A step is known by the order in which it was started. *)
NoStep == [id |-> 0, kind |-> "None", line |-> 0]

TrackerInit ==
  /\ stepStack = <<>>
  /\ currentStep = NoStep
  /\ total = 0
  /\ completed = 0
  /\ failed = 0
  /\ execution = "idle"

StartExecution == execution' = "running"
FinishExecution == execution' = "finished"

(* The step that start_step creates for a node of this kind at this line. *)
NewStep(kind, line) == [id |-> total + 1, kind |-> kind, line |-> line]

StartStep(kind, line) ==
  /\ stepStack' = Append(stepStack, NewStep(kind, line))
  /\ currentStep' = NewStep(kind, line)
  /\ total' = total + 1
  /\ UNCHANGED <<completed, failed, execution>>

InnermostStep(stack) == IF stack = <<>> THEN NoStep ELSE stack[Len(stack)]

(* finish_current_step pops the innermost step, whichever it is; with an   *)
(* empty stack it does nothing.  The step below it is current again.       *)
PopStep(current, hasFailed) ==
  IF stepStack = <<>>
  THEN UNCHANGED trackerVars
  ELSE /\ stepStack' = SubSeq(stepStack, 1, Len(stepStack) - 1)
       /\ currentStep' = current
       /\ failed' = IF hasFailed THEN failed + 1 ELSE failed
       /\ completed' = IF hasFailed THEN completed ELSE completed + 1
       /\ UNCHANGED <<total, execution>>

FinishWithoutRestore(error) == PopStep(currentStep, error)  \* faulty: no restore

FinishCurrentStep(error) ==
  PopStep(InnermostStep(SubSeq(stepStack, 1, Len(stepStack) - 1)), error)
=============================================================================
