---------------------------- MODULE StepDebugger ----------------------------
(***************************************************************************)
(* The step debugger of pytest_dsl/workbench/debug.py: two callbacks that  *)
(* the tracker calls when a step starts and when it finishes.  The start   *)
(* callback may block on standard input until the user answers next,       *)
(* continue or stop; stop is raised as KeyboardInterrupt through the       *)
(* tracker into the executor.                                              *)
(*                                                                         *)
(* The executor that EXTENDS this module calls OnStepStart and             *)
(* OnStepFinish with the step's record, and keeps the blocked dispatch.    *)
(***************************************************************************)
EXTENDS Naturals

CONSTANTS
  DebuggerAttached,  \* TRUE under `workbench debug`, FALSE in an ordinary run
  PauseFromLine      \* --pause-from-line after normalize_pause_from_line; 0 for none

ASSUME DebuggerAssumption ==
  /\ DebuggerAttached \in BOOLEAN
  /\ PauseFromLine \in Nat \ {1}

VARIABLES
  callDepth,     \* _keyword_call_depth
  autoContinue,  \* auto_continue, set by the first "continue" (or by end of input)
  tracked        \* tracked_steps: ids of the steps announced with a start event

debuggerVars == <<callDepth, autoContinue, tracked>>

DebuggerInit ==
  /\ callDepth = 0
  /\ autoContinue = FALSE
  /\ tracked = {}

(* Structural nodes (Start, Statements, Teardown) are not debug steps. *)
DebugStepKinds ==
  { "Assignment", "AssignmentKeywordCall", "KeywordCall", "ForRangeLoop",
    "IfStatement", "Retry", "Return", "Break", "Continue" }

KeywordCallKinds == { "KeywordCall", "AssignmentKeywordCall" }

(* The early returns that ignore a step altogether. *)
Ignored(step) ==
  \/ ~DebuggerAttached
  \/ step.kind \notin DebugStepKinds
  \/ step.line < PauseFromLine

(* Steps inside a keyword body are stepped over, not announced. *)
Announced(step) == ~Ignored(step) /\ callDepth = 0

(* on_step_start announces the step and then waits for a command ... *)
Pauses(step) == Announced(step) /\ ~autoContinue

(* ... and keeps the nesting depth of the calls it steps over. *)
CountCalls(step, counted) ==
  /\ callDepth' = IF counted /\ step.kind \in KeywordCallKinds
                  THEN callDepth + 1 ELSE callDepth
  /\ tracked' = IF Announced(step) THEN tracked \cup {step.id} ELSE tracked
  /\ UNCHANGED autoContinue

CountOutermost(step) == CountCalls(step, Announced(step))  \* faulty: no nesting

OnStepStart(step) == CountCalls(step, ~Ignored(step))

(* on_step_finish counts every call that finishes, announced or not. *)
OnStepFinish(step) ==
  /\ callDepth' = IF DebuggerAttached /\ step.kind \in KeywordCallKinds /\ callDepth > 0
                  THEN callDepth - 1 ELSE callDepth
  /\ tracked' = tracked \ {step.id}
  /\ UNCHANGED autoContinue

(* read_debug_command answers; anything it does not know means next. *)
Commands == {"next", "continue", "stop"}
=============================================================================
