----------------------------- MODULE MCExecution -----------------------------
(***************************************************************************)
(* The two sides of an execution and the report of a build in one model:   *)
(* its initial states choose what moves; the rest stays in its initial     *)
(* state, where none of its fair actions is enabled.  The window moves     *)
(* twice: with every task while the user leaves the tabs to the projects,  *)
(* which have files, and with every tab while the user starts no build.    *)
(***************************************************************************)
EXTENDS ExecutionTask, ExecutionWindow, BuildReport
CONSTANTS c1, c2, d, b, f1, f2
SameId == [c \in {c1, c2} |-> "i"]
Modes == [t \in {d, b} |-> CASE t = d -> "debug" [] t = b -> "build"]

VARIABLE side  \* what moves

TabsStay ==
  /\ open' = {} \/ UNCHANGED <<open, tab>>
  /\ UNCHANGED <<attempt, inbox>> => UNCHANGED preview
OnlyDebugging == attempt'[b] = "none"

MCInit ==
  /\ side \in {"task", "window", "tabs", "report"}
  /\ TaskInit /\ WindowInit /\ ReportInit

MCNext ==
  /\ UNCHANGED side
  /\ \/ side = "task" /\ TaskNext /\ UNCHANGED <<windowVars, reportVars>>
     \/ side = "window" /\ WindowNext /\ TabsStay /\ UNCHANGED <<taskVars, reportVars>>
     \/ side = "tabs" /\ WindowNext /\ OnlyDebugging /\ UNCHANGED <<taskVars, reportVars>>
     \/ side = "report" /\ ReportNext /\ UNCHANGED <<taskVars, windowVars>>

MCSpec ==
  /\ MCInit /\ [][MCNext]_<<side, taskVars, windowVars, reportVars>>
  /\ TaskFairness /\ WindowFairness
=============================================================================
