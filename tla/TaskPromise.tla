----------------------------- MODULE TaskPromise -----------------------------
(***************************************************************************)
(* What the GUI's main process promises of a task it runs for the window:  *)
(* it completes once, with an outcome that is "stopped" exactly when the   *)
(* user stopped it before, and it is forgotten only after that; a stop     *)
(* that comes later changes nothing about the outcome.                     *)
(***************************************************************************)

VARIABLES
  phase,      \* "new", "running", "completed" or "forgotten"
  cancelled,  \* the user asked for a stop
  outcome     \* "none" until the task completes

promise == <<phase, cancelled, outcome>>

Init == phase = "new" /\ cancelled = FALSE /\ outcome = "none"

Start ==
  /\ phase = "new" /\ phase' = "running"
  /\ UNCHANGED <<cancelled, outcome>>

Cancel ==
  /\ phase \in {"running", "completed"} /\ cancelled' = TRUE
  /\ UNCHANGED <<phase, outcome>>

Complete ==
  /\ phase = "running"
  /\ phase' \in {"completed", "forgotten"}
  /\ outcome' \in IF cancelled THEN {"stopped"} ELSE {"passed", "failed"}
  /\ UNCHANGED cancelled

Forget ==
  /\ phase = "completed" /\ phase' = "forgotten"
  /\ UNCHANGED <<cancelled, outcome>>

Next == Start \/ Cancel \/ Complete \/ Forget

Spec == Init /\ [][Next]_promise
=============================================================================
