---------------------------- MODULE TestLifecycle ----------------------------
(***************************************************************************)
(* What the executor promises of one test, whatever its statements do:     *)
(* the test body decides the outcome; then every statement of the teardown *)
(* is tried, once; only then is the test over, with that outcome.  The     *)
(* exceptions are a text that is rejected before anything runs, imports    *)
(* that fail before the teardown block is known, and the user's interrupt  *)
(* of the teardown itself.                                                 *)
(***************************************************************************)
EXTENDS Naturals

CONSTANT MaxTeardown  \* bound: statements of a teardown block

VARIABLES
  phase,    \* "idle", "test", "teardown" or "over"
  outcome,  \* "none" until the body has ended
  toTry     \* teardown statements not tried yet

lifecycle == <<phase, outcome, toTry>>

Init == phase = "idle" /\ outcome = "none" /\ toTry = 0

Begin ==
  /\ phase \in {"idle", "over"}
  /\ phase' = "test" /\ outcome' = "none" /\ toTry' \in 0..MaxTeardown

Reject ==
  /\ phase = "test"
  /\ phase' = "over" /\ outcome' = "failed" /\ UNCHANGED toTry

EndBody ==
  /\ phase = "test"
  /\ phase' = "teardown"
  /\ \/ outcome' \in {"passed", "failed", "interrupted"} /\ UNCHANGED toTry
     \/ outcome' = "failed" /\ toTry' = 0

TryStatement ==
  /\ phase = "teardown" /\ toTry > 0
  /\ toTry' = toTry - 1
  /\ UNCHANGED <<phase, outcome>>

Finish ==
  /\ phase = "teardown" /\ toTry = 0
  /\ phase' = "over"
  /\ UNCHANGED <<outcome, toTry>>

Interrupt ==
  /\ phase = "teardown"
  /\ phase' = "over" /\ outcome' = "interrupted"
  /\ UNCHANGED toTry

Next == Begin \/ Reject \/ EndBody \/ TryStatement \/ Finish \/ Interrupt

Spec == Init /\ [][Next]_lifecycle
=============================================================================
