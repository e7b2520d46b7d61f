------------------------------ MODULE MCSession ------------------------------
(***************************************************************************)
(* What surrounds the tests of a session, in one model: the executor over  *)
(* two runs, the hooks of directories in two processes, the consoles that  *)
(* show the output, and the windows that show the source of keywords.  The *)
(* initial states choose which of them moves; they share no state.         *)
(***************************************************************************)
EXTENDS DSLExecutor, MCDirectoryHooks, Console, DefinitionWindows
CONSTANTS src1, src2, src3, line1, line2

VARIABLE around  \* what moves

MCInit ==
  /\ around \in {"runs", "hooks", "consoles", "definitions"}
  /\ Init /\ HooksInit /\ ConsoleInit /\ WindowsInit
  /\ around # "hooks" => ~sameHash
MCNext ==
  /\ UNCHANGED around
  /\ \/ /\ around = "runs" /\ Next
        /\ UNCHANGED <<hooksVars, consoleVars, windowVars>>
     \/ /\ around = "hooks" /\ HooksNext
        /\ UNCHANGED <<vars, consoleVars, windowVars>>
     \/ /\ around = "consoles" /\ ConsoleNext
        /\ UNCHANGED <<vars, hooksVars, windowVars>>
     \/ /\ around = "definitions" /\ WindowsNext
        /\ UNCHANGED <<vars, hooksVars, consoleVars>>
MCSpec == MCInit /\ [][MCNext]_<<around, vars, hooksVars, consoleVars, windowVars>>
=============================================================================
