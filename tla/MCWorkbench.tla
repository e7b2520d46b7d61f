----------------------------- MODULE MCWorkbench -----------------------------
(***************************************************************************)
(* Three parts of the window that share nothing, in one model: its initial *)
(* states choose the part that moves, the others stay where they start.    *)
(***************************************************************************)
EXTENDS SuiteSelection, KeywordIndex, FileTabs
CONSTANTS root, a, all, r1, a1, a2, c1, k1, k2, b, lib
MCBelow == [d \in Suites |-> IF d = root THEN Suites ELSE {d}]
MCSuiteOf == [f \in CaseFiles |-> CASE f = r1 -> root [] f \in {a1, a2} -> a
                                    [] f = c1 -> all]

VARIABLE panelShown  \* the part that moves

(* A bound: no property of the tabs speaks of what follows a race or the   *)
(* loss of a file.                                                         *)
Unspoilt == ~spoilt /\ ~raced

MCInit ==
  /\ panelShown \in {"suites", "keywords", "tabs"}
  /\ SuiteInit /\ KeywordInit /\ TabsInit
  /\ panelShown # "suites" => tree = "debug"
  /\ home = k1  \* the projects are alike

MCNext ==
  /\ UNCHANGED panelShown
  /\ \/ /\ panelShown = "suites" /\ SuiteNext
        /\ UNCHANGED <<keywordVars, tabsVars>>
     \/ /\ panelShown = "keywords" /\ KeywordNext
        /\ UNCHANGED <<suiteVars, tabsVars>>
     \/ /\ panelShown = "tabs" /\ Unspoilt /\ TabsNext
        /\ UNCHANGED <<suiteVars, keywordVars>>

MCSpec ==
  MCInit /\ [][MCNext]_<<panelShown, suiteVars, keywordVars, tabsVars>>
=============================================================================
