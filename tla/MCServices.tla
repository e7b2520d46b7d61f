----------------------------- MODULE MCServices ------------------------------
(***************************************************************************)
(* Three parts of the window with the services behind them, in one model:  *)
(* a build task, the monitor of remote servers, and the project search.    *)
(* The initial states choose the one that moves; the others stay where     *)
(* they start, where none of their fair actions is enabled.                *)
(***************************************************************************)
EXTENDS BuildTask, RemoteMonitor, ProjectSearch
CONSTANTS home, away, conf1, conf2, t1, t2, f, g, h, x, y
Tree == [paths \in SUBSET TreePaths |-> SelectSeq(<<f, g, h>>, LAMBDA p : p \in paths)]

VARIABLE service  \* the one that moves

(* Bounds of the search: the queries are alike, so x comes first, and only *)
(* the files of the project shown first change.                            *)
Alike ==
  /\ fileTexts'[away] = fileTexts[away]
  /\ panel.seq = 0 /\ panel.query = Nothing => panel'.query # y

MCInit ==
  /\ service \in {"build", "monitor", "search"}
  /\ Init /\ MonitorInit /\ SearchInit
  /\ service # "monitor" => configDir = [p \in Projects |-> Configs]
MCNext ==
  /\ UNCHANGED service
  /\ \/ service = "build" /\ Next /\ UNCHANGED <<monitorVars, searchVars>>
     \/ service = "monitor" /\ MonitorNext /\ UNCHANGED <<vars, searchVars>>
     \/ service = "search" /\ SearchNext /\ Alike /\ UNCHANGED <<vars, monitorVars>>
MCSpec ==
  /\ MCInit /\ [][MCNext]_<<service, vars, monitorVars, searchVars>>
  /\ Fairness /\ MonitorFairness /\ SearchFairness
=============================================================================
