---------------------------- MODULE DirectoryHooks ----------------------------
(***************************************************************************)
(* The setup and teardown files of directories around test cases:          *)
(* pytest_dsl/plugin.py over pytest_dsl/core/auto_directory.py, in each of *)
(* the processes of a test run (one, or the workers of pytest-xdist).  A   *)
(* process collects all cases and runs some of them: others deselect them, *)
(* take them, or an interrupt or -x ends the run before.                   *)
(***************************************************************************)
EXTENDS Naturals, FiniteSets, Sequences, SequencesExt

CONSTANTS
  Processes,   \* the processes of the run
  Cases,       \* the collected cases
  Directories,
  ChainOf,     \* of a case: its directories, from the hook root to its own
  SetupIn, TeardownIn,  \* the directories that have such a file
  NoCase

ASSUME HooksAssumption ==
  /\ IsFiniteSet(Cases) /\ IsFiniteSet(Directories)
  /\ ChainOf \in [Cases -> Seq(Directories)]
  /\ SetupIn \subseteq Directories /\ TeardownIn \subseteq Directories
  /\ \A c \in Cases : ChainOf[c] # <<>> /\ IsInjective(ChainOf[c])
  /\ \A c, e \in Cases : \A i \in DOMAIN ChainOf[c] : \A j \in DOMAIN ChainOf[e] :
       ChainOf[c][i] = ChainOf[e][j] =>
         SubSeq(ChainOf[c], 1, i) = SubSeq(ChainOf[e], 1, j)
  /\ NoCase \notin Cases

VARIABLES
  sameHash,  \* hash() is the same in all processes, and so are the lock files
  left,      \* cases no process has taken
  proc,      \* of a process: where it is in pytest's protocol
  scope,     \* DslLifecycleState: setup_executed, teardown_executed, counts
  ran,       \* _setup_executed and _teardown_executed of auto_directory
  times      \* history: how often a hook file was executed to its end

hooksVars == <<sameHash, left, proc, scope, ran, times>>

Kinds == {"setup", "teardown"}
FileIn(kind) == IF kind = "setup" THEN SetupIn ELSE TeardownIn
CasesIn(d) == {c \in Cases : d \in ToSet(ChainOf[c])}
Collected == {d \in Directories : CasesIn(d) # {}}
Depth(d) == LET c == CHOOSE c \in CasesIn(d) : TRUE
            IN  CHOOSE i \in DOMAIN ChainOf[c] : ChainOf[c][i] = d

(* pytest_configure and pytest_collection_modifyitems in every process     *)
HooksInit ==
  /\ sameHash \in BOOLEAN
  /\ left = Cases
  /\ proc = [p \in Processes |->
       [at |-> "idle", case |-> NoCase, todo |-> <<>>, hook |-> "none", cut |-> FALSE]]
  /\ scope = [p \in Processes |->
       [setup |-> {}, teardown |-> {}, count |-> [d \in Collected |-> Cardinality(CasesIn(d))]]]
  /\ ran = [p \in Processes |-> [k \in Kinds |-> {}]]
  /\ times = [p \in Processes |-> [k \in Kinds |-> [d \in Directories |-> 0]]]

-----------------------------------------------------------------------------
KindAt(p) == IF proc[p].at = "setup" THEN "setup" ELSE "teardown"

Doing(p, d) == proc[p].todo # <<>> /\ d = Head(proc[p].todo)

(* Where a process goes when a loop over directories is over or left.      *)
Idle(p) == [proc[p] EXCEPT !.at = "idle", !.case = NoCase, !.todo = <<>>, !.hook = "none"]
Teardown(p) ==
  [proc[p] EXCEPT !.at = "teardown", !.todo = Reverse(ChainOf[proc[p].case]), !.hook = "none"]

(* The open directories, the deepest first; those of one depth in the      *)
(* order in which they were collected, which may be any.                   *)
ClosingOrders(p) ==
  LET open == Collected \ scope[p].teardown
  IN  {order \in [1 .. Cardinality(open) -> open] :
         /\ ToSet(order) = open
         /\ \A i, j \in DOMAIN order : i < j => Depth(order[i]) >= Depth(order[j])}

(* pytest_sessionfinish                                                    *)
SessionFinish(p) ==
  {[proc[p] EXCEPT !.at = "finish", !.case = NoCase, !.hook = "none", !.todo = order] :
     order \in ClosingOrders(p)}

(* pytest takes a case in some process: pytest_runtest_setup begins.       *)
TakeCase(p, c) ==
  /\ proc[p].at = "idle" /\ c \in left
  /\ left' = left \ {c}
  /\ proc' = [proc EXCEPT ![p] = [proc[p] EXCEPT !.at = "setup", !.case = c, !.todo = ChainOf[c]]]
  /\ UNCHANGED <<sameHash, scope, ran, times>>

(* No case is left for the process, or it is not to run any more.          *)
LeaveSession(p) ==
  /\ proc[p].at = "idle"
  /\ \E next \in SessionFinish(p) : proc' = [proc EXCEPT ![p] = next]
  /\ UNCHANGED <<sameHash, left, scope, ran, times>>

(* The loop is over.                                                       *)
LoopEnds(p) ==
  /\ proc[p].at \in {"setup", "teardown", "finish"} /\ proc[p].todo = <<>>
  /\ proc' = [proc EXCEPT ![p] =
       CASE proc[p].at = "setup"    -> [proc[p] EXCEPT !.at = "case"]
         [] proc[p].at = "teardown" -> Idle(p)
         [] proc[p].at = "finish"   -> [proc[p] EXCEPT !.at = "ended"]]
  /\ UNCHANGED <<sameHash, left, scope, ran, times>>

(* The case passes or fails, or an interrupt or pytest.exit leaves the     *)
(* protocol without its teardown.                                          *)
CaseEnds(p) ==
  /\ proc[p].at = "case"
  /\ \E next \in {Teardown(p)} \cup SessionFinish(p) : proc' = [proc EXCEPT ![p] = next]
  /\ UNCHANGED <<sameHash, left, scope, ran, times>>

-----------------------------------------------------------------------------
(* _close_finished_directories comes to a directory.                       *)
CountDown(p) ==
  /\ proc[p].at = "teardown" /\ proc[p].todo # <<>> /\ proc[p].hook = "none"
  /\ LET d == Head(proc[p].todo)
         n == scope[p].count[d]
         rest == IF n > 0 THEN n - 1 ELSE 0
     IN  /\ scope' = [scope EXCEPT ![p].count[d] = rest]
         /\ IF rest = 0 /\ d \notin scope[p].teardown
            THEN proc' = [proc EXCEPT ![p].hook = "due"]
            ELSE proc' = [proc EXCEPT ![p].todo = Tail(@)]
  /\ UNCHANGED <<sameHash, left, ran, times>>

(* The loop of pytest_runtest_setup comes to a directory that is set up.   *)
SkipSetup(p) ==
  /\ proc[p].at = "setup" /\ proc[p].hook = "none" /\ proc[p].todo # <<>>
  /\ Head(proc[p].todo) \in scope[p].setup
  /\ proc' = [proc EXCEPT ![p].todo = Tail(@)]
  /\ UNCHANGED <<sameHash, left, scope, ran, times>>

HookIsDue(p) ==
  /\ proc[p].todo # <<>>
  /\ \/ proc[p].at = "setup" /\ proc[p].hook = "none" /\ Head(proc[p].todo) \notin scope[p].setup
     \/ proc[p].at = "finish" /\ proc[p].hook = "none"
     \/ proc[p].hook = "due"

(* The hook of d returned: the directory is done.                          *)
Returned(p, d) ==
  /\ scope' = IF KindAt(p) = "setup" THEN [scope EXCEPT ![p].setup = @ \cup {d}]
              ELSE [scope EXCEPT ![p].teardown = @ \cup {d}]
  /\ proc' = [proc EXCEPT ![p].todo = Tail(@), ![p].hook = "none"]

(* An exception ends the loop: pytest goes on to the teardown, to the next *)
(* case or to its end.                                                     *)
AfterRaise(p) ==
  CASE proc[p].at = "setup"    -> Teardown(p)
    [] proc[p].at = "teardown" -> Idle(p)
    [] proc[p].at = "finish"   ->
         [proc[p] EXCEPT !.at = "ended", !.todo = <<>>, !.hook = "none", !.cut = TRUE]

(* A mutant of Raised: a directory whose setup failed counts as set up.    *)
RaisedAsDone(p, d) ==
  /\ scope' = [scope EXCEPT ![p].setup = IF KindAt(p) = "setup" THEN @ \cup {d} ELSE @]
  /\ proc' = [proc EXCEPT ![p] = AfterRaise(p)]

(* The hook of d raised.                                                   *)
Raised(p, d) ==
  /\ UNCHANGED scope
  /\ proc' = [proc EXCEPT ![p] = AfterRaise(p)]

(* execute_hook_file: the directory has no such file, or the process has   *)
(* executed it.                                                            *)
PassHook(p) ==
  /\ HookIsDue(p)
  /\ \E d \in Directories :
       /\ Doing(p, d) /\ (d \notin FileIn(KindAt(p)) \/ d \in ran[p][KindAt(p)])
       /\ Returned(p, d)
  /\ UNCHANGED <<sameHash, left, ran, times>>

(* Another process holds the lock file of this hook.                       *)
Locked(p, d) ==
  sameHash /\ \E q \in Processes \ {p} :
    proc[q].hook = "runs" /\ Doing(q, d) /\ KindAt(q) = KindAt(p)

BeginHook(p) ==
  /\ HookIsDue(p)
  /\ \E d \in Directories :
       /\ Doing(p, d) /\ d \in FileIn(KindAt(p)) \ ran[p][KindAt(p)]
       /\ ~Locked(p, d)
  /\ proc' = [proc EXCEPT ![p].hook = "runs"]
  /\ UNCHANGED <<sameHash, left, scope, ran, times>>

(* The file was executed; its mark in /tmp may not be writable.            *)
EndHook(p) ==
  /\ proc[p].hook = "runs"
  /\ \E d \in Directories :
       /\ Doing(p, d)
       /\ times' = [times EXCEPT ![p][KindAt(p)][d] = @ + 1]
       /\ ran' = [ran EXCEPT ![p][KindAt(p)] = @ \cup {d}]
       /\ Returned(p, d) \/ Raised(p, d)
  /\ UNCHANGED <<sameHash, left>>

FailHook(p) ==
  /\ proc[p].hook = "runs"
  /\ \E d \in Directories : Doing(p, d) /\ Raised(p, d)
  /\ UNCHANGED <<sameHash, left, ran, times>>

(* An interrupt leaves pytest's protocol, or its end.                      *)
InterruptHook(p) ==
  /\ proc[p].hook = "runs" /\ proc[p].at # "finish"
  /\ \E next \in SessionFinish(p) : proc' = [proc EXCEPT ![p] = next]
  /\ UNCHANGED <<sameHash, left, scope, ran, times>>

ProcessStep(p) ==
  \/ \E c \in Cases : TakeCase(p, c)
  \/ LeaveSession(p) \/ LoopEnds(p) \/ CaseEnds(p) \/ CountDown(p) \/ SkipSetup(p)
  \/ PassHook(p) \/ BeginHook(p) \/ EndHook(p) \/ FailHook(p) \/ InterruptHook(p)

(* All processes are over.                                                 *)
RunEnded == (\A p \in Processes : proc[p].at = "ended") /\ UNCHANGED hooksVars

HooksNext == (\E p \in Processes : ProcessStep(p)) \/ RunEnded

HooksSpec == HooksInit /\ [][HooksNext]_hooksVars

-----------------------------------------------------------------------------
(* The variables have their types.                                         *)
HooksTypeOK ==
  /\ left \subseteq Cases
  /\ \A p \in Processes :
       /\ proc[p].at \in {"idle", "setup", "case", "teardown", "finish", "ended"}
       /\ proc[p].hook \in {"none", "due", "runs"} /\ proc[p].todo \in Seq(Collected)
       /\ scope[p].setup \cup scope[p].teardown \subseteq Collected

(* A case runs inside its directories: each has been set up, none is torn  *)
(* down, whatever hooks of earlier cases failed or were tried again.       *)
CaseInScope ==
  \A p \in Processes : proc[p].at = "case" =>
    \A d \in ToSet(ChainOf[proc[p].case]) :
      /\ d \in SetupIn => times[p]["setup"][d] = 1
      /\ d \notin scope[p].teardown /\ times[p]["teardown"][d] = 0

(* No directory is torn down before those in it that were set up, although *)
(* a failing teardown leaves the counts of the outer ones too high.        *)
InnermostFirst ==
  \A p \in Processes : \A c \in Cases : \A i, j \in DOMAIN ChainOf[c] :
    i < j /\ ChainOf[c][i] \in scope[p].teardown /\ ChainOf[c][j] \in scope[p].setup
      => ChainOf[c][j] \in scope[p].teardown

(* A process executes no hook file to its end twice.                       *)
OncePerProcess ==
  \A p \in Processes, k \in Kinds, d \in Directories : times[p][k][d] <= 1

(* A process that has ended has torn down all it set up, unless a teardown *)
(* failed at its very end.                                                 *)
AllClosed ==
  \A p \in Processes : proc[p].at = "ended" /\ ~proc[p].cut =>
    scope[p].setup \subseteq scope[p].teardown

(* In each process, setups and teardowns of directories enclose the cases  *)
(* like brackets, once each.                                               *)
HooksEncloseCases ==
  HooksTypeOK /\ CaseInScope /\ InnermostFirst /\ OncePerProcess /\ AllClosed

(* What auto_directory.py says of its lock and its mark file: a hook that  *)
(* one process has executed is not executed by another.                    *)
OnceAcrossProcesses ==
  \A k \in Kinds, d \in Directories :
    Cardinality({p \in Processes : times[p][k][d] > 0}) <= 1
=============================================================================
