-------------------------- MODULE DefinitionWindows --------------------------
(***************************************************************************)
(* The child windows that show a keyword's source: openDefinitionWindow    *)
(* and its neighbours in electron-gui/main.js.  One window per source      *)
(* file, at most MAX_DEFINITION_WINDOWS of them; a window that is asked to *)
(* close is destroyed some time later.                                     *)
(***************************************************************************)
EXTENDS Naturals, FiniteSets, Sequences, SequencesExt

CONSTANTS
  SourceFiles,           \* files that hold definitions
  SourceLines,                 \* lines a definition may be at
  MaxWindows,            \* bound: windows that exist at once
  Nothing,               \* no window, no line
  MaxDefinitionWindows   \* MAX_DEFINITION_WINDOWS

ASSUME WindowsAssumption ==
  /\ MaxDefinitionWindows \in Nat \ {0} /\ MaxWindows \in Nat
  /\ Nothing \notin 1 .. MaxWindows /\ Nothing \notin SourceLines

VARIABLES
  child,     \* of a window: see Absent
  byFile,    \* definitionWindows
  recency,   \* DEFINITION_WINDOW_LRU
  reopened   \* history: a file was opened again before its window was gone

windowVars == <<child, byFile, recency, reopened>>

Absent == [at |-> "absent"]
Windows == 1 .. MaxWindows

WindowsInit ==
  /\ child = [w \in Windows |-> Absent]
  /\ byFile = [f \in SourceFiles |-> Nothing]
  /\ recency = <<>>
  /\ reopened = FALSE

Alive(w) == child[w].at \in {"loading", "open"}
Closing(win) == [at |-> "closing", file |-> win.file]
Registered(files) == {f \in SourceFiles : files[f] # Nothing}

-----------------------------------------------------------------------------

(* definition:data sent to a window that exists.  A page that has not      *)
(* finished loading does not hear it.                                      *)
JumpTo(win, line) ==
  IF win.at = "closing" THEN win
  ELSE [win EXCEPT !.asked = line,
                   !.shown = IF win.at = "open" THEN line ELSE @,
                   !.early = (@ \/ win.at = "loading")]

ReuseWindow(f, line) ==
  /\ byFile[f] # Nothing
  /\ child' = [child EXCEPT ![byFile[f]] = JumpTo(@, line)]
  /\ UNCHANGED <<byFile, recency, reopened>>

(* The file whose window makes room.                                       *)
Evicted ==
  IF Cardinality(Registered(byFile)) >= MaxDefinitionWindows /\ recency # <<>>
  THEN {Head(recency)} ELSE {}

NewWindow(w, f, line) ==
  /\ byFile[f] = Nothing
  /\ child[w] = Absent /\ \A v \in 1 .. w - 1 : child[v] # Absent
  /\ child' = [v \in Windows |->
       IF v = w THEN [at |-> "loading", file |-> f, first |-> line, asked |-> line,
                      shown |-> Nothing, early |-> FALSE]
       ELSE IF \E e \in Evicted : v = byFile[e] THEN Closing(child[v]) ELSE child[v]]
  /\ byFile' = [g \in SourceFiles |-> IF g = f THEN w
                                      ELSE IF g \in Evicted THEN Nothing ELSE byFile[g]]
  /\ recency' = Append(IF Evicted = {} THEN recency ELSE Tail(recency), f)
  /\ reopened' = (reopened \/ \E v \in Windows :
                    child[v].at = "closing" /\ child[v].file = f)

OpenDefinitionWindow(f, line) ==
  ReuseWindow(f, line) \/ \E w \in Windows : NewWindow(w, f, line)

(* did-finish-load: the definition the window was made for is sent.        *)
FinishLoad(w) ==
  /\ child[w].at = "loading"
  /\ child' = [child EXCEPT ![w].at = "open", ![w].shown = child[w].first,
                                 ![w].first = Nothing]
  /\ UNCHANGED <<byFile, recency, reopened>>

(* closeDefinitionWindow, or the window's own button                       *)
CloseDefinitionWindow(w) ==
  /\ Alive(w)
  /\ child' = [child EXCEPT ![w] = Closing(@)]
  /\ UNCHANGED <<byFile, recency, reopened>>

(* splice(i, 1), and with it indexOf: the first entry of the file goes.    *)
Without(files, i) ==
  [j \in 1 .. Len(files) - 1 |-> IF j < i THEN files[j] ELSE files[j + 1]]

Splice(f) ==
  \/ f \notin ToSet(recency) /\ UNCHANGED recency
  \/ \E i \in 1 .. Len(recency) :
       /\ recency[i] = f /\ \A j \in 1 .. i - 1 : recency[j] # f
       /\ recency' = Without(recency, i)

(* A mutant of Deregister: only the order of use forgets the file.         *)
KeepRegistered(f) == Splice(f) /\ UNCHANGED byFile

Deregister(f) ==
  /\ byFile' = [byFile EXCEPT ![f] = Nothing]
  /\ Splice(f)

(* The "closed" event: by file, whichever window the file has by now.      *)
Closed(w) ==
  /\ child[w].at = "closing"
  /\ Deregister(child[w].file)
  /\ child' = [child EXCEPT ![w] = Absent]
  /\ UNCHANGED reopened

CloseAllDefinitionWindows ==
  /\ child' = [w \in Windows |-> IF \E f \in SourceFiles : byFile[f] = w
                                  THEN Closing(child[w])
                                  ELSE child[w]]
  /\ byFile' = [f \in SourceFiles |-> Nothing]
  /\ recency' = <<>>
  /\ UNCHANGED reopened

WindowsNext ==
  \/ \E f \in SourceFiles, line \in SourceLines : OpenDefinitionWindow(f, line)
  \/ \E w \in Windows : FinishLoad(w) \/ CloseDefinitionWindow(w) \/ Closed(w)
  \/ CloseAllDefinitionWindows

WindowsSpec == WindowsInit /\ [][WindowsNext]_windowVars

-----------------------------------------------------------------------------
(* The variables have their types, and every registered window exists and  *)
(* shows the file it is registered for.                                    *)
WindowsTypeOK ==
  /\ byFile \in [SourceFiles -> Windows \cup {Nothing}]
  /\ \A w \in Windows : child[w].at \in {"absent", "loading", "open", "closing"}
  /\ recency \in Seq(SourceFiles) /\ reopened \in BOOLEAN
  /\ \A f \in Registered(byFile) :
       child[byFile[f]] # Absent /\ child[byFile[f]].file = f

(* The order of use lists every registered file once and no other, so the  *)
(* limit holds: at most MaxDefinitionWindows are registered.               *)
RecencyListsRegistered ==
  /\ ToSet(recency) = Registered(byFile)
  /\ Len(recency) = Cardinality(Registered(byFile))
  /\ Len(recency) <= MaxDefinitionWindows

(* A window on the screen can be found by its file (to be reused, evicted  *)
(* or closed with the others), unless a file was opened again while its    *)
(* earlier window was closing.                                             *)
WindowsAreFound ==
  ~reopened => \A w \in Windows : Alive(w) => byFile[child[w].file] = w

(* An open window shows the definition it was asked for last, unless it    *)
(* was asked while it was loading.                                         *)
ShowsLastDefinition ==
  \A w \in Windows : child[w].at = "open" /\ ~child[w].early =>
    child[w].shown = child[w].asked

(* The windows of definitions are all known, bounded, and show what was    *)
(* asked for last.                                                         *)
DefinitionsAreShown ==
  /\ WindowsTypeOK
  /\ RecencyListsRegistered /\ WindowsAreFound /\ ShowsLastDefinition
=============================================================================
