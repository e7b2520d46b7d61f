---------------------------- MODULE KeywordIndex ----------------------------
(***************************************************************************)
(* What the window knows of a project's keywords: the two caches of        *)
(* electron-gui/src/services/keywordDefinitionService.js in the main       *)
(* process (with the calls of main.js that invalidate them), the list the  *)
(* editor completes from (renderer/configController.js) and the list of    *)
(* the keyword panel (renderer/keywordController.js).  All come from       *)
(* python processes that read the project while they run and end in any    *)
(* order.  The keywords of a project are a version of it.                  *)
(***************************************************************************)
EXTENDS Naturals, FiniteSets

CONSTANTS
  KeywordProjects,  \* project roots
  MaxAsks,          \* bound: queries under way at once
  MaxSaves,         \* bound: changes of a project's resource files
  MaxSwitches       \* bound: projects opened

ASSUME KeywordAssumption ==
  MaxAsks \in Nat /\ MaxSaves \in Nat /\ MaxSwitches \in Nat

VARIABLES
  sources,    \* of a project: the version of its keywords on disk
  required,   \* history: of a project, the version when its caches were
              \*   invalidated last
  overtaken,  \* history: of a project, a definition query ran at that time
  full,       \* definitionFullCache
  resource,   \* resourceDefinitionCache
  query,      \* the queries under way, each in a slot
  home,       \* snapshot.project.rootPath
  saving,     \* history: saves of a resource whose reply is on its way
  completion, \* completionKeywords and its state
  browser,    \* the keyword panel
  switches    \* history: projects opened

keywordVars == <<sources, required, overtaken, full, resource, query, home,
                 saving, completion, browser, switches>>

(* What a query found: the version the resource scan saw and the version   *)
(* python saw.                                                             *)
Missing == [some |-> FALSE, res |-> 0, py |-> 0]
Found(res, py) == [some |-> TRUE, res |-> res, py |-> py]
Silent == [kind |-> "none"]
NoList == [some |-> FALSE]

NewCompletion(root) ==
  [ root |-> root,        \* completionKeywordProjectRoot, if any
    list |-> NoList,      \* completionKeywords with their version and project
    loaded |-> FALSE,     \* completionKeywordsLoaded
    loading |-> FALSE,    \* completionKeywordLoadPromise is set
    since |-> 0,          \* history: the version at the last reset
    doubtful |-> FALSE ]  \* history: a list asked for before the last reset
                          \*   may still come, or a reset was left out

NewBrowser == [open |-> FALSE, loading |-> FALSE, list |-> NoList, since |-> 0]

KeywordInit ==
  /\ sources = [r \in KeywordProjects |-> 0]
  /\ required = [r \in KeywordProjects |-> 0]
  /\ overtaken = [r \in KeywordProjects |-> FALSE]
  /\ full = [r \in KeywordProjects |-> Missing]
  /\ resource = [r \in KeywordProjects |-> Missing]
  /\ query = [a \in 1 .. MaxAsks |-> Silent]
  /\ home \in KeywordProjects
  /\ saving = {}
  /\ completion = NewCompletion({})
  /\ browser = NewBrowser
  /\ switches = 0

(* A query takes the first slot that is free.                              *)
Asks == 1 .. MaxAsks
Free(a) == query[a] = Silent /\ \A b \in 1 .. a - 1 : query[b] # Silent

Running(kind) == {a \in Asks : query[a].kind = kind}

-----------------------------------------------------------------------------
(* The caches of the main process.                                         *)

(* A mutant of InvalidateDefinitionCache: the inner cache is forgotten.    *)
InvalidateFull(root) ==
  /\ full' = [full EXCEPT ![root] = Missing]
  /\ UNCHANGED resource

InvalidateDefinitionCache(root) ==
  /\ full' = [full EXCEPT ![root] = Missing]
  /\ resource' = [resource EXCEPT ![root] = Missing]

(* An entry older than DEFINITION_CACHE_TTL_MS is not used.                *)
Expire(root) ==
  /\ \/ full' = [full EXCEPT ![root] = Missing] /\ UNCHANGED resource
     \/ resource' = [resource EXCEPT ![root] = Missing] /\ UNCHANGED full
  /\ UNCHANGED <<sources, required, overtaken, query, home, saving, completion,
                 browser, switches>>

(* listKeywordDefinitions without an entry: the resources are scanned at   *)
(* once, through their own cache, python is asked.  prefetchDefinitionCache*)
(* does the same when a project was scanned.                               *)
FindKeywordDefinitions(a, root) ==
  /\ Free(a)
  /\ ~full[root].some
  /\ resource' = [resource EXCEPT ![root] = IF @.some THEN @ ELSE Found(sources[root], 0)]
  /\ query' = [query EXCEPT ![a] =
       [kind |-> "definition", root |-> root, res |-> resource'[root].res,
        from |-> sources[root], last |-> TRUE]]
  /\ UNCHANGED <<sources, required, overtaken, full, home, saving, completion,
                 browser, switches>>

(* The process reads the project at some moment of its life.               *)
PythonReads(a) == query[a].from .. sources[query[a].root]

DefinitionsFound(a) ==
  /\ query[a].kind = "definition"
  /\ \E py \in PythonReads(a) :
       full' = [full EXCEPT ![query[a].root] = Found(query[a].res, py)]
  /\ query' = [query EXCEPT ![a] = Silent]
  /\ UNCHANGED <<sources, required, overtaken, resource, home, saving, completion,
                 browser, switches>>

-----------------------------------------------------------------------------
(* The list the editor completes from.                                     *)

(* loadEditorCompletionKeywords; a list that came after a reset forgot the *)
(* project is asked for again.                                             *)
IsLoaded(c) == c.loaded /\ c.root = {home}

Load(c, a) ==
  IF IsLoaded(c) \/ c.loading
  THEN completion' = c /\ query' = query
  ELSE /\ Free(a)
       /\ completion' = [c EXCEPT !.root = {home}, !.loading = TRUE]
       /\ query' = [query EXCEPT ![a] =
            [kind |-> "completion", root |-> home, res |-> 0,
             from |-> sources[home], last |-> TRUE]]

LoadEditorCompletionKeywords(a) ==
  /\ ~IsLoaded(completion) /\ ~completion.loading
  /\ Load(completion, a)
  /\ UNCHANGED <<sources, required, overtaken, full, resource, home, saving,
                 browser, switches>>

(* resetEditorCompletionKeywords                                           *)
ResetCompletion(root) ==
  [NewCompletion({}) EXCEPT
     !.since = sources[root],
     !.doubtful = \E a \in Running("completion") : query[a].root = root]

IsCurrentProject(a) == query[a].root = home

CompletionAnswers(a) ==
  /\ query[a].kind = "completion"
  /\ \E ok \in BOOLEAN, py \in PythonReads(a) :
    /\ LET c == IF IsCurrentProject(a)
                THEN [completion EXCEPT
                        !.list = IF ok THEN [some |-> TRUE, root |-> query[a].root,
                                             version |-> py]
                                 ELSE NoList,
                        !.loaded = TRUE]
                ELSE completion
       IN  completion' = IF c.root = {query[a].root}
                         THEN [c EXCEPT !.loading = FALSE] ELSE c
    /\ query' = [query EXCEPT ![a] = Silent]
    /\ UNCHANGED <<sources, required, overtaken, full, resource, home, saving,
                   browser, switches>>

-----------------------------------------------------------------------------
(* The keyword panel.                                                      *)

(* loadKeywords; keywordLoadSeq only tells the last call from the others.  *)
LoadKeywords(a) ==
  /\ Free(a)
  /\ browser' = [browser EXCEPT !.open = TRUE, !.loading = TRUE, !.list = NoList,
                                !.since = sources[home]]
  /\ query' = [b \in Asks |->
       IF b = a THEN [kind |-> "panel", root |-> home, res |-> 0,
                      from |-> sources[home], last |-> TRUE]
       ELSE IF query[b].kind = "panel" THEN [query[b] EXCEPT !.last = FALSE]
       ELSE query[b]]

(* toggleKeywordPanel, or another search while it is open                  *)
UserLooksUpKeywords(a) ==
  /\ LoadKeywords(a)
  /\ UNCHANGED <<sources, required, overtaken, full, resource, home, saving,
                 completion, switches>>

CloseKeywordPanel ==
  /\ browser.open
  /\ browser' = [browser EXCEPT !.open = FALSE]
  /\ UNCHANGED <<sources, required, overtaken, full, resource, query, home, saving,
                 completion, switches>>

IsLastLoad(a) == query[a].last

KeywordsAnswer(a) ==
  /\ query[a].kind = "panel"
  /\ \E ok \in BOOLEAN, py \in PythonReads(a) :
    /\ browser' =
         IF ~IsLastLoad(a) THEN browser
         ELSE [browser EXCEPT !.loading = FALSE,
                 !.list = IF ok THEN [some |-> TRUE, root |-> query[a].root,
                                      version |-> py]
                          ELSE NoList]
    /\ query' = [query EXCEPT ![a] = Silent]
    /\ UNCHANGED <<sources, required, overtaken, full, resource, home, saving,
                   completion, switches>>

(* handleRefreshDefinitions                                                *)
Invalidated(root) ==
  /\ InvalidateDefinitionCache(root)
  /\ required' = [required EXCEPT ![root] = sources'[root]]
  /\ overtaken' = [overtaken EXCEPT ![root] =
       \E a \in Running("definition") : query[a].root = root]

HandleRefreshDefinitions(a) ==
  /\ UNCHANGED sources
  /\ Invalidated(home)
  /\ IF browser.open THEN LoadKeywords(a) ELSE UNCHANGED <<browser, query>>
  /\ UNCHANGED <<home, saving, completion, switches>>

-----------------------------------------------------------------------------
(* The project changes.                                                    *)
Changed(root) ==
  /\ sources[root] < MaxSaves
  /\ sources' = [sources EXCEPT ![root] = @ + 1]

(* file:save of a resource in the main process                             *)
SaveResource ==
  /\ Changed(home)
  /\ Invalidated(home)
  /\ saving' = saving \cup {home}
  /\ UNCHANGED <<query, home, completion, browser, switches>>

(* saveCurrentFile after its await: the language that counts is that of    *)
(* the tab that is active by then.                                         *)
SaveReplied(a) ==
  \E stillResource \in BOOLEAN :
    /\ home \in saving
    /\ saving' = saving \ {home}
    /\ IF stillResource THEN Load(ResetCompletion(home), a)
       ELSE completion' = [completion EXCEPT !.doubtful = TRUE] /\ UNCHANGED query
    /\ UNCHANGED <<sources, required, overtaken, full, resource, home, browser, switches>>

(* Another program writes a file: nobody is told.                          *)
EditOutside ==
  /\ Changed(home)
  /\ UNCHANGED <<required, overtaken, full, resource, query, home, saving, completion,
                 browser, switches>>

(* applySnapshot of another project, with resetKeywordBrowser              *)
SwitchProject(root) ==
  /\ root # home /\ switches < MaxSwitches
  /\ switches' = switches + 1
  /\ home' = root
  /\ completion' = ResetCompletion(root)
  /\ browser' = NewBrowser
  /\ query' = [a \in Asks |-> IF query[a].kind = "panel"
                              THEN [query[a] EXCEPT !.last = FALSE] ELSE query[a]]
  /\ UNCHANGED sources
  /\ Invalidated(home)
  /\ saving' = {}

KeywordNext ==
  \/ \E r \in KeywordProjects : Expire(r) \/ SwitchProject(r)
  \/ \E a \in Asks :
       \/ FindKeywordDefinitions(a, home) \/ DefinitionsFound(a)
       \/ LoadEditorCompletionKeywords(a) \/ CompletionAnswers(a)
       \/ UserLooksUpKeywords(a) \/ KeywordsAnswer(a)
       \/ HandleRefreshDefinitions(a) \/ SaveReplied(a)
  \/ CloseKeywordPanel \/ SaveResource \/ EditOutside

KeywordSpec == KeywordInit /\ [][KeywordNext]_keywordVars

-----------------------------------------------------------------------------
(* The variables have their types.                                         *)
KeywordTypeOK ==
  /\ sources \in [KeywordProjects -> 0 .. MaxSaves]
  /\ \A r \in KeywordProjects :
       full[r].res <= sources[r] /\ full[r].py <= sources[r] /\ resource[r].res <= sources[r]
  /\ home \in KeywordProjects /\ saving \subseteq KeywordProjects
  /\ \A a \in Asks : query[a].kind \in {"none", "definition", "completion", "panel"}
  /\ completion.root \in {{}} \cup {{r} : r \in KeywordProjects}
  /\ \A a, b \in Running("panel") : query[a].last /\ query[b].last => a = b

(* A definition the main process answers with was read after the last      *)
(* save of a resource, unless a query was already under way at that save.  *)
CachedDefinitionsAreSaved ==
  \A r \in KeywordProjects :
    /\ resource[r].some => resource[r].res >= required[r]
    /\ full[r].some /\ ~overtaken[r] =>
         full[r].res >= required[r] /\ full[r].py >= required[r]

(* The editor completes from the project that is open, and from keywords   *)
(* read after the last save that reset the list, unless a query from       *)
(* before that reset was still under way.                                  *)
CompletionIsOfProject ==
  completion.loaded /\ completion.list.some =>
    /\ completion.list.root = home
    /\ ~completion.doubtful => completion.list.version >= completion.since

(* The keyword panel shows the answer to its last question, whatever the   *)
(* order of the answers, and says "loading" exactly while that answer is   *)
(* on its way.                                                             *)
PanelShowsLastLookup ==
  /\ browser.list.some =>
       browser.list.root = home /\ browser.list.version >= browser.since
  /\ browser.loading <=> \E a \in Running("panel") : query[a].last

(* What the window knows of keywords is of its project and of its files.   *)
KeywordsAreCurrent ==
  /\ KeywordTypeOK
  /\ CachedDefinitionsAreSaved /\ CompletionIsOfProject /\ PanelShowsLastLookup
=============================================================================
