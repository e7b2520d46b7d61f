---------------------------- MODULE ProjectSearch ----------------------------
(***************************************************************************)
(* Search and replace over a project: the panel of                         *)
(* renderer/searchController.js, the search handlers and the candidate     *)
(* cache of main.js, and the scan of services/searchService.js.  A search  *)
(* runs in the main process in chunks of BatchSize files and yields to the *)
(* other handlers between two of them; what it finds reaches the panel as  *)
(* events.  A text is abstracted to how often each query occurs in it; a   *)
(* query stands for its text and its options together.                     *)
(***************************************************************************)
EXTENDS Naturals, Sequences, FiniteSets, SequencesExt

CONSTANTS
  Queries,      \* what may be searched for
  TreePaths,    \* the paths a project may hold
  TreeOrder,    \* the order in which its tree lists a set of them
  Roots,        \* projects
  FirstRoot,    \* the project opened first
  Nothing,      \* no query or cache entry
  BatchSize,    \* files scanned between two yields
  MaxMatches,   \* options.maxMatches
  MaxHits,      \* bound: occurrences of a query in a file
  MaxSearches,  \* bound: searches started
  MaxWork       \* bound: changes of files, snapshots, queries, replacements

ASSUME SearchAssumption ==
  /\ Nothing \notin Queries /\ FirstRoot \in Roots
  /\ DOMAIN TreeOrder = SUBSET TreePaths
  /\ \A paths \in SUBSET TreePaths :
       LET order == TreeOrder[paths] IN
       order \in Seq(paths) /\ ToSet(order) = paths /\ IsInjective(order)
  /\ BatchSize \in Nat \ {0} /\ MaxMatches \in Nat \ {0} /\ MaxHits \in Nat
  /\ MaxSearches \in Nat /\ MaxWork \in Nat

VARIABLES
  fileTexts,     \* of a project: the texts of its files
  cache,    \* searchCandidateCache: of a project, the set of its paths or Nothing
  scans,    \* the searches the main process works on, by id
  requests,    \* requests on their way to the main process
  events,   \* events and snapshots on their way to the window
  replies,  \* answers of search:replace on their way to the window
  panel,    \* state.projectSearch and the project shown, see NewPanel
  outside,  \* history: a project's files were changed by another program
  orphan,   \* history: the active search is of a project no longer shown
  work      \* bound: what was done so far

searchVars == <<fileTexts, cache, scans, requests, events, replies, panel, outside, orphan, work>>

Texts == [Queries -> 0..MaxHits]

EmptySearchResult(q) == [query |-> q, files |-> <<>>, total |-> 0, truncated |-> FALSE]

NoResult == EmptySearchResult(Nothing)

NewPanel ==
  [ root |-> FirstRoot,    \* state.snapshot
    query |-> Nothing,
    active |-> 0,          \* activeSearchId
    seq |-> 0,
    loading |-> FALSE,
    result |-> NoResult ]

(* The first project has been opened and is shown.                         *)
SearchInit ==
  /\ fileTexts \in [Roots -> {[p \in TreePaths |-> [q \in Queries |-> 1]]}]
  /\ cache = [r \in Roots |-> IF r = FirstRoot THEN TreePaths ELSE Nothing]
  /\ scans = <<>> /\ requests = <<>> /\ events = <<>> /\ replies = <<>>
  /\ panel = NewPanel
  /\ outside = [r \in Roots |-> FALSE] /\ orphan = FALSE
  /\ work = 0

-----------------------------------------------------------------------------
(* The files of a project, and what changes them.                          *)
ListEditableFiles(r) == DOMAIN fileTexts[r]

(* Every way one file may change: written, created or deleted.             *)
Written(files, p, t) == [x \in DOMAIN files \cup {p} |-> IF x = p THEN t ELSE files[x]]

Without(files, p) == [x \in DOMAIN files \ {p} |-> files[x]]

Changed(files) ==
  {Written(files, p, t) : p \in TreePaths, t \in Texts}
    \cup {Without(files, p) : p \in DOMAIN files}

Change(r) ==
  /\ work < MaxWork
  /\ work' = work + 1
  /\ \E files \in Changed(fileTexts[r]) : fileTexts' = [fileTexts EXCEPT ![r] = files]
  /\ UNCHANGED <<scans, requests, events, replies, panel, orphan>>

(* invalidateProjectSearchCandidates.                                      *)
KeepCandidates(r) == cache   \* faulty: the handler does not invalidate

InvalidateCandidates(r) == [cache EXCEPT ![r] = Nothing]

(* file:save, file:create, file:rename, file:move and file:delete.         *)
ChangeFile(r) ==
  /\ r = panel.root
  /\ Change(r)
  /\ cache' = InvalidateCandidates(r)
  /\ UNCHANGED outside

(* Another program changes a file.                                         *)
ChangeFileOutside(r) ==
  /\ Change(r)
  /\ outside' = [outside EXCEPT ![r] = TRUE]
  /\ UNCHANGED cache

(* project:open, project:default and project:scan: the snapshot lists the  *)
(* files, and the candidates are cached with it.                           *)
TakeSnapshot(r) ==
  /\ work < MaxWork
  /\ work' = work + 1
  /\ cache' = [cache EXCEPT ![r] = ListEditableFiles(r)]
  /\ outside' = [outside EXCEPT ![r] = FALSE]
  /\ events' = Append(events, [type |-> "snapshot", root |-> r])
  /\ UNCHANGED <<fileTexts, scans, requests, replies, panel, orphan>>

-----------------------------------------------------------------------------
(* The scan.  scanSearchFile finds at most as many matches as remain;      *)
(* reading a file that is gone throws.                                     *)
ScanSearchFile(r, q, p, acc) ==
  LET hits == fileTexts[r][p][q]
      room == MaxMatches - acc.total
      n == IF hits < room THEN hits ELSE room
  IN  IF p \notin DOMAIN fileTexts[r] THEN [acc EXCEPT !.failed = TRUE]
      ELSE [ acc EXCEPT
               !.total = @ + n,
               !.files = IF n = 0 THEN @
                         ELSE Append(@, [path |-> p, text |-> fileTexts[r][p], n |-> n]) ]

(* The loop stops where it is full or has failed.                          *)
ScanFiles(r, q, paths, total) ==
  LET upTo[i \in 0..Len(paths)] ==
        IF i = 0 THEN [files |-> <<>>, total |-> total, failed |-> FALSE]
        ELSE LET acc == upTo[i - 1] IN
             IF acc.failed \/ acc.total >= MaxMatches THEN acc
             ELSE ScanSearchFile(r, q, paths[i], acc)
  IN  upTo[Len(paths)]

Event(id, type) == [type |-> type, id |-> id]
Finished(id, type, summary) == [type |-> type, id |-> id, result |-> summary]

(* flushBatch: the batch starts anew with every chunk.                     *)
BatchOf(s, found, summary) ==
  [ query |-> s.query, files |-> found.files, total |-> found.total - s.summary.total,
    truncated |-> summary.truncated ]

(* searchProjectBatches from one yield to the next.  Yields: what it sends *)
(* and, unless the search has ended, the scan that goes on.  A batch is    *)
(* sent before the scan yields; the cancellation is tested only where      *)
(* another file is left.                                                   *)
ChunkLength(s) == IF Len(s.todo) < BatchSize THEN Len(s.todo) ELSE BatchSize

Chunk(id, s, found) ==
  LET n == ChunkLength(s)
      full == found.total >= MaxMatches
      summary == [ s.summary EXCEPT !.files = @ \o found.files,
                                    !.total = found.total, !.truncated = full ]
      batch == [type |-> "batch", id |-> id, result |-> BatchOf(s, found, summary)]
  IN  IF s.todo = <<>> THEN
        [sent |-> <<Finished(id, "done", s.summary)>>, on |-> FALSE, scan |-> s]
      ELSE IF s.canceled THEN
        [sent |-> <<Finished(id, "canceled", s.summary)>>, on |-> FALSE, scan |-> s]
      ELSE IF found.failed THEN
        [sent |-> <<Event(id, "error")>>, on |-> FALSE, scan |-> s]
      ELSE IF full \/ n < BatchSize THEN
        [sent |-> <<batch, Finished(id, "done", summary)>>, on |-> FALSE, scan |-> s]
      ELSE
        [ sent |-> <<batch>>, on |-> TRUE,
          scan |-> [s EXCEPT !.summary = summary,
                             !.todo = SubSeq(@, n + 1, Len(@))] ]

Proceed(id, s, others) ==
  \E found \in {ScanFiles(s.root, s.query, SubSeq(s.todo, 1, ChunkLength(s)),
                          s.summary.total)} :
  \E step \in {Chunk(id, s, found)} :
  /\ events' = events \o step.sent
  /\ scans' = IF step.on THEN [i \in DOMAIN others \cup {id} |->
                                 IF i = id THEN step.scan ELSE others[i]]
              ELSE [i \in DOMAIN others \ {id} |-> others[i]]

(* A search continues after its yield.                                     *)
NextChunk(id) ==
  /\ id \in DOMAIN scans
  /\ Proceed(id, scans[id], scans)
  /\ UNCHANGED <<fileTexts, cache, requests, replies, panel, outside, orphan, work>>

(* search:start: the scan runs at once, up to its first yield.             *)
SearchCandidates(r) == IF cache[r] = Nothing THEN ListEditableFiles(r) ELSE cache[r]

HandleStart ==
  /\ requests # <<>> /\ Head(requests).type = "start"
  /\ LET c == Head(requests) IN
       Proceed(c.id, [ root |-> c.root, query |-> c.query, canceled |-> FALSE,
                       todo |-> TreeOrder[SearchCandidates(c.root)],
                       summary |-> EmptySearchResult(c.query) ], scans)
  /\ requests' = Tail(requests)
  /\ UNCHANGED <<fileTexts, cache, replies, panel, outside, orphan, work>>

(* search:cancel.                                                          *)
HandleCancel ==
  /\ requests # <<>> /\ Head(requests).type = "cancel"
  /\ scans' = [i \in DOMAIN scans |->
                 IF i = Head(requests).id THEN [scans[i] EXCEPT !.canceled = TRUE]
                 ELSE scans[i]]
  /\ requests' = Tail(requests)
  /\ UNCHANGED <<fileTexts, cache, events, replies, panel, outside, orphan, work>>

(* search:replace.  A file whose text is not the one that was searched is  *)
(* a conflict and is left alone.                                           *)
MatchesStillThere(text, q, file) == text[q] >= file.n   \* faulty: no hash is compared

SameHash(text, q, file) == text = file.text

(* applyMatchReplacements: the matches found become occurrences of "by".   *)
ApplyMatchReplacements(text, q, by, n) ==
  IF by = q THEN text
  ELSE [x \in Queries |-> CASE x = q -> text[x] - n
                            [] x = by -> text[x] + n
                            [] OTHER -> text[x]]

(* The files one by one: a file that is gone throws, and what was written  *)
(* before it stays written.  The files of a request are different ones.    *)
Vanished(c) == {i \in DOMAIN c.files : c.files[i].path \notin DOMAIN fileTexts[c.root]}

Replaced(c) ==
  {i \in DOMAIN c.files \ Vanished(c) :
     /\ \A j \in Vanished(c) : i < j
     /\ SameHash(fileTexts[c.root][c.files[i].path], c.query, c.files[i])}

HandleReplace ==
  /\ requests # <<>> /\ Head(requests).type = "replace"
  /\ LET c == Head(requests)
         texts == fileTexts[c.root]
         chosen(p) == {i \in Replaced(c) : c.files[i].path = p}
     IN /\ fileTexts' = [fileTexts EXCEPT ![c.root] = [p \in DOMAIN texts |->
             IF chosen(p) = {} THEN texts[p]
             ELSE ApplyMatchReplacements(texts[p], c.query, c.by,
                    c.files[CHOOSE i \in chosen(p) : TRUE].n)]]
        /\ replies' = Append(replies, Vanished(c) # {})
  /\ requests' = Tail(requests)
  /\ UNCHANGED <<cache, scans, events, panel, outside, orphan, work>>

-----------------------------------------------------------------------------
(* The panel.  Cancelled: cancelActiveSearch, what it sends.               *)
Cancelled == IF panel.active = 0 THEN <<>> ELSE <<Event(panel.active, "cancel")>>

(* clearProjectSearchPreview.                                              *)
ClearedPreview(p) == [p EXCEPT !.active = 0, !.result = NoResult, !.loading = FALSE]

(* handleProjectSearchInput and toggleProjectSearchOption.                 *)
SetQuery(q) ==
  /\ work < MaxWork /\ q # panel.query
  /\ work' = work + 1
  /\ panel' = ClearedPreview([panel EXCEPT !.query = q])
  /\ requests' = requests \o Cancelled
  /\ orphan' = FALSE
  /\ UNCHANGED <<fileTexts, cache, scans, events, replies, outside>>

(* closeProjectSearch: what was found so far stays.                        *)
CloseProjectSearch ==
  /\ panel' = [panel EXCEPT !.active = 0, !.loading = FALSE]
  /\ requests' = requests \o Cancelled
  /\ orphan' = FALSE
  /\ UNCHANGED <<fileTexts, cache, scans, events, replies, outside, work>>

(* runProjectSearch, from the panel or after a replacement.                *)
RunProjectSearch ==
  /\ panel.seq < MaxSearches
  /\ orphan' = FALSE
  /\ IF panel.query = Nothing
     THEN /\ panel' = ClearedPreview(panel)
          /\ requests' = requests \o Cancelled
     ELSE LET id == panel.seq + 1 IN
          /\ panel' = [panel EXCEPT !.seq = id, !.active = id, !.loading = TRUE,
                                    !.result = EmptySearchResult(panel.query)]
          /\ requests' = requests \o Cancelled \o
               << [type |-> "start", id |-> id, root |-> panel.root,
                   query |-> panel.query] >>

UserRunsSearch ==
  /\ RunProjectSearch
  /\ UNCHANGED <<fileTexts, cache, scans, events, replies, outside, work>>

(* replaceAllProjectMatches up to its await, with no dirty file open; the  *)
(* button is enabled by renderProjectSearchPanel.                          *)
CanReplace ==
  ~panel.loading /\ panel.result # NoResult /\ panel.result.total > 0

ReplaceAllProjectMatches(by) ==
  /\ CanReplace /\ work < MaxWork
  /\ work' = work + 1
  /\ panel' = [panel EXCEPT !.active = 0]
  /\ requests' = requests \o Cancelled \o
       << [type |-> "replace", root |-> panel.root, query |-> panel.query, by |-> by,
           files |-> panel.result.files] >>
  /\ orphan' = FALSE
  /\ UNCHANGED <<fileTexts, cache, scans, events, replies, outside>>

(* ... and after it: a replacement that threw is only reported.            *)
ReplaceAnswered ==
  /\ replies # <<>>
  /\ replies' = Tail(replies)
  /\ IF Head(replies) THEN UNCHANGED <<panel, requests, orphan>> ELSE RunProjectSearch
  /\ UNCHANGED <<fileTexts, cache, scans, events, outside, work>>

(* mergeSearchBatch.                                                       *)
MergeSearchBatch(batch) ==
  LET current == IF panel.result = NoResult THEN EmptySearchResult(panel.query)
                 ELSE panel.result
  IN  [ current EXCEPT !.files = @ \o batch.files, !.total = @ + batch.total,
                       !.truncated = @ \/ batch.truncated ]

(* handleProjectSearchEvent: an event of another search is dropped.        *)
IsCurrentEvent(e) == e.id = panel.active

FailUnseen == panel   \* faulty: an error is not handled

Fail == [panel EXCEPT !.result = NoResult, !.loading = FALSE, !.active = 0]

HandleProjectSearchEvent(e) ==
  panel' = IF ~IsCurrentEvent(e) THEN panel
           ELSE CASE e.type = "batch" ->
                       [panel EXCEPT !.result = MergeSearchBatch(e.result), !.loading = TRUE]
                  [] e.type = "done" ->
                       [panel EXCEPT !.result = e.result, !.loading = FALSE, !.active = 0]
                  [] e.type = "canceled" -> [panel EXCEPT !.loading = FALSE, !.active = 0]
                  [] e.type = "error" -> Fail

SearchEvent ==
  /\ events # <<>> /\ Head(events).type # "snapshot"
  /\ HandleProjectSearchEvent(Head(events))
  /\ events' = Tail(events)
  /\ UNCHANGED <<fileTexts, cache, scans, requests, replies, outside, orphan, work>>

(* applySnapshot: another project's snapshot clears the result, but the    *)
(* search that runs stays the active one.                                  *)
SnapshotArrives ==
  /\ events # <<>> /\ Head(events).type = "snapshot"
  /\ LET r == Head(events).root IN
       IF r = panel.root THEN UNCHANGED <<panel, orphan>>
       ELSE /\ panel' = [panel EXCEPT !.root = r, !.result = NoResult, !.loading = FALSE]
            /\ orphan' = (orphan \/ panel.active # 0)
  /\ events' = Tail(events)
  /\ UNCHANGED <<fileTexts, cache, scans, requests, replies, outside, work>>

-----------------------------------------------------------------------------
Outside == \E r \in Roots : ChangeFile(r) \/ ChangeFileOutside(r) \/ TakeSnapshot(r)

SearchUser ==
  \/ \E q \in Queries \cup {Nothing} : SetQuery(q)
  \/ CloseProjectSearch
  \/ UserRunsSearch
  \/ \E by \in Queries : ReplaceAllProjectMatches(by)

Main ==
  \/ HandleStart
  \/ HandleCancel
  \/ HandleReplace
  \/ \E id \in DOMAIN scans : NextChunk(id)

SearchWindow == SearchEvent \/ SnapshotArrives \/ ReplaceAnswered

SearchNext == Outside \/ SearchUser \/ Main \/ SearchWindow

SearchSpec == SearchInit /\ [][SearchNext]_searchVars

(* The main process takes its requests in turn and lets every search go on;*)
(* the window takes its events in turn.                                    *)
SearchFairness ==
  /\ WF_searchVars(HandleStart \/ HandleCancel \/ HandleReplace)
  /\ \A id \in 1..MaxSearches : WF_searchVars(NextChunk(id))
  /\ WF_searchVars(SearchEvent \/ SnapshotArrives)

SearchFairSpec == SearchSpec /\ SearchFairness

-----------------------------------------------------------------------------
(* Every variable stays in its type.                                       *)
SearchTypeOK ==
  /\ panel.root \in Roots /\ panel.query \in Queries \cup {Nothing}
  /\ panel.active \in 0..panel.seq /\ panel.seq \in 0..MaxSearches
  /\ panel.loading \in BOOLEAN
  /\ panel.result # NoResult =>
       /\ panel.result.query \in Queries
       /\ panel.result.total \in 0..MaxMatches
  /\ \A r \in Roots : DOMAIN fileTexts[r] \subseteq TreePaths
  /\ DOMAIN scans \subseteq 1..panel.seq

(* What the panel shows was found for the query it shows, whatever events  *)
(* of earlier searches are still on their way: a replacement takes the     *)
(* matches of the one and the query of the other.                          *)
ResultIsOfQuery == panel.result # NoResult => panel.result.query = panel.query

(* The batches of a search that have been sent, in one.                    *)
BatchFiles(id, e) == IF e.type = "batch" /\ e.id = id THEN e.result.files ELSE <<>>

Joined(id, sent) ==
  LET upTo[i \in 0..Len(sent)] ==
        IF i = 0 THEN <<>> ELSE upTo[i - 1] \o BatchFiles(id, sent[i])
  IN  upTo[Len(sent)]

MatchesIn(files) ==
  LET upTo[i \in 0..Len(files)] == IF i = 0 THEN 0 ELSE upTo[i - 1] + files[i].n
  IN  upTo[Len(files)]

(* Batches add up: what the panel shows and what is on its way is what the *)
(* running search has found so far, each file once, and the count shown is *)
(* theirs.  A search that outlives its project is left out: see README.    *)
BatchesAddUp ==
  /\ panel.active \in DOMAIN scans /\ ~orphan =>
       panel.result.files \o Joined(panel.active, events) = scans[panel.active].summary.files
  /\ panel.result.total = MatchesIn(panel.result.files)
  /\ \A i, j \in DOMAIN panel.result.files :
       panel.result.files[i].path = panel.result.files[j].path => i = j

(* Unless another program changed its files, the cached candidates are the *)
(* files of the project: no search misses a file or trips over one.        *)
CacheIsCurrent ==
  \A r \in Roots : cache[r] # Nothing /\ ~outside[r] => cache[r] = ListEditableFiles(r)

(* A replacement writes only files whose text is the one the panel showed  *)
(* the matches of: whatever was saved in between is never overwritten, and *)
(* a second click never replaces what the first one wrote.                 *)
WritesWhatWasShown ==
  [][ requests # <<>> /\ Head(requests).type = "replace" /\ requests' = Tail(requests) =>
        LET c == Head(requests) IN
        \A p \in DOMAIN fileTexts[c.root] :
          fileTexts'[c.root][p] # fileTexts[c.root][p] =>
            \E i \in DOMAIN c.files :
              /\ c.files[i].path = p /\ c.files[i].text = fileTexts[c.root][p]
              /\ fileTexts[c.root][p][c.query] >= c.files[i].n ]_searchVars

(* The panel never stays loading: every search is answered, cleared or     *)
(* closed, also where its files vanish under it.                           *)
SearchSettles == []<>(~panel.loading)

(* What the panel shows is what the running search found in the files of   *)
(* its project, for the query in the panel.                                *)
SearchTellsTruth == SearchTypeOK /\ ResultIsOfQuery /\ BatchesAddUp /\ CacheIsCurrent
=============================================================================
