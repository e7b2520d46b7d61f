------------------------------- MODULE FileTabs -------------------------------
(***************************************************************************)
(* The tabs of the editor: fileController.js over the instances of         *)
(* editor-bridge.js, with what projectController.js, projectTreeController *)
(* .js, workspaceController.js and searchController.js do to them, on the  *)
(* files of services/projectService.js.                                    *)
(*                                                                         *)
(* The main process serves calls in order with synchronous file functions, *)
(* so a call changes the disk when it is sent and its reply waits in       *)
(* "calls"; the user may go on in between.  A save and a reload then act   *)
(* on whatever tab is active, which "raced" remembers.                     *)
(***************************************************************************)
EXTENDS Naturals, Sequences, SequencesExt

CONSTANTS
  Paths,      \* paths of files in the project
  Existing,   \* those that exist when a project is opened
  Sources,    \* library files that definitions are looked up in
  None,       \* no path, no key, no file
  MaxVersion, \* bound: texts that are typed or replaced
  MaxCalls,   \* bound: replies the user does not wait for
  MaxTabs     \* bound: tabs open when the user opens another file

ASSUME FileTabsAssumption ==
  /\ Existing \subseteq Paths /\ Paths \intersect Sources = {}
  /\ None \notin Paths \union Sources \union Nat
  /\ MaxVersion \in Nat /\ MaxCalls \in Nat /\ MaxTabs \in Nat

VARIABLES
  disk,     \* of a path: the version of its text, or None
  window,   \* root state, open files and editor instances, see NoFiles
  calls,    \* replies the window waits for
  newest,   \* the newest version of any text
  raced,    \* history: a reply came to another tab or text, see ReplyFor
  spoilt    \* history: a tab has lost its file or shares its key, see Spoils

tabsVars == <<disk, window, calls, newest, raced, spoilt>>

Keys == Paths \union Sources

(* A text: the file it was read from and its version.                      *)
Text(path, version) == [of |-> path, version |-> version]

NoFiles(project) ==
  [ project |-> project,
    tabs |-> <<>>,        \* openFiles: key, path, dirty and readonly of each
    active |-> None,      \* activeFileKey
    file |-> None,        \* currentFile
    dirty |-> FALSE,
    readonly |-> FALSE,   \* readonlySource
    editor |-> <<>>,      \* CM6._instances: the text of a key
    shown |-> None ]      \* CM6._activeKey

NewProject == [p \in Paths |-> IF p \in Existing THEN 0 ELSE None]

TabsInit ==
  /\ disk = NewProject
  /\ window = NoFiles(1)
  /\ calls = <<>>
  /\ newest = 0
  /\ raced = FALSE
  /\ spoilt = FALSE

-----------------------------------------------------------------------------
(* The helpers, on the record of the window.                               *)
Indices(w, k) == {i \in DOMAIN w.tabs : w.tabs[i].key = k}
HasTab(w, k) == Indices(w, k) # {}
TabAt(w, k) == CHOOSE i \in Indices(w, k) : \A j \in Indices(w, k) : i <= j

Entry(w, k) == w.tabs[TabAt(w, k)]
SetTab(w, tab) == [w EXCEPT !.tabs[TabAt(w, tab.key)] = tab]

SyncOut(w) ==
  IF HasTab(w, w.active)
  THEN SetTab(w, [key |-> w.active, path |-> w.file, dirty |-> w.dirty, readonly |-> w.readonly])
  ELSE w

SyncIn(w) ==
  LET tab == Entry(w, w.active) IN
  IF HasTab(w, w.active)
  THEN [w EXCEPT !.file = tab.path, !.dirty = tab.dirty, !.readonly = tab.readonly]
  ELSE w

SetDirty(w, isDirty) ==
  LET marked == [w EXCEPT !.dirty = isDirty] IN
  IF HasTab(w, w.active)
  THEN SetTab(marked, [Entry(w, w.active) EXCEPT !.dirty = isDirty]) ELSE marked

Show(w, k) == IF k \in DOMAIN w.editor THEN [w EXCEPT !.shown = k] ELSE w

SetContent(w, text) ==
  IF w.shown = None THEN w ELSE [w EXCEPT !.editor[w.shown] = text]

(* create destroys an instance with the same key.                          *)
Create(w, k, text) ==
  [w EXCEPT !.editor = [e \in DOMAIN w.editor \union {k} |->
                          IF e = k THEN text ELSE w.editor[e]]]

(* destroy shows one of the instances that are left.                       *)
Destroy(w, k) ==
  LET left == DOMAIN w.editor \ {k} IN
  [w EXCEPT !.editor = [e \in left |-> w.editor[e]],
            !.shown = IF @ # k THEN @ ELSE IF left = {} THEN None ELSE CHOOSE e \in left : TRUE]

SwitchToTab(w, k) ==
  IF k = w.active THEN SyncIn(w) ELSE SyncIn(Show([SyncOut(w) EXCEPT !.active = k], k))

ClearEditor(w) ==
  SetDirty([w EXCEPT !.file = None, !.readonly = FALSE, !.active = None], FALSE)

(* closeTab once the changes are saved or given up.                        *)
CloseShown(w, k) ==                 \* faulty: leaves the choice to destroy
  LET closed == Destroy([w EXCEPT !.tabs = RemoveAt(@, TabAt(w, k))], k) IN
  IF closed.tabs = <<>> THEN ClearEditor(closed)
  ELSE IF w.active = k THEN SyncIn([closed EXCEPT !.active = closed.tabs[1].key]) ELSE closed

Close(w, k) ==
  LET i == TabAt(w, k)
      closed == Destroy([w EXCEPT !.tabs = RemoveAt(@, i)], k)
      left == closed.tabs
  IN IF w.active # k THEN closed
     ELSE IF left = <<>> THEN ClearEditor(closed)
     ELSE LET next == left[IF i <= Len(left) THEN i ELSE Len(left)].key IN
          SyncIn(Show([closed EXCEPT !.active = next], next))

(* selectFile and openExternalReadonlySource after the file was read.      *)
OpenTab(w, k, text, entry, file) ==
  SetDirty(Show([Create(SyncOut(w), k, text) EXCEPT
                   !.tabs = Append(@, entry), !.active = k, !.file = file,
                   !.readonly = entry.readonly], k), FALSE)

Opened(w, p, version) ==
  OpenTab(w, p, Text(p, version),
          [key |-> p, path |-> p, dirty |-> FALSE, readonly |-> FALSE], p)

OpenedSource(w, s) ==
  OpenTab(w, s, Text(s, 0),
          [key |-> s, path |-> None, dirty |-> FALSE, readonly |-> TRUE], s)

-----------------------------------------------------------------------------
(* What spoils the tabs: one is cut from its file by a sync "out" after    *)
(* applySnapshot emptied the root state, or two have one key.              *)
Spoils(w) ==
  \/ \E i \in DOMAIN w.tabs : ~w.tabs[i].readonly /\ w.tabs[i].path = None
  \/ \E i, j \in DOMAIN w.tabs : i # j /\ w.tabs[i].key = w.tabs[j].key

Window(w) == window' = w /\ spoilt' = (spoilt \/ Spoils(w))

(* A click or a key of the user.                                           *)
UserActs == Len(calls) <= MaxCalls /\ UNCHANGED raced

Reply(kind) == calls # <<>> /\ Head(calls).kind = kind /\ UNCHANGED raced

(* The reply to a call that was sent for the active tab as it was; the     *)
(* tabs left to reload were clean when the first one was.                  *)
Content(w) == IF w.shown = None THEN Text(None, 0) ELSE w.editor[w.shown]
Sight(w) == <<w.active, Content(w)>>

ReplyFor(kind) ==
  /\ calls # <<>> /\ Head(calls).kind = kind
  /\ raced' = \/ raced \/ Sight(window) # Head(calls).sight
              \/ \E i \in DOMAIN Head(calls).left :
                   LET k == Head(calls).left[i].key IN
                   ~HasTab(window, k) \/ Entry(window, k).dirty

(* selectFile up to its await, after the calls that are left.              *)
SelectFile(w, p, left) ==
  LET open == {i \in DOMAIN w.tabs : w.tabs[i].path = p /\ ~w.tabs[i].readonly} IN
  IF open # {}
  THEN Window(SwitchToTab(w, w.tabs[CHOOSE i \in open : \A j \in open : i <= j].key))
       /\ calls' = left
  ELSE Window(w) /\ calls' = Append(left, [kind |-> "open", path |-> p, version |-> disk[p]])

(* handleFileTreeClick: openProjectTreeFile asks when the active file has  *)
(* changes; the answer yes goes on.                                        *)
UserSelectsFile(p) ==
  /\ UserActs /\ disk[p] # None /\ Len(window.tabs) < MaxTabs
  /\ SelectFile(window, p, calls)
  /\ UNCHANGED <<disk, newest>>

Read(w, r) == IF r.version = None THEN w ELSE Opened(w, r.path, r.version)

OpenReplied ==
  /\ Reply("open")
  /\ Window(Read(window, Head(calls)))
  /\ calls' = Tail(calls)
  /\ UNCHANGED <<disk, newest>>

(* goToDefinition outside the project.                                     *)
GoToSource(s) ==
  /\ UserActs /\ ~HasTab(window, s) /\ [kind |-> "source", path |-> s] \notin Range(calls)
  /\ Len(window.tabs) < MaxTabs
  /\ calls' = Append(calls, [kind |-> "source", path |-> s])
  /\ UNCHANGED <<disk, window, newest, spoilt>>

SourceReplied ==
  /\ Reply("source")
  /\ Window(OpenedSource(window, Head(calls).path))
  /\ calls' = Tail(calls)
  /\ UNCHANGED <<disk, newest>>

UserSwitchesTab(k) ==
  /\ UserActs /\ HasTab(window, k)
  /\ Window(SwitchToTab(window, k))
  /\ UNCHANGED <<disk, calls, newest>>

(* The user types into the instance on screen: onContentChange.            *)
Type ==
  /\ UserActs /\ window.shown \in Paths /\ newest < MaxVersion
  /\ newest' = newest + 1
  /\ Window(SetDirty(SetContent(window, [window.editor[window.shown] EXCEPT !.version = newest + 1]),
                     TRUE))
  /\ UNCHANGED <<disk, calls>>

-----------------------------------------------------------------------------
(* saveCurrentFile, with a tab to close afterwards or None.  The write may *)
(* fail.                                                                   *)
CanSave(w) == w.file # None /\ ~w.readonly

Save(w, close) ==
  /\ CanSave(w)
  /\ \E ok \in IF w.file \in Paths THEN BOOLEAN ELSE {FALSE} :
       /\ disk' = IF ok THEN [disk EXCEPT ![w.file] = Content(w).version] ELSE disk
       /\ calls' = Append(calls, [kind |-> "save", ok |-> ok, close |-> close,
                                  sight |-> Sight(w), left |-> <<>>])
  /\ Window(w)

SaveCurrentFile ==
  /\ UserActs /\ Save(window, None)
  /\ UNCHANGED newest

Saved(w, ok) == IF ok THEN SetDirty(w, FALSE) ELSE w

FileSaveReplied ==
  /\ ReplyFor("save")
  /\ LET r == Head(calls)
         saved == Saved(window, r.ok)
     IN Window(IF r.ok /\ HasTab(saved, r.close) THEN Close(saved, r.close) ELSE saved)
  /\ calls' = Tail(calls)
  /\ UNCHANGED <<disk, newest>>

(* closeTab: changes are saved or given up, as the user answers.           *)
AsksToSave(tab) == tab.dirty

CloseIf(k, asked) ==
  /\ UserActs /\ HasTab(window, k) /\ AsksToSave(Entry(window, k)) = asked
  /\ Window(Close(window, k))
  /\ UNCHANGED <<disk, calls, newest>>

CloseTab(k) == CloseIf(k, FALSE)
DiscardAndCloseTab(k) == CloseIf(k, TRUE)

(* The tab to save is brought to the front, if it is not there.            *)
BringToFront(w, k) == IF w.active = k THEN w ELSE SwitchToTab(w, k)

SaveAndCloseTab(k) ==
  /\ UserActs /\ HasTab(window, k) /\ AsksToSave(Entry(window, k))
  /\ Save(BringToFront(window, k), k)
  /\ UNCHANGED newest

-----------------------------------------------------------------------------
(* The file tree.  Each operation is a call and then, with its reply, a    *)
(* scan of the project whose reply is applied; "current" is the file that  *)
(* is open when the reply comes.                                           *)
Ask(call) == calls' = Append(calls, call)

Scan(left, preferred) ==
  calls' = Append(left, [kind |-> "scan", preferred |-> preferred,
                         files |-> {p \in Paths : disk'[p] # None}])

RefreshProject ==
  /\ UserActs /\ disk' = disk /\ Scan(calls, "current")
  /\ UNCHANGED <<window, newest, spoilt>>

CreateFile(p) ==
  /\ UserActs /\ disk[p] = None /\ newest < MaxVersion
  /\ newest' = newest + 1
  /\ disk' = [disk EXCEPT ![p] = newest']
  /\ Ask([kind |-> "changed", preferred |-> p, from |-> None])
  /\ UNCHANGED <<window, spoilt>>

IsOpen(p) ==
  \/ \E i \in DOMAIN window.tabs : window.tabs[i].path = p
  \/ \E i \in DOMAIN calls : calls[i].kind = "open" /\ calls[i].path = p

(* A rename or a move; a tab of the file keeps the old path.               *)
RenameFile(p, q) ==
  /\ UserActs /\ disk[p] # None /\ disk[q] = None
  /\ disk' = [disk EXCEPT ![q] = disk[p], ![p] = None]
  /\ Ask([kind |-> "changed", preferred |-> q, from |-> p])
  /\ spoilt' = (spoilt \/ IsOpen(p))
  /\ UNCHANGED <<window, newest>>

DeleteFile(p) ==
  /\ UserActs /\ disk[p] # None
  /\ disk' = [disk EXCEPT ![p] = None]
  /\ Ask([kind |-> "changed", preferred |-> IF window.file = p THEN None ELSE "current",
          from |-> None])
  /\ spoilt' = (spoilt \/ IsOpen(p))
  /\ UNCHANGED <<window, newest>>

ChangeReplied ==
  /\ Reply("changed")
  /\ LET r == Head(calls) IN
     /\ disk' = disk
     /\ Scan(Tail(calls), IF \/ r.preferred = "current"
                            \/ r.from \notin {None, window.file}
                          THEN window.file ELSE r.preferred)
  /\ UNCHANGED <<window, newest, spoilt>>

(* applySnapshot.  Without a preferred file that exists it takes the last  *)
(* one opened or the first: any of them here.                              *)
EmptyRoot(w) == [w EXCEPT !.file = None, !.dirty = FALSE]

ApplySnapshot(w, preferred, files, left) ==
  IF files = {} THEN Window(ClearEditor(w)) /\ calls' = left
  ELSE \E p \in IF preferred \in files THEN {preferred} ELSE files : SelectFile(w, p, left)

ScanReplied ==
  /\ Reply("scan")
  /\ LET r == Head(calls) IN
     ApplySnapshot(EmptyRoot(window),
                   IF r.preferred = "current" THEN window.file ELSE r.preferred,
                   r.files, Tail(calls))
  /\ UNCHANGED <<disk, newest>>

(* openProject, of another one: the tabs are dropped without a question.   *)
(* Its dialog keeps the user from acting until every reply is there.       *)
OpenOtherProject ==
  /\ calls = <<>> /\ window.project = 1
  /\ disk' = NewProject
  /\ \E p \in Existing : Ask([kind |-> "open", path |-> p, version |-> 0])
  /\ window' = NoFiles(2)
  /\ UNCHANGED <<newest, raced, spoilt>>

-----------------------------------------------------------------------------
(* replaceAllProjectMatches, refused while a tab has changes, and the      *)
(* loop of reloadOpenFiles over the tabs whose file was replaced.          *)
ReplaceProjectMatches(changed) ==
  /\ UserActs /\ changed # {} /\ newest < MaxVersion
  /\ \A i \in DOMAIN window.tabs : ~window.tabs[i].dirty
  /\ newest' = newest + 1
  /\ disk' = [p \in Paths |-> IF p \in changed THEN newest' ELSE disk[p]]
  /\ Ask([kind |-> "replace", changed |-> changed])
  /\ UNCHANGED <<window, spoilt>>

ReloadAll(tab, changed) ==                      \* faulty: tabs with changes too
  tab.path \in changed /\ ~tab.readonly

IsReloaded(tab, changed) ==
  tab.path \in changed /\ ~tab.dirty /\ ~tab.readonly

ReloadTargets(w, changed) ==
  LET upTo[i \in 0 .. Len(w.tabs)] ==
        IF i = 0 THEN <<>>
        ELSE IF IsReloaded(w.tabs[i], changed) THEN Append(upTo[i - 1], w.tabs[i])
        ELSE upTo[i - 1]
  IN  upTo[Len(w.tabs)]

ReloadNext(w, targets, back) ==
  IF targets = <<>>
  THEN Window(IF HasTab(w, back) THEN SwitchToTab(w, back) ELSE w) /\ calls' = Tail(calls)
  ELSE LET k == Head(targets).key
           path == IF HasTab(w, k) THEN Entry(w, k).path ELSE Head(targets).path
           there == SwitchToTab(w, k)
       IN /\ Window(there)
          /\ calls' = Append(Tail(calls),
               [kind |-> "reload", path |-> path,
                version |-> IF path \in Paths THEN disk[path] ELSE None,
                left |-> Tail(targets), back |-> back, sight |-> Sight(there)])

ReplaceReplied ==
  /\ Reply("replace")
  /\ ReloadNext(window, ReloadTargets(window, Head(calls).changed), window.active)
  /\ UNCHANGED <<disk, newest>>

ReloadReplied ==
  /\ ReplyFor("reload")
  /\ LET r == Head(calls) IN
     ReloadNext(IF r.version = None THEN window
                ELSE SetDirty(SetContent(window, Text(r.path, r.version)), FALSE),
                r.left, r.back)
  /\ UNCHANGED <<disk, newest>>

-----------------------------------------------------------------------------
TabsUser ==
  \/ \E p \in Paths : UserSelectsFile(p) \/ CreateFile(p) \/ DeleteFile(p)
  \/ \E p, q \in Paths : RenameFile(p, q)
  \/ \E s \in Sources : GoToSource(s)
  \/ \E k \in Keys : \/ UserSwitchesTab(k) \/ CloseTab(k)
                     \/ DiscardAndCloseTab(k) \/ SaveAndCloseTab(k)
  \/ Type \/ SaveCurrentFile \/ RefreshProject \/ OpenOtherProject
  \/ \E changed \in SUBSET {p \in Paths : disk[p] # None} : ReplaceProjectMatches(changed)

TabsNext ==
  \/ TabsUser
  \/ OpenReplied \/ SourceReplied \/ FileSaveReplied
  \/ ChangeReplied \/ ScanReplied \/ ReplaceReplied \/ ReloadReplied

TabsSpec == TabsInit /\ [][TabsNext]_tabsVars

-----------------------------------------------------------------------------
Tabs == [key : Keys, path : Keys \union {None}, dirty : BOOLEAN, readonly : BOOLEAN]
Versions == 0..MaxVersion

(* Types of the variables.                                                 *)
TabsTypeOK ==
  /\ disk \in [Paths -> Versions \union {None}]
  /\ window.project \in {1, 2} /\ window.tabs \in Seq(Tabs)
  /\ {window.active, window.file, window.shown} \subseteq Keys \union {None}
  /\ window.dirty \in BOOLEAN /\ window.readonly \in BOOLEAN
  /\ DOMAIN window.editor \subseteq Keys
  /\ \A k \in DOMAIN window.editor :
       window.editor[k] \in [of : Keys, version : Versions]
  /\ newest \in Versions /\ raced \in BOOLEAN /\ spoilt \in BOOLEAN

(* The instance on screen is that of the active tab, and once no reply is  *)
(* missing the root state describes that tab: what a click, a save or a    *)
(* run acts on is what the user sees.                                      *)
ShownIsActive ==
  ~spoilt /\ ~raced =>
    /\ window.active # None => window.shown = window.active
    /\ DOMAIN window.editor = {window.tabs[i].key : i \in DOMAIN window.tabs}
    /\ HasTab(window, window.active) /\ calls = <<>> =>
         LET tab == Entry(window, window.active) IN
         /\ window.dirty = tab.dirty /\ window.readonly = tab.readonly
         /\ window.file = tab.path \/ tab.readonly

(* A tab without a dirty mark shows what is on the disk: its close, a      *)
(* replacement in the project and the build view ask for nothing on that   *)
(* ground.                                                                 *)
CleanShowsDisk ==
  ~spoilt /\ ~raced /\ calls = <<>> =>
    \A i \in DOMAIN window.tabs :
      LET tab == window.tabs[i] IN
      ~tab.dirty /\ ~tab.readonly =>
        window.editor[tab.key] = Text(tab.path, disk[tab.path])

(* A save, also the one before a tab is closed, writes into a file only    *)
(* the text of that file, whatever tabs were opened, closed, switched or   *)
(* reloaded before.                                                        *)
HoldsOwnText(w) == Content(w).of = w.file

SavesOwnText ==
  [][ ~spoilt /\ ~raced =>
        /\ SaveCurrentFile => HoldsOwnText(window)
        /\ \A k \in Keys : SaveAndCloseTab(k) /\ ~spoilt' => HoldsOwnText(BringToFront(window, k))
    ]_tabsVars

(* Unsaved text stays in its instance until it is saved, or the user gives *)
(* it up or types on.                                                      *)
EditsSurvive ==
  [][ ~spoilt' /\ ~raced' =>
      \A i \in DOMAIN window.tabs :
        LET tab == window.tabs[i]
            text == window.editor[tab.key]
        IN tab.dirty /\ text.version # disk[tab.path] =>
             \/ tab.key \in DOMAIN window'.editor /\ window'.editor[tab.key] = text
             \/ Type \/ DiscardAndCloseTab(tab.key) \/ OpenOtherProject ]_tabsVars

(* What a click, a save or a run acts on is what the tabs show, and a tab  *)
(* without a mark holds what is on the disk.                               *)
TabsTellTruth == TabsTypeOK /\ ShownIsActive /\ CleanShowsDisk

(* No text is lost and none is written into another's file.                *)
TextIsKept == SavesOwnText /\ EditsSurvive
=============================================================================
