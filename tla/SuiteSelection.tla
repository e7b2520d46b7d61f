--------------------------- MODULE SuiteSelection ---------------------------
(***************************************************************************)
(* Which tests the window runs: the two trees of test suites of            *)
(* electron-gui/src/renderer/suiteTreeController.js (one to debug, one to  *)
(* build; each has its own selection, so one tree stands for either), what *)
(* executionController.js sends, and the pytest targets that               *)
(* services/suiteService.js makes of it.  A suite is a directory below     *)
(* tests/ with test files of its own; its id is its path.                  *)
(***************************************************************************)
EXTENDS Naturals, FiniteSets

CONSTANTS
  Suites,   \* directories that may hold tests
  Below,    \* of a directory: itself and the directories inside it
  AllId,    \* the id that means every suite
  CaseFiles, \* test files
  SuiteOf,  \* the directory of a file
  Movable   \* bound: the files that come and go on disk

ASSUME SuitesAssumption ==
  /\ Below \in [Suites -> SUBSET Suites]
  /\ \A d \in Suites : d \in Below[d]
  /\ \A d \in Suites : \A e \in Below[d] : Below[e] \subseteq Below[d]
  /\ \A d \in Suites : \A e \in Below[d] : d \in Below[e] => d = e
  /\ SuiteOf \in [CaseFiles -> Suites] /\ Movable \subseteq CaseFiles
  /\ IsFiniteSet(Suites) /\ IsFiniteSet(CaseFiles)

VARIABLES
  tree,       \* "debug" or "build": the tree this is
  onDisk,     \* the test files of the project
  listed,     \* those of state.snapshot.suites
  picked,     \* selectedSuiteIds
  overrides,  \* selectedFileOverrides: of some suites, the files chosen
  touched,    \* suiteSelectionTouched
  launch,     \* a run that is being started, see StartRun
  stale       \* history: the files of an overridden suite changed

suiteVars ==
  <<tree, onDisk, listed, picked, overrides, touched, launch, stale>>

NoFilter == [some |-> FALSE, files |-> {}]
Chosen(files) == [some |-> TRUE, files |-> files]
NoLaunch == [on |-> FALSE]

Without(f, keys) == [k \in DOMAIN f \ keys |-> f[k]]
With(f, key, value) ==
  [k \in DOMAIN f \cup {key} |-> IF k = key THEN value ELSE f[k]]

(* discoverConventionSuites: a directory without tests is no suite.        *)
FilesIn(suite, files) == {f \in files : SuiteOf[f] = suite}
Discover(files) == {SuiteOf[f] : f \in files}
GetSuiteFiles(suite) == FilesIn(suite, listed)
AvailableSuiteIds == Discover(listed)

SuiteInit ==
  /\ tree \in {"debug", "build"}
  /\ onDisk = CaseFiles /\ listed = CaseFiles
  /\ picked = Discover(CaseFiles)
  /\ overrides = << >>
  /\ touched = FALSE
  /\ launch = NoLaunch
  /\ stale = FALSE

-----------------------------------------------------------------------------
(* What the boxes show.                                                    *)
IsFileSelected(f) ==
  LET suite == SuiteOf[f]
  IN  suite \in picked /\ (suite \in DOMAIN overrides => f \in overrides[suite])

Checked == {f \in listed : IsFileSelected(f)}

(* The files of a suite that its box counts as selected.                   *)
CountedFiles(suite) ==
  IF suite \notin picked THEN {}
  ELSE IF suite \in DOMAIN overrides THEN overrides[suite]
  ELSE GetSuiteFiles(suite)

(* syncSuiteTreeCheckboxStates: the box of a directory over these suites.  *)
(* No file is of two suites, so the numbers that the code adds up are the  *)
(* numbers of all their files.                                             *)
Box(ids) ==
  LET total == Cardinality(UNION {GetSuiteFiles(s) : s \in ids})
      count == Cardinality(UNION {CountedFiles(s) : s \in ids})
      partial == \E s \in ids \cap picked \cap DOMAIN overrides :
                   Cardinality(overrides[s]) \notin {0, Cardinality(GetSuiteFiles(s))}
  IN  IF partial \/ (0 < count /\ count < total) THEN "partial"
      ELSE IF count = total THEN "on" ELSE "off"

(* collectSuiteNodeSuiteIds; the filter of the build tree leaves out some. *)
NodeSuiteIds(d, hidden) == (Below[d] \ hidden) \cap AvailableSuiteIds

-----------------------------------------------------------------------------
(* The clicks.  A click inverts a box that is on or off and sets one that  *)
(* is neither.                                                             *)
Meddle == launch' = IF launch.on THEN [launch EXCEPT !.quiet = FALSE] ELSE launch

(* A mutant of HandleSuiteSelectionChange: the overrides stay.             *)
KeepOverrides(ids, on) ==
  /\ touched' = TRUE
  /\ picked' = (IF on THEN picked \cup ids ELSE picked \ ids) \cap AvailableSuiteIds
  /\ UNCHANGED overrides

HandleSuiteSelectionChange(ids, on) ==
  /\ touched' = TRUE
  /\ picked' = (IF on THEN picked \cup ids ELSE picked \ ids) \cap AvailableSuiteIds
  /\ overrides' = Without(overrides, ids)

ClickSuite(d) ==
  \E hidden \in {{}} \cup (IF tree = "build" THEN {Below[e] : e \in Below[d] \ {d}}
                                             ELSE {}) :
    LET ids == NodeSuiteIds(d, hidden)
    IN  /\ ids # {}
        /\ HandleSuiteSelectionChange(ids, Box(ids) # "on")
        /\ Meddle
        /\ UNCHANGED <<tree, onDisk, listed, stale>>

(* syncSuiteCheckboxFromFiles                                              *)
SyncSuiteFromFiles(suite, chosen) ==
  /\ picked' = IF chosen = {} THEN picked \ {suite}
               ELSE (picked \cup {suite}) \cap AvailableSuiteIds
  /\ overrides' =
       IF chosen # {} /\ Cardinality(chosen) = Cardinality(GetSuiteFiles(suite))
       THEN Without(overrides, {suite})
       ELSE With(overrides, suite, chosen)

(* The files a suite's override starts from.                               *)
StartingFiles(suite) ==
  IF suite \in DOMAIN overrides THEN overrides[suite]
  ELSE IF suite \in picked THEN GetSuiteFiles(suite) ELSE {}

HandleFileSelectionChange(f, on) ==
  LET chosen == StartingFiles(SuiteOf[f])
  IN  /\ touched' = TRUE
      /\ SyncSuiteFromFiles(SuiteOf[f], IF on THEN chosen \cup {f} ELSE chosen \ {f})

ClickFile(f) ==
  /\ f \in listed
  /\ HandleFileSelectionChange(f, ~IsFileSelected(f))
  /\ Meddle
  /\ UNCHANGED <<tree, onDisk, listed, stale>>

-----------------------------------------------------------------------------
(* The project changes, on disk and in the window.                         *)
ChangeTests ==
  \E f \in Movable :
    /\ onDisk' = IF f \in onDisk THEN onDisk \ {f} ELSE onDisk \cup {f}
    /\ UNCHANGED <<tree, listed, picked, overrides, touched, launch, stale>>

(* renderSuiteOptions of a new snapshot of the same project.               *)
RefreshSuites ==
  /\ listed' = onDisk
  /\ picked' = IF touched THEN picked \cap Discover(onDisk) ELSE Discover(onDisk)
  /\ stale' = (stale \/ \E s \in DOMAIN overrides :
                          FilesIn(s, onDisk) # FilesIn(s, listed))
  /\ Meddle
  /\ UNCHANGED <<tree, onDisk, overrides, touched>>

(* applySnapshot of another project.                                       *)
OpenOtherSuites ==
  \E tests \in {CaseFiles, CaseFiles \ Movable} :
    /\ onDisk' = tests /\ listed' = tests
    /\ touched' = FALSE
    /\ overrides' = << >>
    /\ picked' = Discover(tests)
    /\ stale' = FALSE
    /\ Meddle
    /\ UNCHANGED tree

-----------------------------------------------------------------------------
(* Starting a run.                                                         *)
(* A mutant of ComputeSelectedFiles: only the suites with overrides count. *)
OverriddenFilesOnly ==
  IF \E s \in picked : s \in DOMAIN overrides
  THEN Chosen(UNION {overrides[s] : s \in picked \cap DOMAIN overrides})
  ELSE NoFilter

ComputeSelectedFiles ==
  IF \E s \in picked : s \in DOMAIN overrides
  THEN Chosen(UNION {IF s \in DOMAIN overrides THEN overrides[s]
                     ELSE GetSuiteFiles(s) : s \in picked})
  ELSE NoFilter

CompactTargets(ids) ==
  {s \in ids : ~ \E t \in ids \ {s} : s \in Below[t]}

NoTargets == [files |-> {}, dirs |-> {}, all |-> FALSE]

(* suiteTargetPathsForSelection: what the command line of the window says. *)
SuiteTargetPaths(ids) ==
  IF AllId \in ids THEN [NoTargets EXCEPT !.all = TRUE]
  ELSE [NoTargets EXCEPT !.dirs = CompactTargets(ids)]

SuiteCommandLabel(ids, chosen) ==
  IF chosen.some THEN [NoTargets EXCEPT !.files = chosen.files]
  ELSE SuiteTargetPaths(ids)

(* buildPytestTargets: what the service passes to pytest.  It walks the    *)
(* disk again.                                                             *)
BuildPytestTargets(ids, chosen) ==
  IF chosen.files # {} THEN [NoTargets EXCEPT !.files = chosen.files]
  ELSE IF ids = {} \/ AllId \in ids THEN [NoTargets EXCEPT !.all = TRUE]
  ELSE [NoTargets EXCEPT !.dirs = CompactTargets(ids \cap Discover(onDisk))]

(* The tests pytest collects; with no argument it collects the project.    *)
Collected(targets) ==
  IF targets.all \/ targets = NoTargets THEN onDisk
  ELSE {f \in onDisk : f \in targets.files \/
                       \E d \in targets.dirs : SuiteOf[f] \in Below[d]}

(* runSuiteExecution and runBuildExecution up to their await: both read    *)
(* the suites, the second one the files too.                               *)
StartRun ==
  /\ ~launch.on
  /\ picked # {}
  /\ launch' =
       [ on |-> TRUE,
         ids |-> picked,
         chosen |-> IF tree = "build" THEN ComputeSelectedFiles ELSE NoFilter,
         label |-> SuiteCommandLabel(picked, ComputeSelectedFiles),
         quiet |-> TRUE ]   \* history: the boxes are as they were
  /\ UNCHANGED <<tree, onDisk, listed, picked, overrides, touched, stale>>

SentFiles == IF tree = "build" THEN launch.chosen ELSE ComputeSelectedFiles

SendRun ==
  /\ launch.on
  /\ launch' = NoLaunch
  /\ UNCHANGED <<tree, onDisk, listed, picked, overrides, touched, stale>>

SentTargets == BuildPytestTargets(launch.ids, SentFiles)

SuiteNext ==
  \/ \E d \in Suites : ClickSuite(d)
  \/ \E f \in CaseFiles : ClickFile(f)
  \/ ChangeTests \/ RefreshSuites \/ OpenOtherSuites
  \/ StartRun \/ SendRun

SuiteSpec == SuiteInit /\ [][SuiteNext]_suiteVars

-----------------------------------------------------------------------------
(* The variables have their types.                                         *)
SuiteTypeOK ==
  /\ tree \in {"debug", "build"}
  /\ onDisk \subseteq CaseFiles /\ listed \subseteq CaseFiles
  /\ picked \subseteq AvailableSuiteIds
  /\ DOMAIN overrides \subseteq Suites
  /\ \A s \in DOMAIN overrides : overrides[s] \subseteq {f \in CaseFiles : SuiteOf[f] = s}
  /\ touched \in BOOLEAN /\ stale \in BOOLEAN
  /\ launch.on => launch.ids # {}

(* While no file of an overridden suite came or went, an override says     *)
(* something the suite's own box cannot: some files of a selected suite,   *)
(* none of one that is not selected.                                       *)
OverrideIsPartial ==
  ~stale => \A s \in DOMAIN overrides :
              IF s \in picked
              THEN overrides[s] # {} /\ overrides[s] # GetSuiteFiles(s)
                   /\ overrides[s] \subseteq GetSuiteFiles(s)
              ELSE overrides[s] = {}

(* While no file of an overridden suite came or went, the box of a         *)
(* directory is on exactly when every file below it is, and off exactly    *)
(* when none is.                                                           *)
BoxTellsTruth ==
  ~stale => \A d \in Suites :
              LET ids == NodeSuiteIds(d, {})
                  box == Box(ids)
                  below == {f \in listed : SuiteOf[f] \in ids}
                  on == below \cap Checked
              IN  ids # {} => /\ (box = "on") <=> (on = below)
                              /\ (box = "off") <=> (on = {})

(* A click on a file's box changes that box and no other file's, and one   *)
(* on a directory's leaves the files outside it as they were.              *)
ClickReachesItsOwn ==
  [][~stale /\ listed' = listed /\ suiteVars' # suiteVars =>
       /\ \A f \in CaseFiles : ClickFile(f) =>
            Checked' = IF f \in Checked THEN Checked \ {f} ELSE Checked \cup {f}
       /\ \A d \in Suites : ClickSuite(d) =>
            \A f \in listed : SuiteOf[f] \notin Below[d] =>
              (f \in Checked <=> f \in Checked')]_suiteVars

(* When the boxes did not move while the run was started and the window    *)
(* shows what is on disk, pytest collects every checked file, and nothing  *)
(* else as soon as one suite is selected in part or none holds another.    *)
RunsWhatIsChecked ==
  [][SendRun /\ launch.quiet /\ onDisk = listed /\ ~stale =>
       /\ Checked \subseteq Collected(SentTargets)
       /\ (SentFiles.some \/ (AllId \notin launch.ids /\
             \A s \in launch.ids : Below[s] \cap Discover(onDisk) \subseteq launch.ids)) =>
            Collected(SentTargets) = Checked]_suiteVars

(* When the window shows the suites that are on disk, the command it       *)
(* displays for the run is the one that is executed.                       *)
LabelNamesTheRun ==
  [][SendRun /\ launch.quiet /\ Discover(onDisk) = Discover(listed) =>
       SentTargets = launch.label]_suiteVars

(* The boxes of a tree tell which files are selected.                      *)
BoxesTellTruth == SuiteTypeOK /\ OverrideIsPartial /\ BoxTellsTruth

(* A click selects what its box covers, and a run takes what is selected   *)
(* and is labelled as such.                                                *)
SelectionIsRun == ClickReachesItsOwn /\ RunsWhatIsChecked /\ LabelNamesTheRun
=============================================================================
