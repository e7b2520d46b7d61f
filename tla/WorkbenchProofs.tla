-------------------------- MODULE WorkbenchProofs ---------------------------
(***************************************************************************)
(* Proofs about three parts of the window: the test suites, for any tree   *)
(* of suites and any set of files, the keyword index, for any number of    *)
(* projects and of queries under way at once, answered in any order, and   *)
(* the tabs of the editor, for any files, texts and replies under way.     *)
(*                                                                         *)
(* The suites: what the box of a suite counts is what a run of it would    *)
(* start with, because an override never names all the files of its suite  *)
(* nor, while the suite is selected, none of them.  Counting the union of  *)
(* disjoint finite sets, the box is full, empty or in between exactly when *)
(* the files below it are.  The arguments of a run leave out a suite that  *)
(* is below another selected one; every selected suite is still covered,   *)
(* since "below" has no infinite ascent in a finite set.                   *)
(*                                                                         *)
(* The index: a version is only ever compared with an earlier one of the   *)
(* same project.  Each cache and each list is bounded below by the version *)
(* at its last reset, and so is every query that may still fill it; a      *)
(* query that was under way at a reset is what "overtaken" and "doubtful"  *)
(* stand for.                                                              *)
(*                                                                         *)
(* The tabs: their list is a map from keys as long as no two share one,    *)
(* and every helper of the window is described by what it does to that map *)
(* (Shape and the lemmas on it).  The invariant then relates the tabs, the *)
(* disk and the queue of replies: each reply still fits the disk by the    *)
(* time it comes, or a later one brings the newer text (CallsOK); a tab    *)
(* without a mark shows the disk, or a reply that will make it so is on    *)
(* its way (TextsOK); and the root state is empty under an open tab only   *)
(* while a reply that fills it again is (Return).                          *)
(***************************************************************************)
EXTENDS SuiteSelection, KeywordIndex, FileTabs, FiniteSetTheorems, SequenceTheorems,
        WellFoundedInduction, TLAPS

-----------------------------------------------------------------------------
(* Test suites.                                                            *)

Launches ==
  [ on : {TRUE}, ids : SUBSET Suites, chosen : [some : BOOLEAN, files : SUBSET CaseFiles],
    label : [files : SUBSET CaseFiles, dirs : SUBSET Suites, all : BOOLEAN], quiet : BOOLEAN ]

(* Shapes, and an override of a selected suite names a file.               *)
ShapeInv ==
  /\ SuiteTypeOK
  /\ overrides = [s \in DOMAIN overrides |-> overrides[s]]
  /\ ~touched => DOMAIN overrides = {}
  /\ \A s \in picked \cap DOMAIN overrides : overrides[s] # {}

(* A run that is being started is about the boxes as they are, unless they *)
(* moved since.                                                            *)
LaunchInv ==
  /\ launch \in {NoLaunch} \cup Launches
  /\ launch.on /\ launch.quiet =>
       /\ launch.ids = picked
       /\ tree = "build" => launch.chosen = ComputeSelectedFiles
       /\ launch.label = SuiteCommandLabel(picked, ComputeSelectedFiles)

SelectionInv == ShapeInv /\ OverrideIsPartial /\ LaunchInv

LEMMA AvailableFacts ==
  ASSUME NEW files \in SUBSET CaseFiles
  PROVE  /\ Discover(files) \subseteq Suites
         /\ \A s : FilesIn(s, files) # {} <=> s \in Discover(files)
         /\ \A s : FilesIn(s, files) \subseteq files
         /\ \A s : \A f \in FilesIn(s, files) : SuiteOf[f] = s
         /\ \A f \in files : f \in FilesIn(SuiteOf[f], files)
  BY SuitesAssumption DEF Discover, FilesIn

(* What a suite starts from is what its box counts.                        *)
LEMMA CountedIsStarting ==
  ASSUME ShapeInv, OverrideIsPartial, ~stale, NEW s
  PROVE  /\ CountedFiles(s) = StartingFiles(s)
         /\ CountedFiles(s) \subseteq GetSuiteFiles(s)
         /\ s \notin picked => CountedFiles(s) = {}
         /\ s \in picked /\ s \in DOMAIN overrides =>
              CountedFiles(s) # {} /\ CountedFiles(s) # GetSuiteFiles(s)
         /\ s \in picked /\ s \notin DOMAIN overrides => CountedFiles(s) = GetSuiteFiles(s)
  BY DEF CountedFiles, StartingFiles, OverrideIsPartial

LEMMA ListedAreCounted ==
  ASSUME ShapeInv, NEW f \in listed
  PROVE  f \in Checked <=> f \in CountedFiles(SuiteOf[f])
<1>1. listed \subseteq CaseFiles
  BY DEF ShapeInv, SuiteTypeOK
<1>2. f \in GetSuiteFiles(SuiteOf[f])
  BY <1>1, AvailableFacts DEF GetSuiteFiles
<1> QED
  BY <1>2 DEF Checked, IsFileSelected, CountedFiles

(* The box of some suites, in terms of the files it counts.                *)
LEMMA BoxFacts ==
  ASSUME ShapeInv, OverrideIsPartial, ~stale,
         NEW ids \in SUBSET AvailableSuiteIds, ids # {}
  PROVE  LET below == {f \in listed : SuiteOf[f] \in ids}
             on == below \cap Checked
         IN  /\ Box(ids) = "on" <=> on = below
             /\ Box(ids) = "off" <=> on = {}
<1> DEFINE below == {f \in listed : SuiteOf[f] \in ids}
           on == below \cap Checked
           total == Cardinality(UNION {GetSuiteFiles(s) : s \in ids})
           count == Cardinality(UNION {CountedFiles(s) : s \in ids})
           partial == \E s \in ids \cap picked \cap DOMAIN overrides :
                        Cardinality(overrides[s]) \notin {0, Cardinality(GetSuiteFiles(s))}
<1>1. listed \subseteq CaseFiles /\ IsFiniteSet(CaseFiles)
  BY SuitesAssumption DEF ShapeInv, SuiteTypeOK
<1>2. UNION {GetSuiteFiles(s) : s \in ids} = below
  BY <1>1, AvailableFacts DEF GetSuiteFiles
<1>3. UNION {CountedFiles(s) : s \in ids} = on
  <2>1. ASSUME NEW s \in ids, NEW f \in CountedFiles(s) PROVE f \in on
    <3>1. f \in GetSuiteFiles(s)
      BY CountedIsStarting
    <3>2. f \in listed /\ SuiteOf[f] = s
      BY <1>1, <3>1, AvailableFacts DEF GetSuiteFiles
    <3> QED
      BY <3>2, ListedAreCounted
  <2>2. ASSUME NEW f \in on PROVE \E s \in ids : f \in CountedFiles(s)
    BY ListedAreCounted
  <2> QED
    BY <2>1, <2>2
<1>4. IsFiniteSet(below) /\ IsFiniteSet(on)
  BY <1>1, FS_Subset
<1>5. /\ total = Cardinality(below) /\ count = Cardinality(on)
      /\ total \in Nat /\ count \in Nat /\ count <= total
      /\ count = total <=> on = below
      /\ count = 0 <=> on = {}
  <2>1. total = Cardinality(below) /\ count = Cardinality(on)
    BY <1>2, <1>3
  <2>2. total \in Nat /\ count \in Nat
    BY <1>4, <2>1, FS_CardinalityType
  <2>3. count <= total /\ (total = count => on = below)
    BY <1>4, <2>1, FS_Subset
  <2>4. count = 0 <=> on = {}
    BY <1>4, <2>1, FS_EmptySet
  <2> HIDE DEF total, count
  <2> QED
    BY <2>1, <2>2, <2>3, <2>4
<1>6. below # {}
  <2>1. PICK s \in ids : TRUE
    OBVIOUS
  <2>2. FilesIn(s, listed) # {}
    BY <1>1, <2>1, AvailableFacts DEF AvailableSuiteIds
  <2> QED
    BY <1>1, <2>1, <2>2, AvailableFacts
<1>7. partial => on # below /\ on # {}
  <2> SUFFICES ASSUME NEW s \in ids \cap picked \cap DOMAIN overrides
               PROVE  on # below /\ on # {}
    OBVIOUS
  <2>1. /\ CountedFiles(s) # {} /\ CountedFiles(s) # GetSuiteFiles(s)
        /\ CountedFiles(s) \subseteq GetSuiteFiles(s)
    BY CountedIsStarting
  <2>2. PICK f, g : f \in CountedFiles(s) /\ g \in GetSuiteFiles(s) \ CountedFiles(s)
    BY <2>1
  <2>3. /\ f \in listed /\ SuiteOf[f] = s /\ g \in listed /\ SuiteOf[g] = s
    BY <1>1, <2>1, <2>2, AvailableFacts DEF GetSuiteFiles
  <2>4. f \in on /\ g \in below /\ g \notin on
    BY <2>2, <2>3, ListedAreCounted
  <2> QED
    BY <2>4
<1>8. Box(ids) = IF partial \/ (0 < count /\ count < total) THEN "partial"
                 ELSE IF count = total THEN "on" ELSE "off"
  BY DEF Box
<1> HIDE DEF below, on, total, count, partial
<1>9. Box(ids) = "on" <=> on = below
  BY <1>5, <1>6, <1>7, <1>8
<1>10. Box(ids) = "off" <=> on = {}
  BY <1>5, <1>6, <1>7, <1>8
<1> QED
  BY <1>9, <1>10 DEF below, on

LEMMA BoxesFollow == ShapeInv /\ OverrideIsPartial => BoxTellsTruth
<1> SUFFICES ASSUME ShapeInv, OverrideIsPartial, ~stale, NEW d \in Suites,
                    NodeSuiteIds(d, {}) # {}
             PROVE  LET box == Box(NodeSuiteIds(d, {}))
                        below == {f \in listed : SuiteOf[f] \in NodeSuiteIds(d, {})}
                        on == below \cap Checked
                    IN  /\ (box = "on") <=> (on = below)
                        /\ (box = "off") <=> (on = {})
  BY DEF BoxTellsTruth
<1> QED
  BY BoxFacts DEF NodeSuiteIds

-----------------------------------------------------------------------------
(* The clicks.                                                             *)

LEMMA LaunchMeddled ==
  ASSUME LaunchInv, Meddle
  PROVE  LaunchInv' /\ (launch'.on => launch.on /\ launch'.ids = launch.ids)
<1>1. CASE launch.on
  <2>1. launch \in Launches
    BY <1>1 DEF LaunchInv, NoLaunch
  <2>2. launch' \in Launches /\ ~launch'.quiet /\ launch'.ids = launch.ids
    BY <1>1, <2>1 DEF Meddle, Launches
  <2> QED
    BY <1>1, <2>2 DEF LaunchInv
<1>2. CASE ~launch.on
  BY <1>2 DEF LaunchInv, Meddle
<1> QED
  BY <1>1, <1>2

LEMMA ClickSuiteKeeps ==
  ASSUME SelectionInv, NEW d \in Suites, ClickSuite(d)
  PROVE  SelectionInv'
<1>1. PICK ids \in SUBSET AvailableSuiteIds, on \in BOOLEAN :
        /\ ids \subseteq Below[d]
        /\ HandleSuiteSelectionChange(ids, on) /\ Meddle
        /\ UNCHANGED <<tree, onDisk, listed, stale>>
  BY DEF ClickSuite, NodeSuiteIds
<1>2. LaunchInv' /\ (launch'.on => launch.on /\ launch'.ids = launch.ids)
  BY <1>1, LaunchMeddled DEF SelectionInv
<1>3. /\ picked' \subseteq AvailableSuiteIds /\ AvailableSuiteIds' = AvailableSuiteIds
      /\ DOMAIN overrides' = DOMAIN overrides \ ids
      /\ \A s \in DOMAIN overrides' :
           overrides'[s] = overrides[s] /\ (s \in picked' <=> s \in picked)
      /\ overrides' = [s \in DOMAIN overrides' |-> overrides'[s]]
      /\ touched'
  BY <1>1 DEF HandleSuiteSelectionChange, Without, AvailableSuiteIds, SelectionInv, ShapeInv, SuiteTypeOK
<1>4. ShapeInv'
  <2>1. SuiteTypeOK'
    BY <1>1, <1>2, <1>3 DEF SelectionInv, ShapeInv, SuiteTypeOK
  <2> QED
    BY <1>3, <2>1 DEF SelectionInv, ShapeInv
<1>5. OverrideIsPartial'
  BY <1>1, <1>3 DEF SelectionInv, OverrideIsPartial, GetSuiteFiles
<1> QED
  BY <1>2, <1>4, <1>5 DEF SelectionInv

LEMMA StartingFacts ==
  ASSUME ShapeInv, NEW s \in Suites
  PROVE  /\ StartingFiles(s) \subseteq {f \in CaseFiles : SuiteOf[f] = s}
         /\ OverrideIsPartial /\ ~stale => StartingFiles(s) \subseteq GetSuiteFiles(s)
<1>1. listed \subseteq CaseFiles
  BY DEF ShapeInv, SuiteTypeOK
<1>2. GetSuiteFiles(s) \subseteq {f \in CaseFiles : SuiteOf[f] = s}
  BY <1>1, AvailableFacts DEF GetSuiteFiles
<1> QED
  BY <1>2 DEF StartingFiles, ShapeInv, SuiteTypeOK, OverrideIsPartial

LEMMA SameNumber ==
  ASSUME NEW S, NEW T \in SUBSET S, IsFiniteSet(S), Cardinality(T) = Cardinality(S)
  PROVE  T = S
  BY FS_Subset

(* What a click on the box of a file makes of its suite.                   *)
SuiteGets(suite, chosen) ==
  /\ touched'
  /\ chosen \subseteq {g \in CaseFiles : SuiteOf[g] = suite}
  /\ ~stale => chosen \subseteq GetSuiteFiles(suite)
  /\ picked' = IF chosen = {} THEN picked \ {suite} ELSE picked \cup {suite}
  /\ \/ /\ chosen # {} /\ (~stale => chosen = GetSuiteFiles(suite))
        /\ overrides' = [s \in DOMAIN overrides \ {suite} |-> overrides[s]]
     \/ /\ chosen = GetSuiteFiles(suite) => chosen = {}
        /\ overrides' = [s \in DOMAIN overrides \cup {suite} |->
                           IF s = suite THEN chosen ELSE overrides[s]]

LEMMA FileClicked ==
  ASSUME SelectionInv, NEW f \in listed, NEW on, HandleFileSelectionChange(f, on)
  PROVE  /\ SuiteOf[f] \in AvailableSuiteIds
         /\ SuiteGets(SuiteOf[f], IF on THEN StartingFiles(SuiteOf[f]) \cup {f}
                                  ELSE StartingFiles(SuiteOf[f]) \ {f})
<1> DEFINE suite == SuiteOf[f]
           chosen == IF on THEN StartingFiles(suite) \cup {f} ELSE StartingFiles(suite) \ {f}
<1>1. /\ listed \subseteq CaseFiles /\ IsFiniteSet(CaseFiles)
      /\ picked \subseteq AvailableSuiteIds
      /\ AvailableSuiteIds \subseteq Suites
  BY SuitesAssumption, AvailableFacts DEF SelectionInv, ShapeInv, SuiteTypeOK, AvailableSuiteIds
<1>2. suite \in AvailableSuiteIds /\ f \in GetSuiteFiles(suite) /\ f \in CaseFiles
  BY <1>1, AvailableFacts DEF AvailableSuiteIds, GetSuiteFiles
<1>3. /\ chosen \subseteq {g \in CaseFiles : SuiteOf[g] = suite}
      /\ ~stale => chosen \subseteq GetSuiteFiles(suite)
  BY <1>1, <1>2, StartingFacts DEF SelectionInv
<1>4. IsFiniteSet(GetSuiteFiles(suite))
  BY <1>1, FS_Subset DEF GetSuiteFiles, FilesIn
<1>5. ~stale /\ Cardinality(chosen) = Cardinality(GetSuiteFiles(suite)) => chosen = GetSuiteFiles(suite)
  BY <1>3, <1>4, SameNumber
<1>6. touched' /\ SyncSuiteFromFiles(suite, chosen)
  BY DEF HandleFileSelectionChange
<1> HIDE DEF suite, chosen
<1>7. picked' = IF chosen = {} THEN picked \ {suite} ELSE picked \cup {suite}
  BY <1>1, <1>2, <1>6 DEF SyncSuiteFromFiles
<1>8. \/ /\ chosen # {} /\ (~stale => chosen = GetSuiteFiles(suite))
         /\ overrides' = [s \in DOMAIN overrides \ {suite} |-> overrides[s]]
      \/ /\ chosen = GetSuiteFiles(suite) => chosen = {}
         /\ overrides' = [s \in DOMAIN overrides \cup {suite} |->
                            IF s = suite THEN chosen ELSE overrides[s]]
  BY <1>5, <1>6 DEF SyncSuiteFromFiles, Without, With
<1>9. SuiteGets(suite, chosen)
  BY <1>3, <1>6, <1>7, <1>8 DEF SuiteGets
<1> QED
  BY <1>2, <1>9 DEF suite, chosen

LEMMA ClickFileKeeps ==
  ASSUME SelectionInv, NEW f \in CaseFiles, ClickFile(f)
  PROVE  SelectionInv'
<1>1. /\ f \in listed /\ HandleFileSelectionChange(f, ~IsFileSelected(f)) /\ Meddle
      /\ UNCHANGED <<tree, onDisk, listed, stale>>
  BY DEF ClickFile
<1>2. LaunchInv' /\ (launch'.on => launch.on /\ launch'.ids = launch.ids)
  BY <1>1, LaunchMeddled DEF SelectionInv
<1>a. PICK suite \in AvailableSuiteIds : \E files : SuiteGets(suite, files)
  BY <1>1, FileClicked
<1>3. PICK chosen : SuiteGets(suite, chosen)
  BY <1>a
<1>4. AvailableSuiteIds' = AvailableSuiteIds /\ AvailableSuiteIds \subseteq Suites
  BY <1>1, AvailableFacts DEF AvailableSuiteIds, SelectionInv, ShapeInv, SuiteTypeOK
<1>5. ShapeInv'
  <2>1. DOMAIN overrides' \subseteq Suites /\ \A s \in DOMAIN overrides' :
          overrides'[s] \subseteq {g \in CaseFiles : SuiteOf[g] = s}
    BY <1>3, <1>4 DEF SuiteGets, SelectionInv, ShapeInv, SuiteTypeOK
  <2>2. picked' \subseteq AvailableSuiteIds
    BY <1>3 DEF SuiteGets, SelectionInv, ShapeInv, SuiteTypeOK
  <2>3. SuiteTypeOK'
    BY <1>1, <1>2, <1>3, <1>4, <2>1, <2>2 DEF SuiteGets, SelectionInv, ShapeInv, SuiteTypeOK
  <2>4. \A s \in picked' \cap DOMAIN overrides' : overrides'[s] # {}
    BY <1>3 DEF SuiteGets, SelectionInv, ShapeInv
  <2> QED
    BY <1>3, <2>3, <2>4 DEF SuiteGets, SelectionInv, ShapeInv
<1>6. OverrideIsPartial'
  <2> SUFFICES ASSUME ~stale, NEW s \in DOMAIN overrides'
               PROVE  IF s \in picked'
                      THEN overrides'[s] # {} /\ overrides'[s] # GetSuiteFiles(s)
                           /\ overrides'[s] \subseteq GetSuiteFiles(s)
                      ELSE overrides'[s] = {}
    BY <1>1 DEF OverrideIsPartial, GetSuiteFiles
  <2>1. CASE s = suite
    BY <1>3, <2>1 DEF SuiteGets
  <2>2. CASE s # suite
    BY <1>3, <2>2 DEF SuiteGets, SelectionInv, OverrideIsPartial
  <2> QED
    BY <2>1, <2>2
<1> QED
  BY <1>2, <1>5, <1>6 DEF SelectionInv

-----------------------------------------------------------------------------
(* The project changes, and runs are started.                              *)

LEMMA RefreshKeeps ==
  ASSUME SelectionInv, RefreshSuites
  PROVE  SelectionInv'
<1>1. LaunchInv' /\ (launch'.on => launch.on /\ launch'.ids = launch.ids)
  BY LaunchMeddled DEF SelectionInv, RefreshSuites
<1>2. /\ listed \subseteq CaseFiles /\ listed' \subseteq CaseFiles
      /\ Discover(onDisk) = AvailableSuiteIds'
      /\ picked \subseteq AvailableSuiteIds /\ picked' \subseteq AvailableSuiteIds'
  BY DEF RefreshSuites, SelectionInv, ShapeInv, SuiteTypeOK, AvailableSuiteIds
<1>3. ShapeInv'
  <2>1. SuiteTypeOK'
    BY <1>1, <1>2 DEF RefreshSuites, SelectionInv, ShapeInv, SuiteTypeOK
  <2> QED
    BY <2>1 DEF RefreshSuites, SelectionInv, ShapeInv
<1>4. OverrideIsPartial'
  <2> SUFFICES ASSUME ~stale', NEW s \in DOMAIN overrides'
               PROVE  IF s \in picked'
                      THEN overrides'[s] # {} /\ overrides'[s] # GetSuiteFiles(s)'
                           /\ overrides'[s] \subseteq GetSuiteFiles(s)'
                      ELSE overrides'[s] = {}
    BY DEF OverrideIsPartial
  <2>1. /\ ~stale /\ overrides' = overrides /\ touched
        /\ GetSuiteFiles(s)' = GetSuiteFiles(s)
        /\ picked' = picked \cap AvailableSuiteIds'
    BY <1>2 DEF RefreshSuites, GetSuiteFiles, SelectionInv, ShapeInv
  <2>2. s \in picked => s \in AvailableSuiteIds'
    BY <1>2, <2>1, AvailableFacts DEF GetSuiteFiles, AvailableSuiteIds
  <2> QED
    BY <2>1, <2>2 DEF SelectionInv, OverrideIsPartial
<1> QED
  BY <1>1, <1>3, <1>4 DEF SelectionInv

LEMMA OpenOtherKeeps ==
  ASSUME SelectionInv, OpenOtherSuites
  PROVE  SelectionInv'
<1>1. PICK tests \in SUBSET CaseFiles :
        /\ onDisk' = tests /\ listed' = tests /\ touched' = FALSE /\ overrides' = << >>
        /\ picked' = Discover(tests) /\ Meddle /\ stale' = FALSE /\ tree' = tree
  BY DEF OpenOtherSuites
<1>2. LaunchInv' /\ (launch'.on => launch.on /\ launch'.ids = launch.ids)
  BY <1>1, LaunchMeddled DEF SelectionInv
<1>3. overrides' = [s \in {} |-> {}]
  BY <1>1
<1>4. DOMAIN overrides' = {} /\ overrides' = [s \in DOMAIN overrides' |-> overrides'[s]]
  BY <1>3
<1>5. SuiteTypeOK'
  BY <1>1, <1>2, <1>4 DEF SelectionInv, ShapeInv, SuiteTypeOK, AvailableSuiteIds
<1>6. ShapeInv'
  BY <1>4, <1>5 DEF ShapeInv
<1> QED
  BY <1>2, <1>4, <1>6 DEF SelectionInv, OverrideIsPartial

LEMMA InitialSelection == SuiteInit => SelectionInv
<1> SUFFICES ASSUME SuiteInit PROVE SelectionInv
  OBVIOUS
<1>1. overrides = [s \in {} |-> {}]
  BY DEF SuiteInit
<1>2. DOMAIN overrides = {} /\ overrides = [s \in DOMAIN overrides |-> overrides[s]]
  BY <1>1
<1>3. SuiteTypeOK
  BY <1>2 DEF SuiteInit, SuiteTypeOK, AvailableSuiteIds, NoLaunch
<1> QED
  BY <1>2, <1>3 DEF SuiteInit, SelectionInv, ShapeInv, OverrideIsPartial, LaunchInv, NoLaunch

LEMMA ChangeTestsKeeps ==
  ASSUME SelectionInv, ChangeTests
  PROVE  SelectionInv'
<1>1. /\ onDisk' \subseteq CaseFiles
      /\ UNCHANGED <<tree, listed, picked, overrides, touched, launch, stale>>
  BY SuitesAssumption DEF ChangeTests, SelectionInv, ShapeInv, SuiteTypeOK
<1> QED
  BY <1>1 DEF SelectionInv, ShapeInv, SuiteTypeOK, OverrideIsPartial, LaunchInv, AvailableSuiteIds,
              GetSuiteFiles, ComputeSelectedFiles, SuiteCommandLabel

(* What is selected, of which kind it is.                                  *)
LEMMA SelectedFacts ==
  ASSUME ShapeInv
  PROVE  /\ ComputeSelectedFiles \in [some : BOOLEAN, files : SUBSET CaseFiles]
         /\ ComputeSelectedFiles.some <=> picked \cap DOMAIN overrides # {}
         /\ ComputeSelectedFiles.some =>
              /\ ComputeSelectedFiles.files = UNION {CountedFiles(s) : s \in picked}
              /\ ComputeSelectedFiles.files # {}
         /\ ~ComputeSelectedFiles.some => ComputeSelectedFiles.files = {}
<1>1. picked \subseteq Suites /\ listed \subseteq CaseFiles
  BY AvailableFacts DEF ShapeInv, SuiteTypeOK, AvailableSuiteIds
<1>2. \A s \in picked : CountedFiles(s) = IF s \in DOMAIN overrides THEN overrides[s] ELSE GetSuiteFiles(s)
  BY DEF CountedFiles
<1>3. \A s \in picked : CountedFiles(s) \subseteq CaseFiles
  BY <1>1, <1>2, AvailableFacts DEF GetSuiteFiles, ShapeInv, SuiteTypeOK
<1>4. CASE picked \cap DOMAIN overrides # {}
  <2>1. PICK s \in picked \cap DOMAIN overrides : CountedFiles(s) # {}
    BY <1>2, <1>4 DEF ShapeInv
  <2>2. ComputeSelectedFiles = [some |-> TRUE, files |-> UNION {CountedFiles(t) : t \in picked}]
    BY <1>2, <1>4 DEF ComputeSelectedFiles, Chosen
  <2>3. UNION {CountedFiles(t) : t \in picked} # {}
    BY <2>1
  <2>4. UNION {CountedFiles(t) : t \in picked} \subseteq CaseFiles
    BY <1>3
  <2> QED
    BY <1>4, <2>2, <2>3, <2>4
<1>5. CASE picked \cap DOMAIN overrides = {}
  BY <1>5 DEF ComputeSelectedFiles, NoFilter
<1> QED
  BY <1>4, <1>5

LEMMA StartRunKeeps ==
  ASSUME SelectionInv, StartRun
  PROVE  SelectionInv'
<1> DEFINE label == SuiteCommandLabel(picked, ComputeSelectedFiles)
<1>1. /\ UNCHANGED <<tree, onDisk, listed, picked, overrides, touched, stale>>
      /\ picked # {} /\ picked \subseteq Suites
  BY AvailableFacts DEF StartRun, SelectionInv, ShapeInv, SuiteTypeOK, AvailableSuiteIds
<1>2. ComputeSelectedFiles \in [some : BOOLEAN, files : SUBSET CaseFiles]
  BY SelectedFacts DEF SelectionInv
<1>3. CompactTargets(picked) \subseteq Suites
  BY <1>1 DEF CompactTargets
<1>4. label \in [files : SUBSET CaseFiles, dirs : SUBSET Suites, all : BOOLEAN]
  BY <1>2, <1>3 DEF SuiteCommandLabel, SuiteTargetPaths, NoTargets
<1> HIDE DEF label
<1>5. /\ launch' \in Launches /\ launch'.ids = picked /\ launch'.label = label
      /\ tree = "build" => launch'.chosen = ComputeSelectedFiles
  BY <1>1, <1>2, <1>4 DEF StartRun, Launches, NoFilter, label
<1>6. /\ ComputeSelectedFiles' = ComputeSelectedFiles
      /\ SuiteCommandLabel(picked, ComputeSelectedFiles)' = label
  BY <1>1 DEF ComputeSelectedFiles, GetSuiteFiles, SuiteCommandLabel, label
<1>7. LaunchInv'
  BY <1>1, <1>5, <1>6 DEF LaunchInv
<1>8. ShapeInv'
  BY <1>1, <1>5 DEF SelectionInv, ShapeInv, SuiteTypeOK, AvailableSuiteIds
<1> QED
  BY <1>1, <1>7, <1>8 DEF SelectionInv, OverrideIsPartial, GetSuiteFiles

LEMMA SendRunKeeps ==
  ASSUME SelectionInv, SendRun
  PROVE  SelectionInv'
  BY DEF SendRun, SelectionInv, ShapeInv, SuiteTypeOK, OverrideIsPartial, LaunchInv,
         AvailableSuiteIds, GetSuiteFiles, NoLaunch

LEMMA SelectionStep == SelectionInv /\ [SuiteNext]_suiteVars => SelectionInv'
<1> SUFFICES ASSUME SelectionInv, [SuiteNext]_suiteVars PROVE SelectionInv'
  OBVIOUS
<1>1. CASE UNCHANGED suiteVars
  BY <1>1 DEF suiteVars, SelectionInv, ShapeInv, SuiteTypeOK, OverrideIsPartial, LaunchInv,
              AvailableSuiteIds, GetSuiteFiles, ComputeSelectedFiles, SuiteCommandLabel
<1>2. CASE SuiteNext
  BY <1>2, ClickSuiteKeeps, ClickFileKeeps, ChangeTestsKeeps, RefreshKeeps, OpenOtherKeeps,
     StartRunKeeps, SendRunKeeps DEF SuiteNext
<1> QED
  BY <1>1, <1>2

(* The variables have their types, overrides are partial, and the box of a *)
(* directory tells which of the files below it are selected.               *)
THEOREM BoxesAlwaysTellTruth == SuiteSpec => []BoxesTellTruth
<1>1. SelectionInv => BoxesTellTruth
  BY BoxesFollow DEF SelectionInv, ShapeInv, BoxesTellTruth
<1> QED
  BY <1>1, InitialSelection, SelectionStep, PTL DEF SuiteSpec

-----------------------------------------------------------------------------
(* The targets of pytest.                                                  *)

(* Every suite lies in one that the compact list keeps: a suite that no    *)
(* other one holds, as there are finitely many above it.                   *)
LEMMA CompactCovers ==
  ASSUME NEW ids \in SUBSET Suites, NEW s \in ids
  PROVE  \E t \in CompactTargets(ids) : s \in Below[t]
<1> DEFINE above == {t \in ids : s \in Below[t]}
           rest == {Suites \ Below[t] : t \in above}
<1>1. s \in above
  BY SuitesAssumption
<1>2. rest \subseteq FiniteSubsetsOf(Suites) /\ rest # {}
  <2>1. \A T \in SUBSET Suites : IsFiniteSet(T)
    BY SuitesAssumption, FS_Subset
  <2>2. \A t \in above : Suites \ Below[t] \in SUBSET Suites
    OBVIOUS
  <2> QED
    BY <1>1, <2>1, <2>2 DEF FiniteSubsetsOf
<1>3. PICK r \in rest : \A q \in rest : <<q, r>> \notin StrictSubsetOrdering(Suites)
  BY <1>2, FS_StrictSubsetOrderingWellFounded, WFMin
<1>4. PICK t \in above : r = Suites \ Below[t]
  OBVIOUS
<1>5. ASSUME NEW u \in ids \ {t}, t \in Below[u] PROVE FALSE
  <2>1. Below[t] \subseteq Below[u] /\ u \notin Below[t] /\ u \in Below[u]
        /\ Below[t] \subseteq Suites /\ Below[u] \subseteq Suites
    BY <1>4, <1>5, SuitesAssumption
  <2>2. u \in above
    BY <1>4, <2>1
  <2>3. /\ Suites \ Below[u] \in SUBSET Suites /\ r \in SUBSET Suites
        /\ Suites \ Below[u] \subseteq r /\ Suites \ Below[u] # r
    BY <1>4, <2>1
  <2>4. <<Suites \ Below[u], r>> \in StrictSubsetOrdering(Suites)
    BY <2>3 DEF StrictSubsetOrdering
  <2> QED
    BY <1>3, <2>2, <2>4
<1> QED
  BY <1>4, <1>5 DEF CompactTargets

(* The files the boxes show as selected, by suite.                         *)
LEMMA CheckedBySuite ==
  ASSUME ShapeInv, OverrideIsPartial, ~stale
  PROVE  /\ Checked = UNION {CountedFiles(s) : s \in picked}
         /\ picked \cap DOMAIN overrides = {} => Checked = {f \in listed : SuiteOf[f] \in picked}
<1>1. listed \subseteq CaseFiles
  BY DEF ShapeInv, SuiteTypeOK
<1>2. \A f \in listed : f \in Checked <=> f \in CountedFiles(SuiteOf[f])
  BY ListedAreCounted
<1>3. \A s : \A f \in CountedFiles(s) : s \in picked /\ f \in listed /\ SuiteOf[f] = s
  BY <1>1, CountedIsStarting, AvailableFacts DEF GetSuiteFiles
<1>4. Checked = UNION {CountedFiles(s) : s \in picked}
  BY <1>2, <1>3 DEF Checked
<1>5. picked \cap DOMAIN overrides = {} => Checked = {f \in listed : SuiteOf[f] \in picked}
  BY DEF Checked, IsFileSelected
<1> QED
  BY <1>4, <1>5

(* What is sent while the boxes do not move.                               *)
LEMMA SentFacts ==
  ASSUME SelectionInv, launch.on, launch.quiet
  PROVE  launch.ids = picked /\ picked # {} /\ SentFiles = ComputeSelectedFiles
         /\ launch.label = SuiteCommandLabel(picked, ComputeSelectedFiles)
  BY DEF SelectionInv, ShapeInv, SuiteTypeOK, LaunchInv, SentFiles

LEMMA RunIsChecked ==
  ASSUME SelectionInv, launch.on, launch.quiet, onDisk = listed, ~stale
  PROVE  /\ Checked \subseteq Collected(SentTargets)
         /\ (SentFiles.some \/ (AllId \notin launch.ids /\
               \A s \in launch.ids : Below[s] \cap Discover(onDisk) \subseteq launch.ids)) =>
              Collected(SentTargets) = Checked
<1>1. /\ launch.ids = picked /\ picked # {} /\ SentFiles = ComputeSelectedFiles
      /\ picked \subseteq Discover(onDisk) /\ picked \subseteq Suites
      /\ Checked \subseteq onDisk /\ onDisk \subseteq CaseFiles
  BY SentFacts, AvailableFacts DEF SelectionInv, ShapeInv, SuiteTypeOK, AvailableSuiteIds, Checked
<1>2. CASE ComputeSelectedFiles.some
  <2>1. ComputeSelectedFiles.files = Checked /\ Checked # {}
    BY <1>2, SelectedFacts, CheckedBySuite DEF SelectionInv
  <2>2. /\ SentTargets.files = Checked /\ SentTargets.dirs = {} /\ SentTargets.all = FALSE
        /\ SentTargets # NoTargets
    BY <1>1, <2>1 DEF SentTargets, BuildPytestTargets, NoTargets
  <2>3. Collected(SentTargets) = Checked
    BY <1>1, <2>2 DEF Collected
  <2> QED
    BY <2>3
<1>3. CASE ~ComputeSelectedFiles.some
  <2>1. /\ ComputeSelectedFiles.files = {}
        /\ Checked = {f \in onDisk : SuiteOf[f] \in picked}
    BY <1>3, SelectedFacts, CheckedBySuite DEF SelectionInv
  <2>2. CASE AllId \in picked
    BY <1>1, <1>3, <2>1, <2>2 DEF SentTargets, BuildPytestTargets, Collected, NoTargets
  <2>3. CASE AllId \notin picked
    <3>1. picked \cap Discover(onDisk) = picked
      BY <1>1
    <3>2. /\ SentTargets.files = {} /\ SentTargets.all = FALSE
          /\ SentTargets.dirs = CompactTargets(picked)
      BY <1>1, <2>1, <2>3, <3>1 DEF SentTargets, BuildPytestTargets, NoTargets
    <3>3. \A s \in picked : \E t \in CompactTargets(picked) : s \in Below[t]
      BY <1>1, CompactCovers
    <3>4. SentTargets # NoTargets
      BY <1>1, <3>2, <3>3 DEF NoTargets
    <3>5. Collected(SentTargets) = {f \in onDisk : \E t \in CompactTargets(picked) : SuiteOf[f] \in Below[t]}
      BY <3>2, <3>4 DEF Collected
    <3>6. Checked \subseteq Collected(SentTargets)
      BY <2>1, <3>3, <3>5
    <3>7. ASSUME \A s \in picked : Below[s] \cap Discover(onDisk) \subseteq picked
          PROVE  Collected(SentTargets) = Checked
      <4>1. CompactTargets(picked) \subseteq picked
        BY DEF CompactTargets
      <4>2. \A f \in onDisk : SuiteOf[f] \in Discover(onDisk)
        BY DEF Discover
      <4> QED
        BY <2>1, <3>5, <3>6, <3>7, <4>1, <4>2
    <3> QED
      BY <1>1, <1>3, <3>6, <3>7
  <2> QED
    BY <2>2, <2>3
<1> QED
  BY <1>2, <1>3

LEMMA LabelIsRun ==
  ASSUME SelectionInv, launch.on, launch.quiet, Discover(onDisk) = Discover(listed)
  PROVE  SentTargets = launch.label
<1>1. /\ launch.ids = picked /\ picked # {} /\ SentFiles = ComputeSelectedFiles
      /\ launch.label = SuiteCommandLabel(picked, ComputeSelectedFiles)
      /\ picked \cap Discover(onDisk) = picked
  BY SentFacts DEF SelectionInv, ShapeInv, SuiteTypeOK, AvailableSuiteIds
<1>2. ComputeSelectedFiles.some <=> ComputeSelectedFiles.files # {}
  BY SelectedFacts DEF SelectionInv
<1> QED
  BY <1>1, <1>2 DEF SentTargets, BuildPytestTargets, SuiteCommandLabel, SuiteTargetPaths

-----------------------------------------------------------------------------
(* Clicks.                                                                 *)

LEMMA FileClickIsOwn ==
  ASSUME SelectionInv, ~stale, NEW f \in CaseFiles, ClickFile(f)
  PROVE  Checked' = IF f \in Checked THEN Checked \ {f} ELSE Checked \cup {f}
<1> DEFINE suite == SuiteOf[f]
           chosen == IF ~IsFileSelected(f) THEN StartingFiles(suite) \cup {f} ELSE StartingFiles(suite) \ {f}
<1>1. /\ f \in listed /\ HandleFileSelectionChange(f, ~IsFileSelected(f))
      /\ listed' = listed /\ stale' = stale
  BY DEF ClickFile
<1>2. SuiteGets(suite, chosen)
  BY <1>1, FileClicked
<1>3. StartingFiles(suite) = CountedFiles(suite)
  BY CountedIsStarting DEF SelectionInv
<1>4. f \in Checked <=> IsFileSelected(f)
  BY <1>1 DEF Checked
<1>5. ShapeInv'
  BY ClickFileKeeps DEF SelectionInv
<1>6. ASSUME NEW g \in listed, SuiteOf[g] # suite PROVE g \in Checked' <=> g \in Checked
  BY <1>1, <1>2, <1>6 DEF SuiteGets, Checked, IsFileSelected
<1>7. ASSUME NEW g \in listed, SuiteOf[g] = suite PROVE g \in Checked' <=> g \in chosen
  <2>1. g \in GetSuiteFiles(suite)
    BY <1>7, AvailableFacts DEF GetSuiteFiles, SelectionInv, ShapeInv, SuiteTypeOK
  <2> HIDE DEF suite, chosen
  <2> QED
    BY <1>1, <1>2, <1>7, <2>1 DEF SuiteGets, Checked, IsFileSelected
<1>8. ASSUME NEW g \in listed, SuiteOf[g] = suite PROVE g \in Checked <=> g \in CountedFiles(suite)
  BY <1>8, ListedAreCounted DEF SelectionInv
<1>9. Checked \subseteq listed /\ Checked' \subseteq listed
  BY <1>1 DEF Checked
<1>10. chosen = IF f \notin Checked THEN CountedFiles(suite) \cup {f} ELSE CountedFiles(suite) \ {f}
  BY <1>3, <1>4
<1> HIDE DEF chosen
<1>11. \A g \in listed : g \in Checked' <=> IF g = f THEN f \notin Checked ELSE g \in Checked
  BY <1>1, <1>6, <1>7, <1>8, <1>10
<1> QED
  BY <1>1, <1>9, <1>11

LEMMA SuiteClickIsOwn ==
  ASSUME SelectionInv, NEW d \in Suites, ClickSuite(d),
         NEW f \in listed, SuiteOf[f] \notin Below[d]
  PROVE  f \in Checked <=> f \in Checked'
<1>1. PICK ids \in SUBSET AvailableSuiteIds, on \in BOOLEAN :
        ids \subseteq Below[d] /\ HandleSuiteSelectionChange(ids, on) /\ listed' = listed
  BY DEF ClickSuite, NodeSuiteIds
<1>2. SuiteOf[f] \in AvailableSuiteIds
  BY AvailableFacts DEF SelectionInv, ShapeInv, SuiteTypeOK, AvailableSuiteIds, Discover
<1> QED
  BY <1>1, <1>2 DEF HandleSuiteSelectionChange, Without, Checked, IsFileSelected

(* A click selects what its box covers; a run takes what is selected and   *)
(* is labelled as such.                                                    *)
THEOREM SelectionAlwaysRun == SuiteSpec => SelectionIsRun
<1>1. SelectionInv /\ [SuiteNext]_suiteVars =>
        [~stale /\ listed' = listed /\ suiteVars' # suiteVars =>
           /\ \A f \in CaseFiles : ClickFile(f) =>
                Checked' = IF f \in Checked THEN Checked \ {f} ELSE Checked \cup {f}
           /\ \A d \in Suites : ClickSuite(d) =>
                \A f \in listed : SuiteOf[f] \notin Below[d] =>
                  (f \in Checked <=> f \in Checked')]_suiteVars
  BY FileClickIsOwn, SuiteClickIsOwn
<1>2. SelectionInv /\ [SuiteNext]_suiteVars =>
        [SendRun /\ launch.quiet /\ onDisk = listed /\ ~stale =>
           /\ Checked \subseteq Collected(SentTargets)
           /\ (SentFiles.some \/ (AllId \notin launch.ids /\
                 \A s \in launch.ids : Below[s] \cap Discover(onDisk) \subseteq launch.ids)) =>
                Collected(SentTargets) = Checked]_suiteVars
  BY RunIsChecked DEF SendRun
<1>3. SelectionInv /\ [SuiteNext]_suiteVars =>
        [SendRun /\ launch.quiet /\ Discover(onDisk) = Discover(listed) =>
           SentTargets = launch.label]_suiteVars
  BY LabelIsRun DEF SendRun
<1> QED
  BY <1>1, <1>2, <1>3, InitialSelection, SelectionStep, PTL
     DEF SuiteSpec, SelectionIsRun, ClickReachesItsOwn, RunsWhatIsChecked, LabelNamesTheRun

-----------------------------------------------------------------------------
(* Keywords and definitions.                                               *)
Entries == [some : BOOLEAN, res : Nat, py : Nat]
Queries == [ kind : {"definition", "completion", "panel"}, root : KeywordProjects,
             res : Nat, from : Nat, last : BOOLEAN ]
Lists == [some : {TRUE}, root : KeywordProjects, version : Nat]
Completions ==
  [ root : {{}} \cup {{r} : r \in KeywordProjects}, list : {NoList} \cup Lists,
    loaded : BOOLEAN, loading : BOOLEAN, since : Nat, doubtful : BOOLEAN ]
Browsers == [open : BOOLEAN, loading : BOOLEAN, list : {NoList} \cup Lists, since : Nat]

(* Shapes, and no version is ahead of its project.                         *)
SourcesInv ==
  /\ sources \in [KeywordProjects -> 0 .. MaxSaves]
  /\ home \in KeywordProjects /\ saving \subseteq KeywordProjects

QueriesInv ==
  /\ query \in [Asks -> {Silent} \cup Queries]
  /\ \A a \in Asks : query[a].kind # "none" => query[a].from <= sources[query[a].root]

(* How a step may treat the queries: those of a kind that are under way    *)
(* were under way before it, and none becomes the last question.           *)
NoneAdded(kind) ==
  \A b \in Asks : query'[b].kind = kind =>
    /\ query[b].kind = kind /\ query'[b].root = query[b].root
    /\ query'[b].res = query[b].res /\ query'[b].from = query[b].from
    /\ query'[b].last => query[b].last

OnlyOld == NoneAdded("definition") /\ NoneAdded("completion") /\ NoneAdded("panel")

PanelsStay ==
  \A b \in Running("panel") : query[b].last => b \in Running("panel")' /\ query'[b].last

Grow == \A r \in KeywordProjects : sources[r] <= sources'[r]

(* The caches of the main process, and the queries that may fill them.     *)
CachesInv ==
  /\ required \in [KeywordProjects -> Nat] /\ overtaken \in [KeywordProjects -> BOOLEAN]
  /\ full \in [KeywordProjects -> Entries] /\ resource \in [KeywordProjects -> Entries]
  /\ \A r \in KeywordProjects :
       /\ required[r] <= sources[r]
       /\ full[r].res <= sources[r] /\ full[r].py <= sources[r] /\ resource[r].res <= sources[r]
  /\ \A a \in Running("definition") :
       /\ query[a].res <= sources[query[a].root]
       /\ ~overtaken[query[a].root] =>
            query[a].res >= required[query[a].root] /\ query[a].from >= required[query[a].root]
  /\ CachedDefinitionsAreSaved

(* The list of the editor, and the queries that may replace it.            *)
CompletionInv ==
  /\ completion \in Completions
  /\ completion.since <= sources[home]
  /\ \A a \in Running("completion") :
       query[a].root = home /\ ~completion.doubtful => query[a].from >= completion.since
  /\ CompletionIsOfProject

(* The list of the panel, and the one query that may replace it.           *)
PanelInv ==
  /\ browser \in Browsers
  /\ \A a \in Running("panel") :
       query[a].last => query[a].root = home /\ query[a].from >= browser.since
  /\ \A a, b \in Running("panel") : query[a].last /\ query[b].last => a = b
  /\ PanelShowsLastLookup

(* The inductive form of KeywordsAreCurrent.                               *)
KeywordInv == SourcesInv /\ QueriesInv /\ CachesInv /\ CompletionInv /\ PanelInv

-----------------------------------------------------------------------------
(* The slots: a query ends, a query begins, all the panel's are demoted.   *)
LEMMA QueryEnds ==
  ASSUME SourcesInv, QueriesInv, UNCHANGED sources, NEW a \in Asks,
         query' = [query EXCEPT ![a] = Silent]
  PROVE  /\ QueriesInv' /\ OnlyOld /\ (query[a].kind # "panel" => PanelsStay)
         /\ query'[a].kind = "none" /\ \A b \in Asks \ {a} : query'[b] = query[b]
<1>1. /\ query' \in [Asks -> {Silent} \cup Queries] /\ query'[a] = Silent
      /\ \A b \in Asks \ {a} : query'[b] = query[b]
  BY DEF QueriesInv
<1> QED
  BY <1>1 DEF QueriesInv, OnlyOld, NoneAdded, PanelsStay, Running, Silent

LEMMA QueryBegins ==
  ASSUME SourcesInv, QueriesInv, UNCHANGED sources, NEW a \in Asks, Free(a), NEW q \in Queries,
         q.from <= sources[q.root], query' = [query EXCEPT ![a] = q]
  PROVE  /\ QueriesInv' /\ PanelsStay
         /\ \A kind \in {"definition", "completion", "panel"} \ {q.kind} : NoneAdded(kind)
         /\ query[a].kind = "none" /\ query'[a] = q
         /\ \A b \in Asks \ {a} : query'[b] = query[b]
<1>1. /\ query' \in [Asks -> {Silent} \cup Queries] /\ query'[a] = q
      /\ \A b \in Asks \ {a} : query'[b] = query[b]
  BY DEF QueriesInv
<1>2. query[a].kind = "none"
  BY DEF Free, Silent
<1> QED
  BY <1>1, <1>2 DEF QueriesInv, NoneAdded, PanelsStay, Running

(* What a step leaves alone stays true.                                    *)
LEMMA CachesKept ==
  ASSUME SourcesInv, SourcesInv', QueriesInv, QueriesInv', CachesInv, Grow, NoneAdded("definition"),
         UNCHANGED <<required, overtaken, full, resource>>
  PROVE  CachesInv'
<1>1. \A r \in KeywordProjects : /\ sources[r] \in Nat /\ sources'[r] \in Nat
        /\ sources[r] <= sources'[r] /\ required[r] \in Nat
  BY KeywordAssumption DEF SourcesInv, Grow, CachesInv
<1>2. \A r \in KeywordProjects :
        /\ full[r].res \in Nat /\ full[r].py \in Nat /\ resource[r].res \in Nat
  BY DEF CachesInv, Entries
<1>3. ASSUME NEW a \in Running("definition")'
      PROVE /\ a \in Running("definition") /\ query'[a].res \in Nat /\ query'[a].from \in Nat
            /\ query[a].root \in KeywordProjects
            /\ query'[a].root = query[a].root /\ query'[a].res = query[a].res
            /\ query'[a].from = query[a].from
  BY <1>3 DEF Running, NoneAdded, QueriesInv, Queries, Silent
<1>4. \A r \in KeywordProjects :
       /\ required[r] <= sources'[r]
       /\ full[r].res <= sources'[r] /\ full[r].py <= sources'[r]
       /\ resource[r].res <= sources'[r]
  BY <1>1, <1>2 DEF CachesInv
<1>5. ASSUME NEW a \in Running("definition")'
      PROVE query'[a].res <= sources'[query'[a].root]
  BY <1>1, <1>3 DEF CachesInv
<1>6. ASSUME NEW a \in Running("definition")', ~overtaken[query'[a].root]
      PROVE query'[a].res >= required[query'[a].root] /\ query'[a].from >= required[query'[a].root]
  BY <1>3, <1>6 DEF CachesInv
<1>7. CachedDefinitionsAreSaved'
  BY DEF CachesInv, CachedDefinitionsAreSaved
<1> QED
  BY <1>4, <1>5, <1>6, <1>7 DEF CachesInv

LEMMA CompletionKept ==
  ASSUME SourcesInv, SourcesInv', CompletionInv, Grow, NoneAdded("completion"),
         UNCHANGED <<completion, home>>
  PROVE  CompletionInv'
<1>1. sources[home] \in Nat /\ sources'[home] \in Nat /\ sources[home] <= sources'[home]
      /\ completion.since \in Nat
  BY KeywordAssumption DEF SourcesInv, Grow, CompletionInv, Completions
<1>2. completion'.since <= sources'[home']
  BY <1>1 DEF CompletionInv
<1>3. \A a \in Running("completion")' : a \in Running("completion") /\
        query'[a].root = query[a].root /\ query'[a].from = query[a].from
  BY DEF Running, NoneAdded
<1>4. CompletionIsOfProject'
  BY DEF CompletionInv, CompletionIsOfProject
<1> QED
  BY <1>2, <1>3, <1>4 DEF CompletionInv

LEMMA PanelKept ==
  ASSUME PanelInv, NoneAdded("panel"), PanelsStay, UNCHANGED <<browser, home>>
  PROVE  PanelInv'
<1>1. \A a \in Running("panel")' : a \in Running("panel") /\
        query'[a].root = query[a].root /\ query'[a].from = query[a].from /\
        (query'[a].last => query[a].last)
  BY DEF Running, NoneAdded
<1>2. PanelShowsLastLookup'
  BY <1>1 DEF PanelInv, PanelShowsLastLookup, PanelsStay
<1> QED
  BY <1>1, <1>2 DEF PanelInv

-----------------------------------------------------------------------------
(* The queries that read the project: a version between the one they were  *)
(* asked at and the present one.                                           *)
LEMMA ReadsBetween ==
  ASSUME SourcesInv, QueriesInv, NEW a \in Asks, query[a].kind # "none", NEW py \in PythonReads(a)
  PROVE  /\ query[a] \in Queries /\ query[a].root \in KeywordProjects
         /\ py \in Nat /\ query[a].from <= py /\ py <= sources[query[a].root]
<1>1. query[a] \in Queries
  BY DEF QueriesInv, Silent
<1>2. query[a].root \in KeywordProjects /\ query[a].from \in Nat
      /\ sources[query[a].root] \in Nat
  BY <1>1, KeywordAssumption DEF Queries, SourcesInv
<1> QED
  BY <1>1, <1>2 DEF PythonReads

LEMMA NothingGrows ==
  ASSUME SourcesInv, UNCHANGED <<sources, home, saving>>
  PROVE  SourcesInv' /\ Grow
<1>1. \A r \in KeywordProjects : sources[r] \in Nat
  BY KeywordAssumption DEF SourcesInv
<1> QED
  BY <1>1 DEF SourcesInv, Grow

LEMMA QueriesUntouched ==
  ASSUME SourcesInv, SourcesInv', QueriesInv, Grow, UNCHANGED query
  PROVE  QueriesInv' /\ OnlyOld /\ PanelsStay
<1>1. \A a \in Asks : query[a].kind # "none" => query[a] \in Queries
  BY DEF QueriesInv, Silent
<1>2. ASSUME NEW a \in Asks, query[a].kind # "none"
      PROVE query[a].from <= sources'[query[a].root]
  <2>1. query[a].root \in KeywordProjects /\ query[a].from \in Nat
    BY <1>1, <1>2 DEF Queries
  <2>2. sources[query[a].root] \in Nat /\ sources'[query[a].root] \in Nat
    BY <2>1, KeywordAssumption DEF SourcesInv
  <2> QED
    BY <1>2, <2>1, <2>2 DEF QueriesInv, Grow
<1> QED
  BY <1>2 DEF QueriesInv, OnlyOld, NoneAdded, PanelsStay, Running

LEMMA ExpireKeeps ==
  ASSUME KeywordInv, NEW r \in KeywordProjects, Expire(r)
  PROVE  KeywordInv'
<1> USE DEF KeywordInv
<1>1. /\ UNCHANGED <<sources, required, overtaken, query, home, saving, completion, browser>>
      /\ \/ full' = [full EXCEPT ![r] = Missing] /\ UNCHANGED resource
         \/ resource' = [resource EXCEPT ![r] = Missing] /\ UNCHANGED full
  BY DEF Expire
<1>2. SourcesInv' /\ Grow
  BY <1>1, NothingGrows
<1>3. QueriesInv' /\ OnlyOld /\ PanelsStay
  BY <1>1, <1>2, QueriesUntouched
<1>4. CompletionInv' /\ PanelInv'
  BY <1>1, <1>2, <1>3, CompletionKept, PanelKept DEF OnlyOld
<1>5. CachesInv'
  <2>1. /\ full' \in [KeywordProjects -> Entries] /\ resource' \in [KeywordProjects -> Entries]
        /\ \A s \in KeywordProjects :
             /\ full'[s] = Missing \/ full'[s] = full[s]
             /\ resource'[s] = Missing \/ resource'[s] = resource[s]
    <3>1. Missing \in Entries
      BY DEF Missing, Entries
    <3> QED
      BY <1>1, <3>1 DEF CachesInv
  <2>2. Running("definition")' = Running("definition")
    BY <1>1 DEF Running
  <2>3. \A s \in KeywordProjects : 0 <= sources[s]
    BY KeywordAssumption DEF SourcesInv
  <2> QED
    BY <1>1, <2>1, <2>2, <2>3 DEF CachesInv, CachedDefinitionsAreSaved, Missing
<1> QED
  BY <1>2, <1>3, <1>4, <1>5

LEMMA FindKeywordDefinitionsKeeps ==
  ASSUME KeywordInv, NEW a \in Asks, FindKeywordDefinitions(a, home)
  PROVE  KeywordInv'
<1> USE DEF KeywordInv
<1> DEFINE q == [kind |-> "definition", root |-> home, res |-> resource'[home].res,
                 from |-> sources[home], last |-> TRUE]
<1>1. /\ Free(a) /\ query' = [query EXCEPT ![a] = q]
      /\ resource' = [resource EXCEPT ![home] = IF @.some THEN @ ELSE Found(sources[home], 0)]
      /\ UNCHANGED <<sources, required, overtaken, full, home, saving, completion, browser>>
  BY DEF FindKeywordDefinitions
<1>2. SourcesInv' /\ Grow /\ home \in KeywordProjects /\ sources[home] \in Nat
  BY <1>1, NothingGrows, KeywordAssumption DEF SourcesInv
<1>3. /\ resource' \in [KeywordProjects -> Entries]
      /\ \A s \in KeywordProjects : /\ resource'[s].res <= sources[s]
                                    /\ resource'[s].some => resource'[s].res >= required[s]
      /\ resource'[home].res \in Nat /\ resource'[home].res >= required[home]
  BY <1>1, <1>2 DEF CachesInv, CachedDefinitionsAreSaved, Entries, Found
<1>4. q \in Queries /\ q.kind = "definition" /\ q.from <= sources[q.root]
  BY <1>2, <1>3 DEF Queries
<1>5. /\ QueriesInv' /\ PanelsStay
      /\ \A kind \in {"definition", "completion", "panel"} \ {q.kind} : NoneAdded(kind)
      /\ query[a].kind = "none" /\ query'[a] = q /\ \A b \in Asks \ {a} : query'[b] = query[b]
  BY <1>1, <1>4, QueryBegins
<1>6. CompletionInv' /\ PanelInv'
  BY <1>1, <1>2, <1>4, <1>5, CompletionKept, PanelKept DEF OnlyOld
<1>7. CachesInv'
  <2>1. ASSUME NEW b \in Running("definition")'
        PROVE /\ query'[b].res <= sources'[query'[b].root]
              /\ ~overtaken'[query'[b].root] =>
                   /\ query'[b].res >= required'[query'[b].root]
                   /\ query'[b].from >= required'[query'[b].root]
    <3>1. CASE b = a
      BY <1>1, <1>2, <1>3, <1>5, <3>1 DEF CachesInv
    <3>2. CASE b # a
      BY <1>1, <1>5, <2>1, <3>2 DEF CachesInv, Running
    <3> QED
      BY <3>1, <3>2
  <2> QED
    BY <1>1, <1>3, <2>1 DEF CachesInv, CachedDefinitionsAreSaved
<1> QED
  BY <1>2, <1>5, <1>6, <1>7

LEMMA DefinitionsFoundKeeps ==
  ASSUME KeywordInv, NEW a \in Asks, DefinitionsFound(a)
  PROVE  KeywordInv'
<1> USE DEF KeywordInv
<1>1. PICK py \in PythonReads(a) :
        full' = [full EXCEPT ![query[a].root] = Found(query[a].res, py)]
  BY DEF DefinitionsFound
<1>2. /\ query[a].kind = "definition" /\ query' = [query EXCEPT ![a] = Silent]
      /\ UNCHANGED <<sources, required, overtaken, resource, home, saving, completion, browser>>
  BY DEF DefinitionsFound
<1>3. SourcesInv' /\ Grow
  BY <1>2, NothingGrows
<1>4. /\ QueriesInv' /\ OnlyOld /\ (query[a].kind # "panel" => PanelsStay)
      /\ \A b \in Asks \ {a} : query'[b] = query[b]
  BY <1>2, QueryEnds
<1>5. CompletionInv' /\ PanelInv'
  BY <1>2, <1>3, <1>4, CompletionKept, PanelKept DEF OnlyOld
<1>6. CachesInv'
  <2>1. /\ query[a] \in Queries /\ query[a].root \in KeywordProjects
        /\ py \in Nat /\ query[a].from <= py /\ py <= sources[query[a].root]
    BY <1>1, <1>2, ReadsBetween
  <2>2. query[a].res \in Nat /\ query[a].from \in Nat /\ required[query[a].root] \in Nat
    BY <2>1 DEF Queries, CachesInv
  <2>3. a \in Running("definition")
    BY <1>2 DEF Running
  <2>4. /\ full' \in [KeywordProjects -> Entries]
        /\ \A r \in KeywordProjects :
             /\ full'[r].res <= sources[r] /\ full'[r].py <= sources[r]
             /\ full'[r].some /\ ~overtaken[r] =>
                  full'[r].res >= required[r] /\ full'[r].py >= required[r]
    BY <1>1, <2>1, <2>2, <2>3 DEF CachesInv, CachedDefinitionsAreSaved, Entries, Found
  <2>5. \A b \in Running("definition")' : b \in Running("definition") /\
          query'[b].root = query[b].root /\ query'[b].res = query[b].res /\
          query'[b].from = query[b].from
    BY <1>4 DEF OnlyOld, NoneAdded, Running
  <2> QED
    BY <1>2, <2>4, <2>5 DEF CachesInv, CachedDefinitionsAreSaved
<1> QED
  BY <1>3, <1>4, <1>5, <1>6

(* loadEditorCompletionKeywords with the list c: it asks once, or not.     *)
LEMMA LoadKeeps ==
  ASSUME SourcesInv, QueriesInv, CachesInv, PanelInv, UNCHANGED <<sources, home>>,
         UNCHANGED <<required, overtaken, full, resource, browser>>, SourcesInv', Grow,
         NEW c \in Completions, NEW a \in Asks, Load(c, a),
         c.since <= sources[home],
         \A b \in Running("completion") :
           query[b].root = home /\ ~c.doubtful => query[b].from >= c.since,
         c.loaded /\ c.list.some =>
           c.list.root = home /\ (~c.doubtful => c.list.version >= c.since)
  PROVE  QueriesInv' /\ CachesInv' /\ CompletionInv' /\ PanelInv'
<1> DEFINE q == [kind |-> "completion", root |-> home, res |-> 0,
                 from |-> sources[home], last |-> TRUE]
<1>1. CASE completion' = c /\ query' = query
  <2>1. QueriesInv' /\ OnlyOld /\ PanelsStay
    BY <1>1, QueriesUntouched
  <2>2. CachesInv' /\ PanelInv'
    BY <2>1, CachesKept, PanelKept DEF OnlyOld
  <2>3. CompletionInv'
    BY <1>1 DEF CompletionInv, CompletionIsOfProject, Running
  <2> QED
    BY <2>1, <2>2, <2>3
<1>2. CASE /\ Free(a) /\ completion' = [c EXCEPT !.root = {home}, !.loading = TRUE]
           /\ query' = [query EXCEPT ![a] = q]
  <2>1. home \in KeywordProjects /\ sources[home] \in Nat
    BY KeywordAssumption DEF SourcesInv
  <2>2. q \in Queries /\ q.kind = "completion" /\ q.from <= sources[q.root]
    BY <2>1 DEF Queries
  <2>3. /\ QueriesInv' /\ PanelsStay
        /\ \A kind \in {"definition", "completion", "panel"} \ {q.kind} : NoneAdded(kind)
        /\ query'[a] = q /\ \A b \in Asks \ {a} : query'[b] = query[b]
    BY <1>2, <2>2, QueryBegins
  <2>4. CachesInv' /\ PanelInv'
    BY <2>2, <2>3, CachesKept, PanelKept
  <2>5. /\ completion' \in Completions
        /\ completion'.since = c.since /\ completion'.doubtful = c.doubtful
        /\ completion'.list = c.list /\ completion'.loaded = c.loaded
    BY <1>2, <2>1 DEF Completions
  <2>6. \A b \in Running("completion")' :
          query'[b].root = home /\ ~c.doubtful => query'[b].from >= c.since
    BY <2>3 DEF Running
  <2>7. CompletionInv'
    BY <2>5, <2>6 DEF CompletionInv, CompletionIsOfProject
  <2> QED
    BY <2>3, <2>4, <2>7
<1> QED
  BY <1>1, <1>2 DEF Load

LEMMA LoadEditorCompletionKeywordsKeeps ==
  ASSUME KeywordInv, NEW a \in Asks, LoadEditorCompletionKeywords(a)
  PROVE  KeywordInv'
<1> USE DEF KeywordInv
<1>1. /\ Load(completion, a)
      /\ UNCHANGED <<sources, required, overtaken, full, resource, home, saving, browser>>
  BY DEF LoadEditorCompletionKeywords
<1>2. SourcesInv' /\ Grow
  BY <1>1, NothingGrows
<1> QED
  BY <1>1, <1>2, LoadKeeps DEF CompletionInv, CompletionIsOfProject

LEMMA CompletionAnswersKeeps ==
  ASSUME KeywordInv, NEW a \in Asks, CompletionAnswers(a)
  PROVE  KeywordInv'
<1> USE DEF KeywordInv
<1> DEFINE Heard(ok, py) ==
             IF IsCurrentProject(a)
             THEN [completion EXCEPT
                     !.list = IF ok THEN [some |-> TRUE, root |-> query[a].root,
                                          version |-> py]
                              ELSE NoList,
                     !.loaded = TRUE]
             ELSE completion
<1>1. PICK ok \in BOOLEAN, py \in PythonReads(a) :
        completion' = IF Heard(ok, py).root = {query[a].root}
                      THEN [Heard(ok, py) EXCEPT !.loading = FALSE] ELSE Heard(ok, py)
  BY DEF CompletionAnswers
<1>2. /\ query[a].kind = "completion" /\ query' = [query EXCEPT ![a] = Silent]
      /\ UNCHANGED <<sources, required, overtaken, full, resource, home, saving, browser>>
  BY DEF CompletionAnswers
<1>3. SourcesInv' /\ Grow
  BY <1>2, NothingGrows
<1>4. QueriesInv' /\ OnlyOld /\ (query[a].kind # "panel" => PanelsStay)
  BY <1>2, QueryEnds
<1>5. CachesInv' /\ PanelInv'
  BY <1>2, <1>3, <1>4, CachesKept, PanelKept DEF OnlyOld
<1>6. /\ query[a] \in Queries /\ query[a].root \in KeywordProjects
      /\ py \in Nat /\ query[a].from <= py /\ query[a].from \in Nat
  BY <1>1, <1>2, ReadsBetween DEF Queries
<1>7. /\ Heard(ok, py) \in Completions
      /\ Heard(ok, py).since = completion.since /\ Heard(ok, py).doubtful = completion.doubtful
      /\ Heard(ok, py).loaded /\ Heard(ok, py).list.some =>
           /\ Heard(ok, py).list.root = home
           /\ ~completion.doubtful => Heard(ok, py).list.version >= completion.since
  <2> DEFINE list == IF ok THEN [some |-> TRUE, root |-> query[a].root, version |-> py]
                     ELSE NoList
  <2>1. list \in {NoList} \cup Lists
    BY <1>6 DEF Lists
  <2>2. query[a].root = home /\ ~completion.doubtful => query[a].from >= completion.since
    BY <1>2 DEF CompletionInv, Running
  <2>3. list.some => list.root = query[a].root /\ list.version = py
    BY DEF NoList
  <2>4. completion \in Completions /\ completion.since \in Nat
    BY DEF CompletionInv, Completions
  <2>5. CASE IsCurrentProject(a)
    <3>1. Heard(ok, py) = [completion EXCEPT !.list = list, !.loaded = TRUE]
      BY <2>5
    <3> HIDE DEF list, Heard
    <3>2. /\ Heard(ok, py) \in Completions /\ Heard(ok, py).list = list
          /\ Heard(ok, py).since = completion.since
          /\ Heard(ok, py).doubtful = completion.doubtful
      BY <2>1, <2>4, <3>1 DEF Completions
    <3> QED
      BY <1>6, <2>2, <2>3, <2>4, <2>5, <3>2 DEF IsCurrentProject
  <2>6. CASE ~IsCurrentProject(a)
    BY <2>4, <2>6 DEF CompletionInv, CompletionIsOfProject
  <2> QED
    BY <2>5, <2>6
<1> DEFINE h == Heard(ok, py)
<1>8. /\ completion' \in Completions
      /\ completion'.since = completion.since /\ completion'.doubtful = completion.doubtful
      /\ completion'.loaded = h.loaded /\ completion'.list = h.list
  <2> HIDE DEF Heard
  <2> QED
    BY <1>1, <1>7 DEF Completions
<1>9. CompletionInv'
  <2> HIDE DEF Heard
  <2>1. \A b \in Running("completion")' : b \in Running("completion") /\
          query'[b].root = query[b].root /\ query'[b].from = query[b].from
    BY <1>4 DEF OnlyOld, NoneAdded, Running
  <2> QED
    BY <1>2, <1>7, <1>8, <2>1 DEF CompletionInv, CompletionIsOfProject
<1> QED
  BY <1>3, <1>4, <1>5, <1>9

-----------------------------------------------------------------------------
(* The panel asks again: its earlier questions are no longer the last.     *)
LEMMA LoadKeywordsKeeps ==
  ASSUME SourcesInv, QueriesInv, PanelInv, UNCHANGED <<sources, home>>,
         NEW a \in Asks, LoadKeywords(a)
  PROVE  /\ QueriesInv' /\ PanelInv' /\ NoneAdded("definition") /\ NoneAdded("completion")
         /\ \A b \in Asks : query[b].kind = "definition" => query'[b] = query[b]
<1> DEFINE q == [kind |-> "panel", root |-> home, res |-> 0,
                 from |-> sources[home], last |-> TRUE]
<1>1. /\ home \in KeywordProjects /\ sources[home] \in Nat
  BY KeywordAssumption DEF SourcesInv
<1>2. q \in Queries /\ q.from <= sources[q.root]
  BY <1>1 DEF Queries
<1>3. query[a].kind = "none"
  BY DEF LoadKeywords, Free, Silent
<1>4. query' = [b \in Asks |-> IF b = a THEN q
                 ELSE IF query[b].kind = "panel" THEN [query[b] EXCEPT !.last = FALSE]
                 ELSE query[b]]
  BY DEF LoadKeywords
<1> DEFINE Demoted(b) == [query[b] EXCEPT !.last = FALSE]
<1>5. ASSUME NEW b \in Asks, query[b].kind = "panel"
      PROVE /\ Demoted(b) \in Queries /\ Demoted(b).kind = "panel" /\ ~Demoted(b).last
            /\ Demoted(b).root = query[b].root /\ Demoted(b).from = query[b].from
            /\ Demoted(b).res = query[b].res
  <2>1. query[b] \in Queries
    BY <1>5 DEF QueriesInv, Silent
  <2> QED
    BY <1>5, <2>1 DEF Queries
<1>6. /\ query'[a] = q /\ q.last /\ q.kind = "panel" /\ q.root = home /\ q.from = sources[home]
      /\ \A b \in Asks \ {a} : query'[b] = IF query[b].kind = "panel" THEN Demoted(b)
                                           ELSE query[b]
  BY <1>4
<1> HIDE DEF q, Demoted
<1>7. QueriesInv'
  <2>1. query' \in [Asks -> {Silent} \cup Queries]
    BY <1>2, <1>4, <1>5 DEF QueriesInv, Demoted, q
  <2>2. ASSUME NEW b \in Asks, query'[b].kind # "none"
        PROVE query'[b].from <= sources'[query'[b].root]
    <3>1. CASE b = a
      BY <1>2, <1>6, <3>1
    <3>2. CASE b # a /\ query[b].kind = "panel"
      BY <1>5, <1>6, <3>2 DEF QueriesInv
    <3>3. CASE b # a /\ query[b].kind # "panel"
      BY <1>6, <2>2, <3>3 DEF QueriesInv
    <3> QED
      BY <3>1, <3>2, <3>3
  <2> QED
    BY <2>1, <2>2 DEF QueriesInv
<1>8. /\ NoneAdded("definition") /\ NoneAdded("completion")
      /\ \A b \in Asks : query[b].kind = "definition" => query'[b] = query[b]
  BY <1>3, <1>5, <1>6 DEF NoneAdded
<1>9. PanelInv'
  <2>1. browser' = [browser EXCEPT !.open = TRUE, !.loading = TRUE, !.list = NoList,
                                   !.since = sources[home]]
    BY DEF LoadKeywords
  <2>2. /\ browser' \in Browsers /\ browser'.loading = TRUE /\ browser'.list = NoList
        /\ browser'.since = sources[home]
    BY <1>1, <2>1 DEF PanelInv, Browsers
  <2>3. \A b \in Running("panel")' : query'[b].last => b = a
    BY <1>5, <1>6 DEF Running
  <2>4. a \in Running("panel")' /\ query'[a].last /\ query'[a].from = sources[home]
        /\ query'[a].root = home
    BY <1>6 DEF Running
  <2>5. ~browser'.list.some
    BY <2>2 DEF NoList
  <2> QED
    BY <1>1, <2>2, <2>3, <2>4, <2>5 DEF PanelInv, PanelShowsLastLookup
<1> QED
  BY <1>7, <1>8, <1>9

LEMMA UserLooksUpKeywordsKeeps ==
  ASSUME KeywordInv, NEW a \in Asks, UserLooksUpKeywords(a)
  PROVE  KeywordInv'
<1> USE DEF KeywordInv
<1>1. /\ LoadKeywords(a)
      /\ UNCHANGED <<sources, required, overtaken, full, resource, home, saving, completion>>
  BY DEF UserLooksUpKeywords
<1>2. SourcesInv' /\ Grow
  BY <1>1, NothingGrows
<1>3. QueriesInv' /\ PanelInv' /\ NoneAdded("definition") /\ NoneAdded("completion")
  BY <1>1, LoadKeywordsKeeps
<1> QED
  BY <1>1, <1>2, <1>3, CachesKept, CompletionKept

LEMMA CloseKeywordPanelKeeps ==
  ASSUME KeywordInv, CloseKeywordPanel
  PROVE  KeywordInv'
<1> USE DEF KeywordInv
<1>1. /\ browser' = [browser EXCEPT !.open = FALSE]
      /\ UNCHANGED <<sources, required, overtaken, full, resource, query, home, saving,
                     completion>>
  BY DEF CloseKeywordPanel
<1>2. SourcesInv' /\ Grow
  BY <1>1, NothingGrows
<1>3. QueriesInv' /\ OnlyOld
  BY <1>1, <1>2, QueriesUntouched
<1>4. CachesInv' /\ CompletionInv'
  BY <1>1, <1>2, <1>3, CachesKept, CompletionKept DEF OnlyOld
<1>5. /\ browser' \in Browsers /\ browser'.list = browser.list
      /\ browser'.loading = browser.loading /\ browser'.since = browser.since
  BY <1>1 DEF PanelInv, Browsers
<1>6. PanelInv'
  BY <1>1, <1>5 DEF PanelInv, PanelShowsLastLookup, Running
<1> QED
  BY <1>2, <1>3, <1>4, <1>6

LEMMA KeywordsAnswerKeeps ==
  ASSUME KeywordInv, NEW a \in Asks, KeywordsAnswer(a)
  PROVE  KeywordInv'
<1> USE DEF KeywordInv
<1>1. PICK ok \in BOOLEAN, py \in PythonReads(a) :
        browser' = IF ~IsLastLoad(a) THEN browser
                   ELSE [browser EXCEPT !.loading = FALSE,
                           !.list = IF ok THEN [some |-> TRUE, root |-> query[a].root,
                                                version |-> py]
                                    ELSE NoList]
  BY DEF KeywordsAnswer
<1>2. /\ query[a].kind = "panel" /\ query' = [query EXCEPT ![a] = Silent]
      /\ UNCHANGED <<sources, required, overtaken, full, resource, home, saving, completion>>
  BY DEF KeywordsAnswer
<1>3. SourcesInv' /\ Grow
  BY <1>2, NothingGrows
<1>4. /\ QueriesInv' /\ OnlyOld
      /\ query'[a].kind = "none" /\ \A b \in Asks \ {a} : query'[b] = query[b]
  BY <1>2, QueryEnds
<1>5. CachesInv' /\ CompletionInv'
  BY <1>2, <1>3, <1>4, CachesKept, CompletionKept DEF OnlyOld
<1>6. /\ query[a] \in Queries /\ query[a].root \in KeywordProjects
      /\ py \in Nat /\ query[a].from <= py /\ query[a].from \in Nat
  BY <1>1, <1>2, ReadsBetween DEF Queries
<1>7. a \in Running("panel")
  BY <1>2 DEF Running
<1>8. Running("panel")' = Running("panel") \ {a}
  BY <1>4 DEF Running
<1>9. PanelInv'
  <2>1. CASE ~query[a].last
    BY <1>1, <1>2, <1>4, <1>7, <1>8, <2>1 DEF PanelInv, PanelShowsLastLookup, IsLastLoad
  <2>2. CASE query[a].last
    <3> DEFINE list == IF ok THEN [some |-> TRUE, root |-> query[a].root, version |-> py]
                       ELSE NoList
    <3>1. list \in {NoList} \cup Lists
      BY <1>6 DEF Lists
    <3>2. list.some => list.root = query[a].root /\ list.version = py
      BY DEF NoList
    <3>3. browser' = [browser EXCEPT !.loading = FALSE, !.list = list]
      BY <1>1, <2>2 DEF IsLastLoad
    <3> HIDE DEF list
    <3>4. /\ browser' \in Browsers /\ browser'.loading = FALSE /\ browser'.list = list
          /\ browser'.since = browser.since /\ browser.since \in Nat
      BY <3>1, <3>3 DEF PanelInv, Browsers
    <3>5. query[a].root = home /\ query[a].from >= browser.since
      BY <1>7, <2>2 DEF PanelInv
    <3>6. \A b \in Running("panel")' : ~query'[b].last
      <4>1. ASSUME NEW b \in Running("panel")', query'[b].last PROVE FALSE
        <5>1. b \in Running("panel") /\ b # a /\ b \in Asks
          BY <1>8 DEF Running
        <5>2. query[b].last
          BY <1>4, <4>1, <5>1
        <5> QED
          BY <1>7, <2>2, <5>1, <5>2 DEF PanelInv
      <4> QED
        BY <4>1
    <3>7. list.some => list.root = home /\ list.version >= browser.since
      BY <1>6, <3>2, <3>4, <3>5
    <3> QED
      BY <1>2, <3>4, <3>6, <3>7 DEF PanelInv, PanelShowsLastLookup
  <2> QED
    BY <2>1, <2>2
<1> QED
  BY <1>3, <1>4, <1>5, <1>9

-----------------------------------------------------------------------------
(* Invalidation: the caches are empty, and a definition query that is      *)
(* still under way is remembered in "overtaken".                           *)
LEMMA InvalidatedKeeps ==
  ASSUME SourcesInv, SourcesInv', QueriesInv, QueriesInv', CachesInv, Grow,
         NoneAdded("definition"), Invalidated(home)
  PROVE  CachesInv'
<1>1. /\ home \in KeywordProjects /\ sources'[home] \in Nat
      /\ \A r \in KeywordProjects :
           sources[r] \in Nat /\ sources'[r] \in Nat /\ sources[r] <= sources'[r]
  BY KeywordAssumption DEF SourcesInv, Grow
<1>2. /\ full' = [full EXCEPT ![home] = Missing]
      /\ resource' = [resource EXCEPT ![home] = Missing]
      /\ required' = [required EXCEPT ![home] = sources'[home]]
      /\ overtaken' = [overtaken EXCEPT ![home] =
           \E a \in Running("definition") : query[a].root = home]
  BY DEF Invalidated, InvalidateDefinitionCache
<1>3. Missing \in Entries /\ Missing.some = FALSE /\ Missing.res = 0 /\ Missing.py = 0
  BY DEF Missing, Entries
<1>4. /\ full' \in [KeywordProjects -> Entries] /\ resource' \in [KeywordProjects -> Entries]
      /\ required' \in [KeywordProjects -> Nat]
  BY <1>1, <1>2, <1>3 DEF CachesInv
<1>5. /\ overtaken' \in [KeywordProjects -> BOOLEAN]
      /\ (overtaken'[home] <=> \E a \in Running("definition") : query[a].root = home)
      /\ \A r \in KeywordProjects \ {home} : overtaken'[r] = overtaken[r]
  BY <1>1, <1>2 DEF CachesInv
<1>6. ASSUME NEW r \in KeywordProjects
      PROVE  /\ required'[r] <= sources'[r] /\ required[r] \in Nat
             /\ full'[r].res <= sources'[r] /\ full'[r].py <= sources'[r]
             /\ resource'[r].res <= sources'[r]
             /\ resource'[r].some => resource'[r].res >= required'[r]
             /\ full'[r].some /\ ~overtaken'[r] =>
                  full'[r].res >= required'[r] /\ full'[r].py >= required'[r]
  <2>1. CASE r = home
    BY <1>1, <1>2, <1>3, <2>1 DEF CachesInv
  <2>2. CASE r # home
    <3>1. /\ full'[r] = full[r] /\ resource'[r] = resource[r] /\ required'[r] = required[r]
          /\ overtaken'[r] = overtaken[r]
      BY <1>2, <1>5, <2>2 DEF CachesInv
    <3>2. /\ required[r] \in Nat /\ full[r].res \in Nat /\ full[r].py \in Nat
          /\ resource[r].res \in Nat
      BY DEF CachesInv, Entries
    <3> QED
      BY <1>1, <3>1, <3>2 DEF CachesInv, CachedDefinitionsAreSaved
  <2> QED
    BY <2>1, <2>2
<1>7. ASSUME NEW a \in Running("definition")'
      PROVE  /\ query'[a].res <= sources'[query'[a].root]
             /\ ~overtaken'[query'[a].root] =>
                  /\ query'[a].res >= required'[query'[a].root]
                  /\ query'[a].from >= required'[query'[a].root]
  <2>1. /\ a \in Running("definition") /\ query'[a].root = query[a].root
        /\ query'[a].res = query[a].res /\ query'[a].from = query[a].from
    BY DEF Running, NoneAdded
  <2>2. query[a].root \in KeywordProjects /\ query[a].res \in Nat /\ query[a].from \in Nat
    BY <2>1 DEF QueriesInv, Queries, Silent, Running
  <2>3. query'[a].res <= sources'[query'[a].root]
    BY <1>1, <2>1, <2>2 DEF CachesInv
  <2>4. CASE query[a].root = home
    BY <1>5, <2>1, <2>3, <2>4
  <2>5. CASE query[a].root # home
    <3>1. required'[query[a].root] = required[query[a].root]
      BY <1>2, <2>2, <2>5 DEF CachesInv
    <3> QED
      BY <1>5, <2>1, <2>2, <2>3, <2>5, <3>1 DEF CachesInv
  <2> QED
    BY <2>4, <2>5
<1> QED
  BY <1>4, <1>5, <1>6, <1>7 DEF CachesInv, CachedDefinitionsAreSaved

LEMMA HandleRefreshDefinitionsKeeps ==
  ASSUME KeywordInv, NEW a \in Asks, HandleRefreshDefinitions(a)
  PROVE  KeywordInv'
<1> USE DEF KeywordInv
<1>1. /\ UNCHANGED <<sources, home, saving, completion>> /\ Invalidated(home)
      /\ IF browser.open THEN LoadKeywords(a) ELSE UNCHANGED <<browser, query>>
  BY DEF HandleRefreshDefinitions
<1>2. SourcesInv' /\ Grow
  BY <1>1, NothingGrows
<1>3. QueriesInv' /\ PanelInv' /\ NoneAdded("definition") /\ NoneAdded("completion")
  <2>1. CASE LoadKeywords(a)
    BY <1>1, <2>1, LoadKeywordsKeeps
  <2>2. CASE UNCHANGED <<browser, query>>
    <3>1. QueriesInv' /\ OnlyOld /\ PanelsStay
      BY <1>2, <2>2, QueriesUntouched
    <3> QED
      BY <1>1, <2>2, <3>1, PanelKept DEF OnlyOld
  <2> QED
    BY <1>1, <2>1, <2>2
<1> QED
  BY <1>1, <1>2, <1>3, InvalidatedKeeps, CompletionKept

(* The version of the project that is open goes up.                        *)
LEMMA ProjectGrows ==
  ASSUME SourcesInv, Changed(home), UNCHANGED home, saving' \subseteq KeywordProjects
  PROVE  SourcesInv' /\ Grow
<1>1. /\ home \in KeywordProjects /\ \A r \in KeywordProjects : sources[r] \in Nat
      /\ sources[home] < MaxSaves /\ sources' = [sources EXCEPT ![home] = @ + 1]
  BY KeywordAssumption DEF SourcesInv, Changed
<1>2. sources[home] + 1 \in 0 .. MaxSaves
  BY <1>1, KeywordAssumption
<1>3. sources' \in [KeywordProjects -> 0 .. MaxSaves]
  BY <1>1, <1>2 DEF SourcesInv
<1>4. \A r \in KeywordProjects : sources[r] <= sources'[r]
  BY <1>1 DEF SourcesInv
<1> QED
  BY <1>1, <1>3, <1>4 DEF SourcesInv, Grow

LEMMA SaveResourceKeeps ==
  ASSUME KeywordInv, SaveResource
  PROVE  KeywordInv'
<1> USE DEF KeywordInv
<1>1. /\ Changed(home) /\ Invalidated(home) /\ saving' = saving \cup {home}
      /\ UNCHANGED <<query, home, completion, browser>>
  BY DEF SaveResource
<1>2. SourcesInv' /\ Grow
  <2>1. saving' \subseteq KeywordProjects
    BY <1>1 DEF SourcesInv
  <2> QED
    BY <1>1, <2>1, ProjectGrows
<1>3. QueriesInv' /\ OnlyOld /\ PanelsStay
  BY <1>1, <1>2, QueriesUntouched
<1> QED
  BY <1>1, <1>2, <1>3, InvalidatedKeeps, CompletionKept, PanelKept DEF OnlyOld

LEMMA EditOutsideKeeps ==
  ASSUME KeywordInv, EditOutside
  PROVE  KeywordInv'
<1> USE DEF KeywordInv
<1>1. /\ Changed(home)
      /\ UNCHANGED <<required, overtaken, full, resource, query, home, saving, completion,
                     browser>>
  BY DEF EditOutside
<1>2. SourcesInv' /\ Grow
  <2>1. saving' \subseteq KeywordProjects
    BY <1>1 DEF SourcesInv
  <2> QED
    BY <1>1, <2>1, ProjectGrows
<1>3. QueriesInv' /\ OnlyOld /\ PanelsStay
  BY <1>1, <1>2, QueriesUntouched
<1> QED
  BY <1>1, <1>2, <1>3, CachesKept, CompletionKept, PanelKept DEF OnlyOld

(* A reset list: whatever is still asked for the project makes it          *)
(* doubtful.                                                               *)
LEMMA ResetIsClean ==
  ASSUME SourcesInv, NEW root \in KeywordProjects
  PROVE  /\ ResetCompletion(root) \in Completions
         /\ ResetCompletion(root).since = sources[root]
         /\ ~ResetCompletion(root).loaded
         /\ \A b \in Running("completion") :
              query[b].root = root => ResetCompletion(root).doubtful
<1>1. sources[root] \in Nat
  BY KeywordAssumption DEF SourcesInv
<1> DEFINE doubt == \E a \in Running("completion") : query[a].root = root
<1>2. ResetCompletion(root) =
        [NewCompletion({}) EXCEPT !.since = sources[root], !.doubtful = doubt]
  BY DEF ResetCompletion
<1>3. doubt \in BOOLEAN
  OBVIOUS
<1>4. \A b \in Running("completion") : query[b].root = root => doubt
  OBVIOUS
<1>5. NewCompletion({}) \in Completions /\ NewCompletion({}).loaded = FALSE
  BY DEF NewCompletion, Completions
<1> HIDE DEF doubt
<1>6. /\ ResetCompletion(root) \in Completions
      /\ ResetCompletion(root).since = sources[root]
      /\ ResetCompletion(root).loaded = FALSE /\ ResetCompletion(root).doubtful = doubt
  BY <1>1, <1>2, <1>3, <1>5 DEF Completions
<1> QED
  BY <1>4, <1>6

LEMMA SaveRepliedKeeps ==
  ASSUME KeywordInv, NEW a \in Asks, SaveReplied(a)
  PROVE  KeywordInv'
<1> USE DEF KeywordInv
<1>1. /\ saving' = saving \ {home}
      /\ \/ Load(ResetCompletion(home), a)
         \/ completion' = [completion EXCEPT !.doubtful = TRUE] /\ UNCHANGED query
      /\ UNCHANGED <<sources, required, overtaken, full, resource, home, browser>>
  BY DEF SaveReplied
<1>2. SourcesInv' /\ Grow
  <2>1. \A r \in KeywordProjects : sources[r] \in Nat
    BY KeywordAssumption DEF SourcesInv
  <2> QED
    BY <1>1, <2>1 DEF SourcesInv, Grow
<1>3. CASE Load(ResetCompletion(home), a)
  <2>1. home \in KeywordProjects /\ sources[home] \in Nat
    BY KeywordAssumption DEF SourcesInv
  <2>2. /\ ResetCompletion(home) \in Completions
        /\ ResetCompletion(home).since = sources[home]
        /\ ~ResetCompletion(home).loaded
        /\ \A b \in Running("completion") :
             query[b].root = home => ResetCompletion(home).doubtful
    BY <2>1, ResetIsClean
  <2> QED
    BY <1>1, <1>2, <1>3, <2>1, <2>2, LoadKeeps
<1>4. CASE completion' = [completion EXCEPT !.doubtful = TRUE] /\ UNCHANGED query
  <2>1. QueriesInv' /\ OnlyOld /\ PanelsStay
    BY <1>2, <1>4, QueriesUntouched
  <2>2. CachesInv' /\ PanelInv'
    BY <1>1, <1>2, <2>1, CachesKept, PanelKept DEF OnlyOld
  <2>3. /\ completion' \in Completions /\ completion'.doubtful
        /\ completion'.since = completion.since /\ completion'.loaded = completion.loaded
        /\ completion'.list = completion.list
    BY <1>4 DEF CompletionInv, Completions
  <2>4. CompletionInv'
    BY <1>1, <2>3 DEF CompletionInv, CompletionIsOfProject
  <2> QED
    BY <1>2, <2>1, <2>2, <2>4
<1> QED
  BY <1>1, <1>3, <1>4

LEMMA SwitchProjectKeeps ==
  ASSUME KeywordInv, NEW r \in KeywordProjects, SwitchProject(r)
  PROVE  KeywordInv'
<1> USE DEF KeywordInv
<1>1. /\ home' = r /\ completion' = ResetCompletion(r) /\ browser' = NewBrowser
      /\ UNCHANGED sources /\ Invalidated(home) /\ saving' = {}
      /\ query' = [a \in Asks |-> IF query[a].kind = "panel"
                                  THEN [query[a] EXCEPT !.last = FALSE] ELSE query[a]]
  BY DEF SwitchProject
<1>2. SourcesInv' /\ Grow
  <2>1. \A s \in KeywordProjects : sources[s] \in Nat
    BY KeywordAssumption DEF SourcesInv
  <2> QED
    BY <1>1, <2>1 DEF SourcesInv, Grow
<1> DEFINE Demoted(b) == [query[b] EXCEPT !.last = FALSE]
<1>3. ASSUME NEW b \in Asks, query[b].kind = "panel"
      PROVE /\ Demoted(b) \in Queries /\ Demoted(b).kind = "panel" /\ ~Demoted(b).last
            /\ Demoted(b).root = query[b].root /\ Demoted(b).from = query[b].from
            /\ Demoted(b).res = query[b].res
  <2>1. query[b] \in Queries
    BY <1>3 DEF QueriesInv, Silent
  <2> QED
    BY <1>3, <2>1 DEF Queries
<1>4. \A b \in Asks : query'[b] = IF query[b].kind = "panel" THEN Demoted(b) ELSE query[b]
  BY <1>1
<1>5. query' \in [Asks -> {Silent} \cup Queries]
  BY <1>1, <1>3 DEF QueriesInv
<1> HIDE DEF Demoted
<1>6. QueriesInv'
  <2>1. ASSUME NEW b \in Asks, query'[b].kind # "none"
        PROVE query'[b].from <= sources'[query'[b].root]
    <3>1. CASE query[b].kind = "panel"
      BY <1>1, <1>3, <1>4, <3>1 DEF QueriesInv
    <3>2. CASE query[b].kind # "panel"
      BY <1>1, <1>4, <2>1, <3>2 DEF QueriesInv
    <3> QED
      BY <3>1, <3>2
  <2> QED
    BY <1>5, <2>1 DEF QueriesInv
<1>7. NoneAdded("definition") /\ NoneAdded("completion")
  BY <1>3, <1>4 DEF NoneAdded
<1>8. CachesInv'
  BY <1>1, <1>2, <1>6, <1>7, InvalidatedKeeps
<1>9. CompletionInv'
  <2>1. /\ completion' \in Completions /\ completion'.since = sources[r]
        /\ ~completion'.loaded
        /\ \A b \in Running("completion") : query[b].root = r => completion'.doubtful
    BY <1>1, ResetIsClean
  <2>2. \A b \in Running("completion")' : b \in Running("completion") /\
          query'[b].root = query[b].root
    BY <1>7 DEF NoneAdded, Running
  <2>3. sources[r] \in Nat
    BY KeywordAssumption DEF SourcesInv
  <2> QED
    BY <1>1, <2>1, <2>2, <2>3 DEF CompletionInv, CompletionIsOfProject
<1>10. PanelInv'
  <2>1. \A b \in Running("panel")' : ~query'[b].last
    BY <1>3, <1>4 DEF Running
  <2>2. browser' \in Browsers /\ browser'.loading = FALSE /\ ~browser'.list.some
    BY <1>1 DEF NewBrowser, Browsers, NoList
  <2> QED
    BY <2>1, <2>2 DEF PanelInv, PanelShowsLastLookup
<1> QED
  BY <1>2, <1>6, <1>8, <1>9, <1>10

-----------------------------------------------------------------------------
LEMMA KeywordStep ==
  ASSUME KeywordInv, [KeywordNext]_keywordVars
  PROVE  KeywordInv'
<1>1. CASE UNCHANGED keywordVars
  <2>1. SourcesInv /\ SourcesInv' /\ Grow
    BY <1>1, NothingGrows DEF KeywordInv, keywordVars
  <2>2. QueriesInv' /\ OnlyOld /\ PanelsStay
    BY <1>1, <2>1, QueriesUntouched DEF KeywordInv, keywordVars
  <2> QED
    BY <1>1, <2>1, <2>2, CachesKept, CompletionKept, PanelKept
       DEF KeywordInv, keywordVars, OnlyOld
<1>2. CASE KeywordNext
  BY <1>2, ExpireKeeps, FindKeywordDefinitionsKeeps, DefinitionsFoundKeeps,
     LoadEditorCompletionKeywordsKeeps, CompletionAnswersKeeps, UserLooksUpKeywordsKeeps,
     CloseKeywordPanelKeeps, KeywordsAnswerKeeps, HandleRefreshDefinitionsKeeps,
     SaveResourceKeeps, SaveRepliedKeeps, EditOutsideKeeps, SwitchProjectKeeps
     DEF KeywordNext
<1> QED
  BY <1>1, <1>2

LEMMA KeywordStarts ==
  ASSUME KeywordInit PROVE KeywordInv
<1>1. \A a \in Asks : query[a] = Silent /\ query[a].kind = "none"
  BY DEF KeywordInit, Asks, Silent
<1>2. Running("definition") = {} /\ Running("completion") = {} /\ Running("panel") = {}
  BY <1>1 DEF Running
<1>3. SourcesInv
  BY KeywordAssumption DEF KeywordInit, SourcesInv
<1>4. QueriesInv
  BY <1>1 DEF KeywordInit, QueriesInv, Asks
<1>5. CachesInv
  BY <1>2 DEF KeywordInit, CachesInv, Missing, Entries, CachedDefinitionsAreSaved
<1>6. CompletionInv
  <2>1. /\ completion \in Completions /\ completion.since = 0 /\ ~completion.loaded
    BY DEF KeywordInit, NewCompletion, Completions
  <2>2. sources[home] = 0
    BY DEF KeywordInit
  <2> QED
    BY <1>2, <2>1, <2>2 DEF CompletionInv, CompletionIsOfProject
<1>7. PanelInv
  <2>1. browser \in Browsers /\ ~browser.loading /\ ~browser.list.some
    BY DEF KeywordInit, NewBrowser, Browsers, NoList
  <2> QED
    BY <1>2, <2>1 DEF PanelInv, PanelShowsLastLookup
<1> QED
  BY <1>3, <1>4, <1>5, <1>6, <1>7 DEF KeywordInv

LEMMA KeywordInvariant == KeywordSpec => []KeywordInv
  BY KeywordStarts, KeywordStep, PTL DEF KeywordSpec

(* What the window knows of keywords is of its project and no older than   *)
(* the last save that reset it, whatever the order in which the python     *)
(* processes end; only a query that a save overtook may bring older ones.  *)
THEOREM KeywordsStayCurrent == KeywordSpec => []KeywordsAreCurrent
<1>1. ASSUME KeywordInv PROVE KeywordTypeOK
  <2>1. \A a \in Asks : query[a].kind \in {"none", "definition", "completion", "panel"}
    BY <1>1 DEF KeywordInv, QueriesInv, Queries, Silent
  <2>2. completion.root \in {{}} \cup {{r} : r \in KeywordProjects}
    BY <1>1 DEF KeywordInv, CompletionInv, Completions
  <2>3. \A a, b \in Running("panel") : query[a].last /\ query[b].last => a = b
    BY <1>1 DEF KeywordInv, PanelInv
  <2> QED
    BY <1>1, <2>1, <2>2, <2>3 DEF KeywordInv, SourcesInv, CachesInv, KeywordTypeOK
<1>2. KeywordInv => KeywordsAreCurrent
  BY <1>1 DEF KeywordInv, CachesInv, CompletionInv, PanelInv, KeywordsAreCurrent
<1> QED
  BY <1>2, KeywordInvariant, PTL

-----------------------------------------------------------------------------
(* The tabs of the editor.                                                 *)
LEMMA LeastOf ==
  ASSUME NEW S \in SUBSET Nat, S # {}
  PROVE  \E i \in S : \A j \in S : i <= j
<1>1. PICK i \in S : \A j \in S : <<j, i>> \notin OpToRel(<, Nat)
  BY NatLessThanWellFounded, WFMin
<1>2. \A j \in S : ~(j < i)
  BY <1>1 DEF OpToRel
<1> QED
  BY <1>2

LEMMA NoneIsNothing == None \notin Keys /\ None \notin Versions /\ Versions \subseteq Nat
BY FileTabsAssumption DEF Keys, Versions

TextSet == [of : Keys, version : Versions]
Editors == UNION {[D -> TextSet] : D \in SUBSET Keys}
Perhaps == Keys \union {None}

TabWindows ==
  [ project : {1, 2}, tabs : Seq(Tabs), active : Perhaps, file : Perhaps,
    dirty : BOOLEAN, readonly : BOOLEAN, editor : Editors, shown : Perhaps ]

WinType(w) == w \in TabWindows /\ (w.shown = None \/ w.shown \in DOMAIN w.editor)

OpenKeys(w) == {w.tabs[i].key : i \in DOMAIN w.tabs}

LEMMA EditorFacts ==
  /\ \A e \in Editors : /\ DOMAIN e \subseteq Keys /\ e = [k \in DOMAIN e |-> e[k]]
                        /\ \A k \in DOMAIN e : e[k] \in TextSet
  /\ \A D \in SUBSET Keys : \A e \in [D -> TextSet] : e \in Editors
BY DEF Editors

LEMMA WindowFacts ==
  ASSUME NEW w \in TabWindows
  PROVE  /\ w.project \in {1, 2} /\ w.tabs \in Seq(Tabs)
         /\ w.active \in Perhaps /\ w.file \in Perhaps /\ w.shown \in Perhaps
         /\ w.dirty \in BOOLEAN /\ w.readonly \in BOOLEAN /\ w.editor \in Editors
BY DEF TabWindows

LEMMA TabsFacts ==
  ASSUME NEW w \in TabWindows
  PROVE  /\ \A i \in DOMAIN w.tabs : w.tabs[i] \in Tabs /\ i \in Nat
         /\ OpenKeys(w) \subseteq Keys
<1>1. w.tabs \in Seq(Tabs)
  BY WindowFacts
<1>2. \A i \in DOMAIN w.tabs : w.tabs[i] \in Tabs /\ i \in Nat
  BY <1>1
<1> QED
  BY <1>2 DEF OpenKeys, Tabs

LEMMA HasTabIs ==
  ASSUME NEW w, NEW k
  PROVE  HasTab(w, k) <=> k \in OpenKeys(w)
BY DEF HasTab, Indices, OpenKeys

LEMMA TabAtIs ==
  ASSUME NEW w \in TabWindows, NEW k \in OpenKeys(w)
  PROVE  /\ TabAt(w, k) \in DOMAIN w.tabs /\ w.tabs[TabAt(w, k)].key = k
         /\ Entry(w, k) \in Tabs /\ Entry(w, k).key = k
         /\ Entry(w, k) = w.tabs[TabAt(w, k)]
<1>1. Indices(w, k) \in SUBSET Nat /\ Indices(w, k) # {}
  BY TabsFacts DEF Indices, OpenKeys
<1>2. \E i \in Indices(w, k) : \A j \in Indices(w, k) : i <= j
  BY <1>1, LeastOf
<1>3. TabAt(w, k) \in Indices(w, k)
  BY <1>2 DEF TabAt
<1>4. TabAt(w, k) \in DOMAIN w.tabs /\ w.tabs[TabAt(w, k)].key = k
  BY <1>3 DEF Indices
<1> QED
  BY <1>4, TabsFacts DEF Entry

(* What the helpers do to the fields.                                      *)
WithTabs(v, w, tabs) ==
  /\ v \in TabWindows /\ v.tabs = tabs
  /\ v.project = w.project /\ v.active = w.active /\ v.file = w.file /\ v.dirty = w.dirty
  /\ v.readonly = w.readonly /\ v.editor = w.editor /\ v.shown = w.shown

LEMMA SetTabIs ==
  ASSUME NEW w \in TabWindows, NEW tab \in Tabs, tab.key \in OpenKeys(w)
  PROVE  WithTabs(SetTab(w, tab), w, [w.tabs EXCEPT ![TabAt(w, tab.key)] = tab])
<1>1. PICK i : i = TabAt(w, tab.key)
  OBVIOUS
<1>2. i \in DOMAIN w.tabs
  BY <1>1, TabAtIs
<1>3. PICK tabs : tabs = [w.tabs EXCEPT ![i] = tab]
  OBVIOUS
<1>4. w.tabs \in Seq(Tabs)
  BY WindowFacts
<1>5. tabs \in Seq(Tabs)
  BY <1>2, <1>3, <1>4
<1>6. PICK v : v = [w EXCEPT !.tabs = tabs]
  OBVIOUS
<1>7. v = SetTab(w, tab)
  BY <1>1, <1>3, <1>6 DEF SetTab
<1>8. WithTabs(v, w, tabs)
  BY <1>5, <1>6 DEF WithTabs, TabWindows
<1> QED
  BY <1>1, <1>3, <1>7, <1>8

Root(v, w, file, dirty, readonly) ==
  /\ v \in TabWindows /\ v.tabs = w.tabs
  /\ v.project = w.project /\ v.active = w.active /\ v.editor = w.editor /\ v.shown = w.shown
  /\ v.file = file /\ v.dirty = dirty /\ v.readonly = readonly

Current(w) == [key |-> w.active, path |-> w.file, dirty |-> w.dirty, readonly |-> w.readonly]

LEMMA SyncOutIs ==
  ASSUME NEW w \in TabWindows
  PROVE  IF w.active \in OpenKeys(w)
         THEN WithTabs(SyncOut(w), w, [w.tabs EXCEPT ![TabAt(w, w.active)] = Current(w)])
         ELSE SyncOut(w) = w
<1>1. CASE w.active \in OpenKeys(w)
  <2>1. PICK tab : tab = Current(w)
    OBVIOUS
  <2>2. w.active \in Keys
    BY <1>1, TabsFacts
  <2>3. tab \in Tabs /\ tab.key = w.active
    BY <2>1, <2>2, WindowFacts DEF Current, Tabs, Perhaps
  <2>4. SyncOut(w) = SetTab(w, tab)
    BY <1>1, <2>1, HasTabIs DEF SyncOut, Current
  <2> QED
    BY <1>1, <2>1, <2>3, <2>4, SetTabIs
<1>2. CASE w.active \notin OpenKeys(w)
  BY <1>2, HasTabIs DEF SyncOut
<1> QED
  BY <1>1, <1>2

LEMMA SyncInIs ==
  ASSUME NEW w \in TabWindows
  PROVE  IF w.active \in OpenKeys(w)
         THEN Root(SyncIn(w), w, Entry(w, w.active).path, Entry(w, w.active).dirty,
                   Entry(w, w.active).readonly)
         ELSE SyncIn(w) = w
<1>1. CASE w.active \in OpenKeys(w)
  <2>1. PICK tab : tab = Entry(w, w.active)
    OBVIOUS
  <2>2. tab \in Tabs
    BY <1>1, <2>1, TabAtIs
  <2>3. PICK path \in Perhaps : path = tab.path
    BY <2>2 DEF Tabs, Perhaps
  <2>4. PICK dirty \in BOOLEAN : dirty = tab.dirty
    BY <2>2 DEF Tabs
  <2>5. PICK readonly \in BOOLEAN : readonly = tab.readonly
    BY <2>2 DEF Tabs
  <2>6. PICK v : v = [w EXCEPT !.file = path, !.dirty = dirty, !.readonly = readonly]
    OBVIOUS
  <2>7. v = SyncIn(w)
    BY <1>1, <2>1, <2>3, <2>4, <2>5, <2>6, HasTabIs DEF SyncIn
  <2>8. Root(v, w, path, dirty, readonly)
    BY <2>6 DEF Root, TabWindows
  <2> QED
    BY <1>1, <2>1, <2>3, <2>4, <2>5, <2>7, <2>8
<1>2. CASE w.active \notin OpenKeys(w)
  BY <1>2, HasTabIs DEF SyncIn
<1> QED
  BY <1>1, <1>2

LEMMA SetDirtyIs ==
  ASSUME NEW w \in TabWindows, NEW dirty \in BOOLEAN
  PROVE  \E marked \in TabWindows :
           /\ Root(marked, w, w.file, dirty, w.readonly)
           /\ IF w.active \in OpenKeys(w)
              THEN WithTabs(SetDirty(w, dirty), marked,
                     [w.tabs EXCEPT ![TabAt(w, w.active)] =
                        [Entry(w, w.active) EXCEPT !.dirty = dirty]])
              ELSE SetDirty(w, dirty) = marked
<1>1. PICK marked : marked = [w EXCEPT !.dirty = dirty]
  OBVIOUS
<1>2. Root(marked, w, w.file, dirty, w.readonly)
  BY <1>1 DEF Root, TabWindows
<1>3. marked \in TabWindows /\ marked.tabs = w.tabs /\ marked.active = w.active
  BY <1>2 DEF Root
<1>4. OpenKeys(marked) = OpenKeys(w)
  BY <1>3 DEF OpenKeys
<1>5. CASE w.active \in OpenKeys(w)
  <2>1. PICK old : old = Entry(w, w.active)
    OBVIOUS
  <2>2. old \in Tabs /\ old.key = w.active
    BY <1>5, <2>1, TabAtIs
  <2>3. PICK tab : tab = [old EXCEPT !.dirty = dirty]
    OBVIOUS
  <2>4. tab \in Tabs /\ tab.key = w.active
    BY <2>2, <2>3 DEF Tabs
  <2>5. TabAt(marked, w.active) = TabAt(w, w.active)
    BY <1>3 DEF TabAt, Indices
  <2>6. SetDirty(w, dirty) = SetTab(marked, tab)
    BY <1>1, <1>5, <2>1, <2>3, HasTabIs DEF SetDirty
  <2>7. WithTabs(SetTab(marked, tab), marked, [marked.tabs EXCEPT ![TabAt(marked, tab.key)] = tab])
    BY <1>3, <1>4, <1>5, <2>4, SetTabIs
  <2> QED
    BY <1>2, <1>3, <1>5, <2>1, <2>3, <2>4, <2>5, <2>6, <2>7
<1>6. CASE w.active \notin OpenKeys(w)
  <2>1. SetDirty(w, dirty) = marked
    BY <1>1, <1>6, HasTabIs DEF SetDirty
  <2> QED
    BY <1>2, <1>3, <1>6, <2>1
<1> QED
  BY <1>5, <1>6

-----------------------------------------------------------------------------
(* The list of tabs as a map from keys.                                    *)
Unique(w) == \A i, j \in DOMAIN w.tabs : w.tabs[i].key = w.tabs[j].key => i = j

LEMMA EntryIs ==
  ASSUME NEW w \in TabWindows, Unique(w), NEW i \in DOMAIN w.tabs
  PROVE  Entry(w, w.tabs[i].key) = w.tabs[i] /\ w.tabs[i].key \in OpenKeys(w)
<1>1. PICK k : k = w.tabs[i].key
  OBVIOUS
<1>2. k \in OpenKeys(w)
  BY <1>1 DEF OpenKeys
<1>3. TabAt(w, k) \in DOMAIN w.tabs /\ w.tabs[TabAt(w, k)].key = k /\ Entry(w, k) = w.tabs[TabAt(w, k)]
  BY <1>2, TabAtIs
<1>4. TabAt(w, k) = i
  BY <1>1, <1>3 DEF Unique
<1> QED
  BY <1>1, <1>2, <1>3, <1>4

(* v has the tabs K, of which the others are those of w.                   *)
MapIs(v, w, K, others) ==
  /\ Unique(v) /\ OpenKeys(v) = K
  /\ \A j \in others : Entry(v, j) = Entry(w, j)

LEMMA SameMap ==
  ASSUME NEW v \in TabWindows, NEW w \in TabWindows, Unique(w), v.tabs = w.tabs
  PROVE  MapIs(v, w, OpenKeys(w), OpenKeys(w))
BY DEF MapIs, Unique, OpenKeys, Entry, TabAt, Indices

LEMMA SetMap ==
  ASSUME NEW v \in TabWindows, NEW w \in TabWindows, Unique(w),
         NEW k \in OpenKeys(w), NEW tab \in Tabs, tab.key = k,
         v.tabs = [w.tabs EXCEPT ![TabAt(w, k)] = tab]
  PROVE  MapIs(v, w, OpenKeys(w), OpenKeys(w) \ {k}) /\ Entry(v, k) = tab
<1>1. PICK n : n = TabAt(w, k)
  OBVIOUS
<1>2. n \in DOMAIN w.tabs /\ w.tabs[n].key = k
  BY <1>1, TabAtIs
<1>3. DOMAIN v.tabs = DOMAIN w.tabs
  BY <1>2
<1>4. \A i \in DOMAIN w.tabs : v.tabs[i] = IF i = n THEN tab ELSE w.tabs[i]
  BY <1>1
<1>5. \A i \in DOMAIN w.tabs : v.tabs[i].key = w.tabs[i].key
  BY <1>2, <1>4
<1>6. Unique(v)
  BY <1>3, <1>5 DEF Unique
<1>7. OpenKeys(v) = OpenKeys(w)
  BY <1>3, <1>5 DEF OpenKeys
<1>8. Entry(v, k) = tab
  BY <1>2, <1>3, <1>4, <1>6, EntryIs
<1>9. ASSUME NEW j \in OpenKeys(w) \ {k}
      PROVE  Entry(v, j) = Entry(w, j)
  <2>1. PICK i \in DOMAIN w.tabs : w.tabs[i].key = j
    BY DEF OpenKeys
  <2>2. i # n
    BY <1>2, <2>1
  <2>3. v.tabs[i] = w.tabs[i] /\ v.tabs[i].key = j
    BY <1>4, <2>1, <2>2
  <2>4. Entry(v, j) = v.tabs[i]
    BY <1>3, <1>6, <2>3, EntryIs
  <2>5. Entry(w, j) = w.tabs[i]
    BY <2>1, EntryIs
  <2> QED
    BY <2>3, <2>4, <2>5
<1> QED
  BY <1>6, <1>7, <1>8, <1>9 DEF MapIs

LEMMA AppendMap ==
  ASSUME NEW v \in TabWindows, NEW w \in TabWindows, Unique(w), NEW tab \in Tabs,
         tab.key \notin OpenKeys(w), v.tabs = Append(w.tabs, tab)
  PROVE  MapIs(v, w, OpenKeys(w) \union {tab.key}, OpenKeys(w)) /\ Entry(v, tab.key) = tab
<1>0. PICK t : t = w.tabs
  OBVIOUS
<1>1. t \in Seq(Tabs)
  BY <1>0, WindowFacts
<1>2. PICK n \in Nat : n = Len(t)
  BY <1>1
<1>3. DOMAIN t = 1 .. n
  BY <1>1, <1>2
<1>4. PICK s : s = v.tabs
  OBVIOUS
<1>5. DOMAIN s = 1 .. (n + 1) /\ s[n + 1] = tab /\ \A i \in 1 .. n : s[i] = t[i]
  BY <1>0, <1>1, <1>2, <1>4
<1>6. \A i \in 1 .. n : s[i].key \in OpenKeys(w)
  BY <1>0, <1>3, <1>5 DEF OpenKeys
<1>7. ASSUME NEW i \in DOMAIN s, NEW j \in DOMAIN s, s[i].key = s[j].key
      PROVE  i = j
  <2>1. i \in 1 .. n \/ i = n + 1
    BY <1>5
  <2>2. j \in 1 .. n \/ j = n + 1
    BY <1>5
  <2>3. i \in 1 .. n /\ j \in 1 .. n => i = j
    BY <1>0, <1>3, <1>5, <1>7 DEF Unique
  <2> QED
    BY <1>5, <1>6, <1>7, <2>1, <2>2, <2>3
<1>8. Unique(v)
  BY <1>4, <1>7 DEF Unique
<1>9. OpenKeys(v) = OpenKeys(w) \union {tab.key}
  <2>1. \A i \in 1 .. (n + 1) : i \in 1 .. n \/ i = n + 1
    OBVIOUS
  <2>2. 1 .. n \subseteq 1 .. (n + 1) /\ n + 1 \in 1 .. (n + 1)
    OBVIOUS
  <2> QED
    BY <1>0, <1>3, <1>4, <1>5, <2>1, <2>2 DEF OpenKeys
<1>10. n + 1 \in DOMAIN s
  BY <1>5
<1>11. Entry(v, tab.key) = tab
  BY <1>4, <1>5, <1>8, <1>10, EntryIs
<1>12. ASSUME NEW j \in OpenKeys(w)
       PROVE  Entry(v, j) = Entry(w, j)
  <2>1. PICK i \in DOMAIN t : t[i].key = j
    BY <1>0 DEF OpenKeys
  <2>2. s[i] = t[i] /\ i \in DOMAIN s
    BY <1>3, <1>5
  <2>3. Entry(v, j) = s[i]
    BY <1>4, <1>8, <2>1, <2>2, EntryIs
  <2>4. Entry(w, j) = t[i]
    BY <1>0, <2>1, EntryIs
  <2> QED
    BY <2>2, <2>3, <2>4
<1> QED
  BY <1>8, <1>9, <1>11, <1>12 DEF MapIs

LEMMA RemoveAtIs ==
  ASSUME NEW T, NEW s \in Seq(T), NEW i \in DOMAIN s
  PROVE  /\ RemoveAt(s, i) \in Seq(T) /\ Len(RemoveAt(s, i)) = Len(s) - 1
         /\ \A j \in 1 .. (Len(s) - 1) : RemoveAt(s, i)[j] = s[IF j < i THEN j ELSE j + 1]
<1>1. PICK n \in Nat : n = Len(s)
  OBVIOUS
<1>2. DOMAIN s = 1 .. n
  BY <1>1
<1>3. i \in 1 .. n
  BY <1>2
<1>4. PICK a : a = SubSeq(s, 1, i - 1)
  OBVIOUS
<1>5. PICK b : b = SubSeq(s, i + 1, n)
  OBVIOUS
<1>6. \A j \in 1 .. n : s[j] \in T
  BY <1>2
<1>7. a \in Seq(T) /\ Len(a) = i - 1 /\ \A j \in 1 .. (i - 1) : a[j] = s[j]
  BY <1>1, <1>3, <1>4, <1>6
<1>8. b \in Seq(T) /\ Len(b) = n - i /\ \A j \in 1 .. (n - i) : b[j] = s[i + j]
  BY <1>1, <1>3, <1>5, <1>6
<1>9. RemoveAt(s, i) = a \o b
  BY <1>1, <1>4, <1>5 DEF RemoveAt
<1>10. PICK r : r = a \o b
  OBVIOUS
<1>11. r \in Seq(T) /\ Len(r) = n - 1
  <2>1. PICK x \in Nat : x = i - 1 /\ Len(a) = x
    BY <1>3, <1>7
  <2>2. PICK y \in Nat : y = n - i /\ Len(b) = y
    BY <1>3, <1>8
  <2>3. a \in Seq(T) /\ b \in Seq(T)
    BY <1>7, <1>8
  <2>4. a \o b \in Seq(T) /\ Len(a \o b) = Len(a) + Len(b)
    BY <2>3, ConcatProperties, Zenon
  <2>5. r \in Seq(T) /\ Len(r) = x + y
    BY <1>10, <2>1, <2>2, <2>4
  <2> QED
    BY <1>3, <2>1, <2>2, <2>5
<1>12. ASSUME NEW j \in 1 .. (n - 1)
       PROVE  r[j] = s[IF j < i THEN j ELSE j + 1]
  <2>1. CASE j < i
    <3>1. r[j] = a[j]
      BY <1>3, <1>7, <1>8, <1>10, <2>1
    <3> QED
      BY <1>3, <1>7, <2>1, <3>1
  <2>2. CASE ~(j < i)
    <3>1. PICK m \in 1 .. (n - i) : j = (i - 1) + m
      <4>1. j - (i - 1) \in 1 .. (n - i)
        BY <1>3, <2>2
      <4> QED
        BY <1>3, <4>1
    <3>2. r[j] = b[m]
      <4>1. PICK x \in Nat : x = i - 1 /\ Len(a) = x
        BY <1>3, <1>7
      <4>2. PICK y \in Nat : y = n - i /\ Len(b) = y
        BY <1>3, <1>8
      <4>3. a \in Seq(T) /\ b \in Seq(T)
        BY <1>7, <1>8
      <4>4. m \in 1 .. y /\ j = x + m
        BY <3>1, <4>1, <4>2
      <4>5. \A l \in 1 .. x + y : r[l] = IF l <= x THEN a[l] ELSE b[l - x]
        <5>1. \A l \in 1 .. Len(a) + Len(b) :
                (a \o b)[l] = IF l <= Len(a) THEN a[l] ELSE b[l - Len(a)]
          BY <4>3, ConcatProperties, Zenon
        <5> QED
          BY <1>10, <4>1, <4>2, <5>1
      <4>6. j \in 1 .. x + y /\ ~(j <= x) /\ j - x = m
        BY <4>1, <4>2, <4>4
      <4> QED
        BY <4>5, <4>6
    <3>3. i + m = j + 1
      BY <1>3, <3>1
    <3> QED
      BY <1>8, <2>2, <3>1, <3>2, <3>3
  <2> QED
    BY <2>1, <2>2
<1> QED
  BY <1>1, <1>9, <1>10, <1>11, <1>12

LEMMA RemoveMap ==
  ASSUME NEW v \in TabWindows, NEW w \in TabWindows, Unique(w), NEW k \in OpenKeys(w),
         v.tabs = RemoveAt(w.tabs, TabAt(w, k))
  PROVE  MapIs(v, w, OpenKeys(w) \ {k}, OpenKeys(w) \ {k})
<1>0. PICK t : t = w.tabs
  OBVIOUS
<1>1. t \in Seq(Tabs)
  BY <1>0, WindowFacts
<1>2. PICK n \in Nat : n = Len(t)
  BY <1>1
<1>3. PICK i : i = TabAt(w, k)
  OBVIOUS
<1>4. i \in DOMAIN t /\ t[i].key = k /\ DOMAIN t = 1 .. n
  BY <1>0, <1>1, <1>2, <1>3, TabAtIs
<1>5. PICK s : s = RemoveAt(t, i)
  OBVIOUS
<1>6. s \in Seq(Tabs) /\ Len(s) = n - 1 /\ \A j \in 1 .. (n - 1) : s[j] = t[IF j < i THEN j ELSE j + 1]
  BY <1>1, <1>2, <1>4, <1>5, RemoveAtIs
<1>7. v.tabs = s /\ DOMAIN s = 1 .. (n - 1)
  BY <1>0, <1>2, <1>3, <1>4, <1>5, <1>6
<1>8. \A j \in 1 .. (n - 1) : (IF j < i THEN j ELSE j + 1) \in (1 .. n) \ {i}
  BY <1>4
<1>9. \A m \in (1 .. n) \ {i} : \E j \in 1 .. (n - 1) : m = IF j < i THEN j ELSE j + 1
  <2>1. TAKE m \in (1 .. n) \ {i}
  <2>2. CASE m < i
    <3>1. m \in 1 .. (n - 1) /\ m = IF m < i THEN m ELSE m + 1
      BY <1>4, <2>2
    <3> QED
      BY <3>1
  <2>3. CASE ~(m < i)
    <3>1. m - 1 \in 1 .. (n - 1) /\ m = IF m - 1 < i THEN m - 1 ELSE (m - 1) + 1
      BY <1>4, <2>3
    <3> QED
      BY <3>1
  <2> QED
    BY <2>2, <2>3
<1>10. ASSUME NEW a \in DOMAIN s, NEW b \in DOMAIN s, s[a].key = s[b].key
       PROVE  a = b
  <2>1. PICK x \in (1 .. n) \ {i} : x = IF a < i THEN a ELSE a + 1
    BY <1>7, <1>8
  <2>2. PICK y \in (1 .. n) \ {i} : y = IF b < i THEN b ELSE b + 1
    BY <1>7, <1>8
  <2>3. s[a] = t[x] /\ s[b] = t[y]
    BY <1>6, <1>7, <2>1, <2>2
  <2>4. x = y
    BY <1>0, <1>4, <1>10, <2>3 DEF Unique
  <2> QED
    BY <1>4, <1>7, <2>1, <2>2, <2>4
<1>11. Unique(v)
  BY <1>7, <1>10 DEF Unique
<1>12. ASSUME NEW j \in OpenKeys(w) \ {k}
       PROVE  j \in OpenKeys(v) /\ Entry(v, j) = Entry(w, j)
  <2>1. PICK m \in DOMAIN t : t[m].key = j
    BY <1>0 DEF OpenKeys
  <2>2. m \in (1 .. n) \ {i}
    BY <1>4, <2>1
  <2>3. PICK x \in 1 .. (n - 1) : m = IF x < i THEN x ELSE x + 1
    BY <1>9, <2>2
  <2>4. s[x] = t[m]
    BY <1>6, <2>3
  <2>5. j \in OpenKeys(v) /\ Entry(v, j) = s[x]
    BY <1>7, <1>11, <2>1, <2>4, EntryIs
  <2>6. Entry(w, j) = t[m]
    BY <1>0, <2>1, EntryIs
  <2> QED
    BY <2>4, <2>5, <2>6
<1>13. ASSUME NEW j \in OpenKeys(v)
       PROVE  j \in OpenKeys(w) \ {k}
  <2>1. PICK x \in 1 .. (n - 1) : s[x].key = j
    BY <1>7 DEF OpenKeys
  <2>2. PICK m \in (1 .. n) \ {i} : m = IF x < i THEN x ELSE x + 1
    BY <1>8
  <2>3. t[m].key = j
    BY <1>6, <2>1, <2>2
  <2>4. j # k
    BY <1>0, <1>4, <2>2, <2>3 DEF Unique
  <2> QED
    BY <1>0, <1>4, <2>3, <2>4 DEF OpenKeys
<1> QED
  BY <1>11, <1>12, <1>13 DEF MapIs

-----------------------------------------------------------------------------
(* What is done to the editor and the root state.                          *)
SameRoot(v, w) ==
  v.project = w.project /\ v.file = w.file /\ v.dirty = w.dirty /\ v.readonly = w.readonly

Screen(v, w, active, editor, shown) ==
  /\ v \in TabWindows /\ SameRoot(v, w) /\ v.tabs = w.tabs
  /\ v.active = active /\ v.editor = editor /\ v.shown = shown

WithText(e, k, text) == [x \in DOMAIN e \union {k} |-> IF x = k THEN text ELSE e[x]]
WithoutKey(e, k) == [x \in DOMAIN e \ {k} |-> e[x]]

LEMMA WithIs ==
  ASSUME NEW e \in Editors, NEW k \in Keys, NEW text \in TextSet
  PROVE  WithText(e, k, text) \in Editors
<1>1. DOMAIN e \union {k} \in SUBSET Keys
  BY EditorFacts
<1>2. \A x \in DOMAIN e \union {k} : (IF x = k THEN text ELSE e[x]) \in TextSet
  BY EditorFacts
<1>3. WithText(e, k, text) \in [DOMAIN e \union {k} -> TextSet]
  BY <1>2 DEF WithText
<1> QED
  BY <1>1, <1>3, EditorFacts

LEMMA WithoutIs ==
  ASSUME NEW e \in Editors, NEW k
  PROVE  WithoutKey(e, k) \in Editors
<1>1. DOMAIN e \ {k} \in SUBSET Keys
  BY EditorFacts
<1>2. \A x \in DOMAIN e \ {k} : e[x] \in TextSet
  BY EditorFacts
<1>3. WithoutKey(e, k) \in [DOMAIN e \ {k} -> TextSet]
  BY <1>2 DEF WithoutKey
<1> QED
  BY <1>1, <1>3, EditorFacts

LEMMA ActiveIs ==
  ASSUME NEW w \in TabWindows, NEW k \in Perhaps
  PROVE  Screen([w EXCEPT !.active = k], w, k, w.editor, w.shown)
BY DEF Screen, SameRoot, TabWindows

LEMMA ShowIs ==
  ASSUME NEW w \in TabWindows, NEW k \in Perhaps
  PROVE  Screen(Show(w, k), w, w.active, w.editor, IF k \in DOMAIN w.editor THEN k ELSE w.shown)
BY DEF Show, Screen, SameRoot, TabWindows

LEMMA ToEditor ==
  ASSUME NEW w \in TabWindows, NEW e \in Editors
  PROVE  Screen([w EXCEPT !.editor = e], w, w.active, e, w.shown)
BY DEF Screen, SameRoot, TabWindows

LEMMA SetContentIs ==
  ASSUME NEW w \in TabWindows, NEW text \in TextSet, w.shown \in DOMAIN w.editor
  PROVE  Screen(SetContent(w, text), w, w.active, WithText(w.editor, w.shown, text), w.shown)
<1>1. PICK old \in Editors : old = w.editor
  BY WindowFacts
<1>2. PICK k : k = w.shown
  OBVIOUS
<1>3. k \in DOMAIN old /\ k \in Keys /\ k # None
  BY <1>1, <1>2, EditorFacts, NoneIsNothing
<1>4. PICK e : e = WithText(old, k, text)
  OBVIOUS
<1>5. e \in Editors
  BY <1>3, <1>4, WithIs
<1>6. DOMAIN old \union {k} = DOMAIN old
  BY <1>3
<1>7. e = [old EXCEPT ![k] = text]
  BY <1>3, <1>4, <1>6 DEF WithText
<1>8. SetContent(w, text) = [w EXCEPT !.editor[k] = text]
  BY <1>2, <1>3 DEF SetContent
<1>9. [w EXCEPT !.editor[k] = text] = [w EXCEPT !.editor = e]
  BY <1>1, <1>7
<1> QED
  BY <1>1, <1>2, <1>4, <1>5, <1>8, <1>9, ToEditor

LEMMA CreateIs ==
  ASSUME NEW w \in TabWindows, NEW k \in Keys, NEW text \in TextSet
  PROVE  Screen(Create(w, k, text), w, w.active, WithText(w.editor, k, text), w.shown)
<1>1. PICK e : e = WithText(w.editor, k, text)
  OBVIOUS
<1>2. e \in Editors
  BY <1>1, WindowFacts, WithIs
<1>3. Create(w, k, text) = [w EXCEPT !.editor = e]
  BY <1>1 DEF Create, WithText
<1> QED
  BY <1>1, <1>2, <1>3, ToEditor

LEMMA DestroyIs ==
  ASSUME NEW w \in TabWindows, NEW k
  PROVE  \E shown \in Perhaps :
           /\ Screen(Destroy(w, k), w, w.active, WithoutKey(w.editor, k), shown)
           /\ IF w.shown # k THEN shown = w.shown ELSE shown = None \/ shown \in DOMAIN w.editor \ {k}
<1>1. PICK e : e = WithoutKey(w.editor, k)
  OBVIOUS
<1>2. e \in Editors
  BY <1>1, WindowFacts, WithoutIs
<1>3. PICK left : left = DOMAIN w.editor \ {k}
  OBVIOUS
<1>4. left \subseteq Keys
  BY <1>3, WindowFacts, EditorFacts
<1>5. PICK shown : shown = IF w.shown # k THEN w.shown
                           ELSE IF left = {} THEN None ELSE CHOOSE x \in left : TRUE
  OBVIOUS
<1>6. IF w.shown # k THEN shown = w.shown ELSE shown = None \/ shown \in left
  BY <1>5
<1>7. shown \in Perhaps
  BY <1>4, <1>6, WindowFacts DEF Perhaps
<1>8. Destroy(w, k) = [w EXCEPT !.editor = e, !.shown = shown]
  BY <1>1, <1>3, <1>5 DEF Destroy, WithoutKey
<1>9. Screen([w EXCEPT !.editor = e, !.shown = shown], w, w.active, e, shown)
  BY <1>2, <1>7 DEF Screen, SameRoot, TabWindows
<1> QED
  BY <1>1, <1>3, <1>6, <1>7, <1>8, <1>9

LEMMA ToTabs ==
  ASSUME NEW w \in TabWindows, NEW tabs \in Seq(Tabs)
  PROVE  WithTabs([w EXCEPT !.tabs = tabs], w, tabs)
BY DEF WithTabs, TabWindows

LEMMA ToRoot ==
  ASSUME NEW w \in TabWindows, NEW file \in Perhaps, NEW dirty \in BOOLEAN, NEW readonly \in BOOLEAN
  PROVE  Root([w EXCEPT !.file = file, !.dirty = dirty, !.readonly = readonly], w, file, dirty, readonly)
BY DEF Root, TabWindows

Marked(v, w, dirty) ==
  /\ v \in TabWindows /\ v.project = w.project /\ v.file = w.file /\ v.readonly = w.readonly
  /\ v.active = w.active /\ v.editor = w.editor /\ v.shown = w.shown /\ v.dirty = dirty

LEMMA SetDirtyRoot ==
  ASSUME NEW w \in TabWindows, NEW dirty \in BOOLEAN
  PROVE  Marked(SetDirty(w, dirty), w, dirty)
<1>1. PICK m \in TabWindows :
        /\ Root(m, w, w.file, dirty, w.readonly)
        /\ IF w.active \in OpenKeys(w)
           THEN WithTabs(SetDirty(w, dirty), m,
                  [w.tabs EXCEPT ![TabAt(w, w.active)] = [Entry(w, w.active) EXCEPT !.dirty = dirty]])
           ELSE SetDirty(w, dirty) = m
  BY SetDirtyIs
<1>2. CASE w.active \in OpenKeys(w)
  BY <1>1, <1>2 DEF Root, WithTabs, Marked
<1>3. CASE w.active \notin OpenKeys(w)
  BY <1>1, <1>3 DEF Root, Marked
<1> QED
  BY <1>2, <1>3

LEMMA SetDirtyTabs ==
  ASSUME NEW w \in TabWindows, NEW dirty \in BOOLEAN
  PROVE  SetDirty(w, dirty).tabs =
           IF w.active \in OpenKeys(w)
           THEN [w.tabs EXCEPT ![TabAt(w, w.active)] = [Entry(w, w.active) EXCEPT !.dirty = dirty]]
           ELSE w.tabs
BY SetDirtyIs DEF Root, WithTabs

ShownOK(w) == w.shown = None \/ w.shown \in DOMAIN w.editor

LEMMA SyncOutType ==
  ASSUME NEW w \in TabWindows, ShownOK(w)
  PROVE  SyncOut(w) \in TabWindows /\ ShownOK(SyncOut(w))
BY SyncOutIs DEF WithTabs, ShownOK

LEMMA SyncInType ==
  ASSUME NEW w \in TabWindows, ShownOK(w)
  PROVE  SyncIn(w) \in TabWindows /\ ShownOK(SyncIn(w))
BY SyncInIs DEF Root, ShownOK

LEMMA SetDirtyType ==
  ASSUME NEW w \in TabWindows, NEW dirty \in BOOLEAN, ShownOK(w)
  PROVE  SetDirty(w, dirty) \in TabWindows /\ ShownOK(SetDirty(w, dirty))
BY SetDirtyRoot DEF Marked, ShownOK

LEMMA ShowType ==
  ASSUME NEW w \in TabWindows, NEW k \in Perhaps, ShownOK(w)
  PROVE  Show(w, k) \in TabWindows /\ ShownOK(Show(w, k))
BY ShowIs DEF Screen, ShownOK

LEMMA ActiveType ==
  ASSUME NEW w \in TabWindows, NEW k \in Perhaps, ShownOK(w)
  PROVE  [w EXCEPT !.active = k] \in TabWindows /\ ShownOK([w EXCEPT !.active = k])
BY ActiveIs DEF Screen, ShownOK

LEMMA SwitchType ==
  ASSUME NEW w \in TabWindows, NEW k \in Perhaps, ShownOK(w)
  PROVE  SwitchToTab(w, k) \in TabWindows /\ ShownOK(SwitchToTab(w, k))
<1>1. CASE k = w.active
  BY <1>1, SyncInType DEF SwitchToTab
<1>2. CASE k # w.active
  <2>1. PICK u : u = SyncOut(w)
    OBVIOUS
  <2>2. u \in TabWindows /\ ShownOK(u)
    BY <2>1, SyncOutType
  <2>3. PICK x : x = [u EXCEPT !.active = k]
    OBVIOUS
  <2>4. x \in TabWindows /\ ShownOK(x)
    BY <2>2, <2>3, ActiveType
  <2>5. Show(x, k) \in TabWindows /\ ShownOK(Show(x, k))
    BY <2>4, ShowType
  <2>6. SwitchToTab(w, k) = SyncIn(Show(x, k))
    BY <1>2, <2>1, <2>3 DEF SwitchToTab
  <2> QED
    BY <2>5, <2>6, SyncInType
<1> QED
  BY <1>1, <1>2

LEMMA ClearIs ==
  ASSUME NEW w \in TabWindows
  PROVE  LET v == ClearEditor(w) IN
         /\ v \in TabWindows /\ v.tabs = w.tabs /\ v.editor = w.editor /\ v.shown = w.shown
         /\ v.active = None /\ v.file = None /\ v.dirty = FALSE /\ v.readonly = FALSE
<1>1. PICK none \in Perhaps : none = None
  BY DEF Perhaps
<1>2. PICK no \in BOOLEAN : no = FALSE
  OBVIOUS
<1>3. PICK x : x = [w EXCEPT !.file = none, !.readonly = no, !.active = none]
  OBVIOUS
<1>4. /\ x \in TabWindows /\ x.tabs = w.tabs /\ x.editor = w.editor /\ x.shown = w.shown
      /\ x.active = none /\ x.file = none /\ x.readonly = no
  BY <1>3 DEF TabWindows
<1>5. x.active \notin OpenKeys(x)
  BY <1>1, <1>4, TabsFacts, NoneIsNothing
<1>6. ClearEditor(w) = SetDirty(x, no)
  BY <1>1, <1>2, <1>3 DEF ClearEditor
<1>7. Marked(SetDirty(x, no), x, no) /\ SetDirty(x, no).tabs = x.tabs
  BY <1>4, <1>5, SetDirtyRoot, SetDirtyTabs
<1> QED
  BY <1>1, <1>2, <1>4, <1>6, <1>7 DEF Marked

LEMMA ClearType ==
  ASSUME NEW w \in TabWindows, ShownOK(w)
  PROVE  ClearEditor(w) \in TabWindows /\ ShownOK(ClearEditor(w))
BY ClearIs DEF ShownOK

LEMMA EmptyRootIs ==
  ASSUME NEW w \in TabWindows
  PROVE  Root(EmptyRoot(w), w, None, FALSE, w.readonly)
<1>1. PICK none \in Perhaps : none = None
  BY DEF Perhaps
<1>2. PICK no \in BOOLEAN : no = FALSE
  OBVIOUS
<1>3. Root([w EXCEPT !.file = none, !.dirty = no], w, none, no, w.readonly)
  BY DEF Root, TabWindows
<1> QED
  BY <1>1, <1>2, <1>3 DEF EmptyRoot

LEMMA EmptyRootType ==
  ASSUME NEW w \in TabWindows, ShownOK(w)
  PROVE  EmptyRoot(w) \in TabWindows /\ ShownOK(EmptyRoot(w))
BY EmptyRootIs DEF Root, ShownOK

(* The steps of OpenTab.                                                   *)
Added(u, v, entry) ==
  /\ v \in TabWindows /\ v.project = u.project /\ v.dirty = u.dirty /\ v.editor = u.editor /\ v.shown = u.shown
  /\ v.tabs = Append(u.tabs, entry) /\ v.active = entry.key /\ v.readonly = entry.readonly

AddTo(u, entry, file) ==
  [u EXCEPT !.tabs = Append(@, entry), !.active = entry.key, !.file = file,
            !.readonly = entry.readonly]

LEMMA AddedIs ==
  ASSUME NEW u \in TabWindows, NEW entry \in Tabs, NEW file \in Perhaps
  PROVE  Added(u, AddTo(u, entry, file), entry) /\ AddTo(u, entry, file).file = file
<1>1. PICK tabs : tabs = Append(u.tabs, entry)
  OBVIOUS
<1>2. tabs \in Seq(Tabs)
  BY <1>1, WindowFacts
<1>3. PICK k \in Perhaps : k = entry.key
  BY DEF Tabs, Perhaps
<1>4. PICK readonly \in BOOLEAN : readonly = entry.readonly
  BY DEF Tabs
<1>5. PICK v : v = [u EXCEPT !.tabs = tabs, !.active = k, !.file = file, !.readonly = readonly]
  OBVIOUS
<1>6. /\ v \in TabWindows /\ v.project = u.project /\ v.dirty = u.dirty /\ v.editor = u.editor
      /\ v.shown = u.shown /\ v.tabs = tabs /\ v.active = k /\ v.readonly = readonly /\ v.file = file
  BY <1>2, <1>5 DEF TabWindows
<1> QED
  BY <1>1, <1>3, <1>4, <1>5, <1>6 DEF Added, AddTo

LEMMA OpenTabType ==
  ASSUME NEW w \in TabWindows, ShownOK(w), NEW k \in Keys, NEW text \in TextSet,
         NEW entry \in Tabs, entry.key = k, NEW file \in Perhaps
  PROVE  /\ OpenTab(w, k, text, entry, file) \in TabWindows
         /\ ShownOK(OpenTab(w, k, text, entry, file))
<1>1. PICK u : u = SyncOut(w)
  OBVIOUS
<1>2. u \in TabWindows /\ ShownOK(u)
  BY <1>1, SyncOutType
<1>3. PICK c : c = Create(u, k, text)
  OBVIOUS
<1>4. Screen(c, u, u.active, WithText(u.editor, k, text), u.shown)
  BY <1>2, <1>3, CreateIs
<1>5. c \in TabWindows /\ ShownOK(c)
  BY <1>2, <1>4 DEF Screen, ShownOK, WithText
<1>6. PICK v : v = AddTo(c, entry, file)
  OBVIOUS
<1>7. Added(c, v, entry)
  BY <1>5, <1>6, AddedIs
<1>8. v \in TabWindows /\ ShownOK(v)
  BY <1>5, <1>7 DEF Added, ShownOK
<1>9. Show(v, k) \in TabWindows /\ ShownOK(Show(v, k))
  BY <1>8, ShowType DEF Perhaps
<1>10. OpenTab(w, k, text, entry, file) = SetDirty(Show(v, k), FALSE)
  BY <1>1, <1>3, <1>6 DEF OpenTab, AddTo
<1> QED
  BY <1>9, <1>10, SetDirtyType

(* The steps of Close: "closed" has lost the tab and its instance.         *)
Closed(w, c, k) ==
  /\ c \in TabWindows /\ SameRoot(c, w) /\ c.active = w.active
  /\ c.tabs = RemoveAt(w.tabs, TabAt(w, k)) /\ c.editor = WithoutKey(w.editor, k)
  /\ IF w.shown # k THEN c.shown = w.shown ELSE c.shown = None \/ c.shown \in DOMAIN c.editor

LEMMA ClosedIs ==
  ASSUME NEW w \in TabWindows, NEW k \in OpenKeys(w)
  PROVE  \E c : /\ c = Destroy([w EXCEPT !.tabs = RemoveAt(@, TabAt(w, k))], k)
                /\ Closed(w, c, k)
<1>1. PICK tabs : tabs = RemoveAt(w.tabs, TabAt(w, k))
  OBVIOUS
<1>2. tabs \in Seq(Tabs)
  BY <1>1, WindowFacts, TabAtIs, RemoveAtIs
<1>3. PICK v : v = [w EXCEPT !.tabs = tabs]
  OBVIOUS
<1>4. WithTabs(v, w, tabs)
  BY <1>2, <1>3, ToTabs
<1>5. PICK c : c = Destroy(v, k)
  OBVIOUS
<1>6. v \in TabWindows
  BY <1>4 DEF WithTabs
<1>7. PICK shown \in Perhaps :
        /\ Screen(c, v, v.active, WithoutKey(v.editor, k), shown)
        /\ IF v.shown # k THEN shown = v.shown ELSE shown = None \/ shown \in DOMAIN v.editor \ {k}
  BY <1>5, <1>6, DestroyIs
<1>8. v.editor = w.editor /\ v.shown = w.shown /\ DOMAIN WithoutKey(w.editor, k) = DOMAIN w.editor \ {k}
  BY <1>4 DEF WithTabs, WithoutKey
<1>9. Closed(w, c, k)
  BY <1>1, <1>4, <1>7, <1>8 DEF Closed, WithTabs, Screen, SameRoot
<1> QED
  BY <1>1, <1>3, <1>5, <1>9

LEMMA CloseIs ==
  ASSUME NEW w \in TabWindows, NEW k \in OpenKeys(w)
  PROVE  \E c : /\ Closed(w, c, k)
                /\ \/ w.active # k /\ Close(w, k) = c
                   \/ w.active = k /\ c.tabs = <<>> /\ Close(w, k) = ClearEditor(c)
                   \/ w.active = k /\ \E next \in OpenKeys(c) :
                        Close(w, k) = SyncIn(Show([c EXCEPT !.active = next], next))
<1>1. PICK c : /\ c = Destroy([w EXCEPT !.tabs = RemoveAt(@, TabAt(w, k))], k)
               /\ Closed(w, c, k)
  BY ClosedIs
<1>2. c \in TabWindows
  BY <1>1 DEF Closed
<1>3. CASE w.active # k
  <2>1. Close(w, k) = c
    BY <1>1, <1>3 DEF Close
  <2> QED
    BY <1>1, <1>3, <2>1
<1>4. CASE w.active = k /\ c.tabs = <<>>
  <2>1. Close(w, k) = ClearEditor(c)
    BY <1>1, <1>4 DEF Close
  <2> QED
    BY <1>1, <1>4, <2>1
<1>5. CASE w.active = k /\ c.tabs # <<>>
  <2>1. PICK i : i = TabAt(w, k)
    OBVIOUS
  <2>2. i \in DOMAIN w.tabs /\ w.tabs \in Seq(Tabs)
    BY <2>1, TabAtIs, WindowFacts
  <2>3. PICK next : next = c.tabs[IF i <= Len(c.tabs) THEN i ELSE Len(c.tabs)].key
    OBVIOUS
  <2>4. next \in OpenKeys(c)
    <3>1. c.tabs \in Seq(Tabs)
      BY <1>2, WindowFacts
    <3>2. PICK l \in Nat : l = Len(c.tabs) /\ DOMAIN c.tabs = 1 .. l /\ l # 0
      BY <1>5, <3>1
    <3>3. i \in Nat /\ i >= 1
      BY <2>2
    <3>4. PICK j : j = IF i <= l THEN i ELSE l
      OBVIOUS
    <3>5. j \in 1 .. l
      BY <3>2, <3>3, <3>4
    <3> QED
      BY <2>3, <3>2, <3>4, <3>5 DEF OpenKeys
  <2>5. Close(w, k) = SyncIn(Show([c EXCEPT !.active = next], next))
    BY <1>1, <1>5, <2>1, <2>3 DEF Close
  <2> QED
    BY <1>1, <1>5, <2>4, <2>5
<1> QED
  BY <1>3, <1>4, <1>5

LEMMA CloseType ==
  ASSUME NEW w \in TabWindows, ShownOK(w), NEW k \in OpenKeys(w)
  PROVE  Close(w, k) \in TabWindows /\ ShownOK(Close(w, k))
<1>1. PICK c : /\ Closed(w, c, k)
               /\ \/ w.active # k /\ Close(w, k) = c
                  \/ w.active = k /\ c.tabs = <<>> /\ Close(w, k) = ClearEditor(c)
                  \/ w.active = k /\ \E next \in OpenKeys(c) :
                       Close(w, k) = SyncIn(Show([c EXCEPT !.active = next], next))
  BY CloseIs
<1>2. c \in TabWindows /\ ShownOK(c)
  BY <1>1 DEF Closed, ShownOK, WithoutKey
<1>3. ASSUME NEW next \in OpenKeys(c), Close(w, k) = SyncIn(Show([c EXCEPT !.active = next], next))
      PROVE  Close(w, k) \in TabWindows /\ ShownOK(Close(w, k))
  <2>1. next \in Perhaps
    BY <1>2, TabsFacts DEF Perhaps
  <2>2. PICK x : x = [c EXCEPT !.active = next]
    OBVIOUS
  <2>3. x \in TabWindows /\ ShownOK(x)
    BY <1>2, <2>1, <2>2, ActiveType
  <2>4. Show(x, next) \in TabWindows /\ ShownOK(Show(x, next))
    BY <2>1, <2>3, ShowType
  <2> QED
    BY <1>3, <2>2, <2>4, SyncInType
<1> QED
  BY <1>1, <1>2, <1>3, ClearType

-----------------------------------------------------------------------------
(* A window whose tabs are not spoilt.                                     *)
EntryOK(tab, k) ==
  IF tab.readonly THEN k \in Sources /\ ~tab.dirty ELSE k \in Paths /\ tab.path = k

TabShape(w) == \A k \in OpenKeys(w) : EntryOK(Entry(w, k), k)

RootIs(w, tab) ==
  /\ w.readonly = tab.readonly
  /\ IF tab.readonly THEN ~w.dirty
     ELSE w.file = None \/ (w.file = w.active /\ w.dirty = tab.dirty)

RootShape(w) ==
  IF w.active = None
  THEN w.file = None /\ \A k \in OpenKeys(w) : Entry(w, k).readonly
  ELSE w.active \in OpenKeys(w) /\ w.shown = w.active /\ RootIs(w, Entry(w, w.active))

EditorShape(w) ==
  DOMAIN w.editor = OpenKeys(w) /\ \A k \in OpenKeys(w) : w.editor[k].of = k

Shape(w) == Unique(w) /\ TabShape(w) /\ RootShape(w) /\ EditorShape(w)

Emptied(w) == w.active # None /\ ~w.readonly /\ w.file = None

Dirty(w, k) == k \in OpenKeys(w) /\ Entry(w, k).dirty

(* What of the tabs K a shape is about.                                    *)
Alike(v, w, K) ==
  \A j \in K : /\ Entry(v, j).dirty = Entry(w, j).dirty
               /\ Entry(v, j).readonly = Entry(w, j).readonly
               /\ ~Entry(w, j).readonly => Entry(v, j).path = Entry(w, j).path

LEMMA AlikeShape ==
  ASSUME NEW v, NEW w, TabShape(w), OpenKeys(v) \subseteq OpenKeys(w), Alike(v, w, OpenKeys(v))
  PROVE  TabShape(v)
BY DEF TabShape, Alike, EntryOK

LEMMA NotSpoilt ==
  ASSUME NEW w, ~Spoils(w)
  PROVE  Unique(w) /\ \A i \in DOMAIN w.tabs : w.tabs[i].readonly \/ w.tabs[i].path # None
BY DEF Spoils, Unique

LEMMA SetDirtyEach ==
  ASSUME NEW w \in TabWindows, NEW d \in BOOLEAN
  PROVE  LET v == SetDirty(w, d) IN
         /\ DOMAIN v.tabs = DOMAIN w.tabs
         /\ \A i \in DOMAIN w.tabs : v.tabs[i].key = w.tabs[i].key /\ v.tabs[i].path = w.tabs[i].path
                                     /\ v.tabs[i].readonly = w.tabs[i].readonly
<1>1. CASE w.active \notin OpenKeys(w)
  BY <1>1, SetDirtyTabs
<1>2. CASE w.active \in OpenKeys(w)
  <2>1. PICK n : n = TabAt(w, w.active)
    OBVIOUS
  <2>2. PICK old : old = w.tabs[n]
    OBVIOUS
  <2>3. n \in DOMAIN w.tabs /\ old \in Tabs /\ old = Entry(w, w.active)
    BY <1>2, <2>1, <2>2, TabAtIs
  <2>4. PICK tab : tab = [old EXCEPT !.dirty = d]
    OBVIOUS
  <2>5. tab.key = old.key /\ tab.path = old.path /\ tab.readonly = old.readonly
    BY <2>3, <2>4 DEF Tabs
  <2>6. SetDirty(w, d).tabs = [w.tabs EXCEPT ![n] = tab]
    BY <1>2, <2>1, <2>3, <2>4, SetDirtyTabs
  <2> QED
    BY <2>2, <2>3, <2>5, <2>6
<1> QED
  BY <1>1, <1>2

LEMMA SetDirtySpoils ==
  ASSUME NEW w \in TabWindows, NEW d \in BOOLEAN
  PROVE  Spoils(SetDirty(w, d)) <=> Spoils(w)
BY SetDirtyEach DEF Spoils

LEMMA SetDirtyMap ==
  ASSUME NEW w \in TabWindows, NEW d \in BOOLEAN, Unique(w)
  PROVE  /\ MapIs(SetDirty(w, d), w, OpenKeys(w), OpenKeys(w) \ {w.active})
         /\ w.active \in OpenKeys(w) =>
              Entry(SetDirty(w, d), w.active) = [Entry(w, w.active) EXCEPT !.dirty = d]
<1>1. PICK v : v = SetDirty(w, d)
  OBVIOUS
<1>2. v \in TabWindows
  BY <1>1, SetDirtyRoot DEF Marked
<1>3. CASE w.active \notin OpenKeys(w)
  <2>1. v.tabs = w.tabs
    BY <1>1, <1>3, SetDirtyTabs
  <2>2. MapIs(v, w, OpenKeys(w), OpenKeys(w))
    BY <1>2, <2>1, SameMap
  <2> QED
    BY <1>1, <1>3, <2>2 DEF MapIs
<1>4. CASE w.active \in OpenKeys(w)
  <2>1. PICK k : k = w.active
    OBVIOUS
  <2>2. PICK old : old = Entry(w, k)
    OBVIOUS
  <2>3. old \in Tabs /\ old.key = k
    BY <1>4, <2>1, <2>2, TabAtIs
  <2>4. PICK tab : tab = [old EXCEPT !.dirty = d]
    OBVIOUS
  <2>5. tab \in Tabs /\ tab.key = k
    BY <2>3, <2>4 DEF Tabs
  <2>6. v.tabs = [w.tabs EXCEPT ![TabAt(w, k)] = tab]
    BY <1>1, <1>4, <2>1, <2>2, <2>4, SetDirtyTabs
  <2>7. MapIs(v, w, OpenKeys(w), OpenKeys(w) \ {k}) /\ Entry(v, k) = tab
    BY <1>2, <1>4, <2>1, <2>5, <2>6, SetMap
  <2> QED
    BY <1>1, <2>1, <2>2, <2>4, <2>7
<1> QED
  BY <1>3, <1>4

LEMMA SyncOutMap ==
  ASSUME NEW w \in TabWindows, Unique(w), NEW k \in OpenKeys(w), k = w.active
  PROVE  /\ MapIs(SyncOut(w), w, OpenKeys(w), OpenKeys(w) \ {k})
         /\ Entry(SyncOut(w), k) = Current(w)
<1>1. PICK v : v = SyncOut(w)
  OBVIOUS
<1>2. PICK tab : tab = Current(w)
  OBVIOUS
<1>3. k \in Keys
  BY TabsFacts
<1>4. tab \in Tabs /\ tab.key = k
  BY <1>2, <1>3, WindowFacts DEF Current, Tabs, Perhaps
<1>5. v \in TabWindows /\ v.tabs = [w.tabs EXCEPT ![TabAt(w, k)] = tab]
  BY <1>1, <1>2, SyncOutIs DEF WithTabs
<1>6. MapIs(v, w, OpenKeys(w), OpenKeys(w) \ {k}) /\ Entry(v, k) = tab
  BY <1>4, <1>5, SetMap
<1> QED
  BY <1>1, <1>2, <1>6

LEMMA ShapeIs ==
  ASSUME NEW w, Shape(w)
  PROVE  /\ Unique(w) /\ TabShape(w) /\ RootShape(w) /\ EditorShape(w)
         /\ w.active # None => w.active \in OpenKeys(w)
BY DEF Shape, RootShape

LEMMA SyncOutShape ==
  ASSUME NEW w \in TabWindows, Shape(w), ~Emptied(w)
  PROVE  /\ MapIs(SyncOut(w), w, OpenKeys(w), {}) /\ Alike(SyncOut(w), w, OpenKeys(w))
<1>1. CASE w.active = None
  <2>1. w.active \notin OpenKeys(w)
    BY <1>1, TabsFacts, NoneIsNothing
  <2>2. SyncOut(w) = w
    BY <2>1, SyncOutIs
  <2> QED
    BY <2>2, ShapeIs DEF MapIs, Alike
<1>2. CASE w.active # None
  <2>1. PICK k \in OpenKeys(w) : k = w.active
    BY <1>2, ShapeIs
  <2>2. PICK v : v = SyncOut(w)
    OBVIOUS
  <2>3. PICK tab : tab = Current(w)
    OBVIOUS
  <2>4. MapIs(v, w, OpenKeys(w), OpenKeys(w) \ {k}) /\ Entry(v, k) = tab
    BY <2>1, <2>2, <2>3, ShapeIs, SyncOutMap
  <2>5. PICK old : old = Entry(w, k)
    OBVIOUS
  <2>6. RootIs(w, old) /\ EntryOK(old, k)
    BY <1>2, <2>1, <2>5, ShapeIs DEF RootShape, TabShape
  <2>7. tab.path = w.file /\ tab.dirty = w.dirty /\ tab.readonly = w.readonly
    BY <2>3 DEF Current
  <2>8. old \in Tabs /\ w.dirty \in BOOLEAN
    BY <2>5, TabAtIs, WindowFacts
  <2>9. old.dirty \in BOOLEAN
    BY <2>8 DEF Tabs
  <2>10. /\ tab.dirty = old.dirty /\ tab.readonly = old.readonly
         /\ ~old.readonly => tab.path = old.path
    BY <1>2, <2>1, <2>6, <2>7, <2>8, <2>9 DEF RootIs, EntryOK, Emptied
  <2>11. ASSUME NEW j \in OpenKeys(w)
         PROVE  /\ Entry(v, j).dirty = Entry(w, j).dirty
                /\ Entry(v, j).readonly = Entry(w, j).readonly
                /\ ~Entry(w, j).readonly => Entry(v, j).path = Entry(w, j).path
    <3>1. CASE j = k
      BY <2>4, <2>5, <2>10, <3>1
    <3>2. CASE j # k
      BY <2>4, <3>2 DEF MapIs
    <3> QED
      BY <3>1, <3>2
  <2>12. Alike(v, w, OpenKeys(w))
    BY <2>11 DEF Alike
  <2> QED
    BY <2>2, <2>4, <2>12 DEF MapIs
<1> QED
  BY <1>1, <1>2

(* An emptied root state cuts the active tab from its file.                *)
LEMMA SyncOutCuts ==
  ASSUME NEW w \in TabWindows, Shape(w), Emptied(w)
  PROVE  \E i \in DOMAIN SyncOut(w).tabs : ~SyncOut(w).tabs[i].readonly /\ SyncOut(w).tabs[i].path = None
<1>1. PICK k \in OpenKeys(w) : k = w.active
  BY ShapeIs DEF Emptied
<1>2. PICK v : v = SyncOut(w)
  OBVIOUS
<1>3. PICK n : n = TabAt(w, k)
  OBVIOUS
<1>4. n \in DOMAIN w.tabs
  BY <1>1, <1>3, TabAtIs
<1>5. v.tabs = [w.tabs EXCEPT ![n] = Current(w)]
  BY <1>1, <1>2, <1>3, SyncOutIs DEF WithTabs
<1>6. n \in DOMAIN v.tabs /\ v.tabs[n] = Current(w)
  BY <1>4, <1>5
<1>7. ~v.tabs[n].readonly /\ v.tabs[n].path = None
  BY <1>6 DEF Current, Emptied
<1> QED
  BY <1>2, <1>6, <1>7

(* All of a shape but the root state.                                      *)
LEMMA SyncInShape ==
  ASSUME NEW y \in TabWindows, Unique(y), TabShape(y), EditorShape(y),
         y.active \in OpenKeys(y), y.shown = y.active
  PROVE  LET v == SyncIn(y) IN
         /\ v \in TabWindows /\ Shape(v) /\ ~Emptied(v)
         /\ v.tabs = y.tabs /\ v.active = y.active /\ v.editor = y.editor
<1>1. PICK v : v = SyncIn(y)
  OBVIOUS
<1>2. PICK tab : tab = Entry(y, y.active)
  OBVIOUS
<1>3. Root(v, y, tab.path, tab.dirty, tab.readonly)
  BY <1>1, <1>2, SyncInIs
<1>4. /\ v \in TabWindows /\ v.tabs = y.tabs /\ v.active = y.active /\ v.editor = y.editor
      /\ v.shown = y.shown /\ v.file = tab.path /\ v.dirty = tab.dirty /\ v.readonly = tab.readonly
  BY <1>3 DEF Root
<1>5. OpenKeys(v) = OpenKeys(y) /\ Unique(v) /\ \A j \in OpenKeys(y) : Entry(v, j) = Entry(y, j)
  BY <1>4, SameMap DEF MapIs
<1>6. EntryOK(tab, y.active)
  BY <1>2 DEF TabShape
<1>7. y.active # None
  BY TabsFacts, NoneIsNothing
<1>8. RootShape(v)
  BY <1>2, <1>4, <1>5, <1>6, <1>7 DEF RootShape, RootIs, EntryOK
<1>9. TabShape(v) /\ EditorShape(v)
  BY <1>4, <1>5 DEF TabShape, EditorShape
<1>10. ~Emptied(v)
  BY <1>4, <1>6, <1>7 DEF Emptied, EntryOK
<1> QED
  BY <1>1, <1>4, <1>5, <1>8, <1>9, <1>10 DEF Shape

LEMMA ArriveShape ==
  ASSUME NEW x \in TabWindows, Unique(x), TabShape(x), EditorShape(x), NEW k \in OpenKeys(x)
  PROVE  LET v == SyncIn(Show([x EXCEPT !.active = k], k)) IN
         /\ v \in TabWindows /\ Shape(v) /\ ~Emptied(v)
         /\ v.tabs = x.tabs /\ v.active = k /\ v.editor = x.editor
<1>1. PICK y : y = [x EXCEPT !.active = k]
  OBVIOUS
<1>2. k \in Perhaps
  BY TabsFacts DEF Perhaps
<1>3. Screen(y, x, k, x.editor, x.shown)
  BY <1>1, <1>2, ActiveIs
<1>4. PICK z : z = Show(y, k)
  OBVIOUS
<1>5. k \in DOMAIN x.editor
  BY DEF EditorShape
<1>6. Screen(z, y, y.active, y.editor, k)
  BY <1>2, <1>3, <1>4, <1>5, ShowIs DEF Screen
<1>7. z \in TabWindows /\ z.tabs = x.tabs /\ z.active = k /\ z.editor = x.editor /\ z.shown = k
  BY <1>3, <1>6 DEF Screen
<1>8. OpenKeys(z) = OpenKeys(x) /\ Unique(z) /\ \A j \in OpenKeys(x) : Entry(z, j) = Entry(x, j)
  BY <1>7, SameMap DEF MapIs
<1>9. TabShape(z) /\ EditorShape(z)
  BY <1>7, <1>8 DEF TabShape, EditorShape
<1>10. PICK v : v = SyncIn(z)
  OBVIOUS
<1>11. /\ v \in TabWindows /\ Shape(v) /\ ~Emptied(v)
       /\ v.tabs = z.tabs /\ v.active = z.active /\ v.editor = z.editor
  BY <1>7, <1>8, <1>9, <1>10, SyncInShape
<1> QED
  BY <1>1, <1>4, <1>7, <1>10, <1>11

(* What a step leaves of the tabs, and their texts.                        *)
SameTabs(v, w, K) == Alike(v, w, K) /\ \A j \in K : v.editor[j] = w.editor[j]

LEMMA SwitchShape ==
  ASSUME NEW w \in TabWindows, Shape(w), NEW k \in OpenKeys(w), ~Spoils(SwitchToTab(w, k))
  PROVE  LET v == SwitchToTab(w, k) IN
         /\ v \in TabWindows /\ Shape(v) /\ ~Emptied(v) /\ v.active = k
         /\ OpenKeys(v) = OpenKeys(w) /\ SameTabs(v, w, OpenKeys(w))
<1>1. CASE k = w.active
  <2>1. PICK v : v = SyncIn(w)
    OBVIOUS
  <2>2. k # None
    BY TabsFacts, NoneIsNothing
  <2>3. w.shown = w.active
    BY <1>1, <2>2, ShapeIs DEF RootShape
  <2>4. /\ v \in TabWindows /\ Shape(v) /\ ~Emptied(v)
        /\ v.tabs = w.tabs /\ v.active = k /\ v.editor = w.editor
    BY <1>1, <2>1, <2>3, ShapeIs, SyncInShape
  <2>5. MapIs(v, w, OpenKeys(w), OpenKeys(w))
    BY <2>4, ShapeIs, SameMap
  <2>6. OpenKeys(v) = OpenKeys(w) /\ SameTabs(v, w, OpenKeys(w))
    BY <2>4, <2>5 DEF MapIs, SameTabs, Alike
  <2>7. v = SwitchToTab(w, k)
    BY <1>1, <2>1 DEF SwitchToTab
  <2> QED
    BY <2>4, <2>6, <2>7
<1>2. CASE k # w.active
  <2>1. PICK u : u = SyncOut(w)
    OBVIOUS
  <2>2. u \in TabWindows /\ u.editor = w.editor
    BY <2>1, SyncOutIs DEF WithTabs
  <2>3. PICK v : v = SyncIn(Show([u EXCEPT !.active = k], k))
    OBVIOUS
  <2>4. v = SwitchToTab(w, k)
    BY <1>2, <2>1, <2>3 DEF SwitchToTab
  <2>5. v.tabs = u.tabs
    <3>1. PICK y : y = [u EXCEPT !.active = k]
      OBVIOUS
    <3>2. k \in Perhaps
      BY TabsFacts DEF Perhaps
    <3>3. y \in TabWindows /\ y.tabs = u.tabs
      BY <2>2, <3>1, <3>2, ActiveIs DEF Screen
    <3>4. PICK z : z = Show(y, k)
      OBVIOUS
    <3>5. z \in TabWindows /\ z.tabs = u.tabs
      BY <3>2, <3>3, <3>4, ShowIs DEF Screen
    <3>6. SyncIn(z).tabs = u.tabs
      BY <3>5, SyncInIs DEF Root
    <3> QED
      BY <2>3, <3>1, <3>4, <3>6
  <2>6. ~Emptied(w)
    BY <2>1, <2>4, <2>5, SyncOutCuts DEF Spoils
  <2>7. MapIs(u, w, OpenKeys(w), {}) /\ Alike(u, w, OpenKeys(w))
    BY <2>1, <2>6, SyncOutShape
  <2>8. OpenKeys(u) = OpenKeys(w) /\ Unique(u)
    BY <2>7 DEF MapIs
  <2>9. TabShape(u) /\ EditorShape(u)
    BY <2>2, <2>7, <2>8, ShapeIs, AlikeShape DEF EditorShape
  <2>10. /\ v \in TabWindows /\ Shape(v) /\ ~Emptied(v)
         /\ v.tabs = u.tabs /\ v.active = k /\ v.editor = u.editor
    BY <2>2, <2>3, <2>8, <2>9, ArriveShape
  <2>11. MapIs(v, u, OpenKeys(u), OpenKeys(u))
    BY <2>2, <2>8, <2>10, SameMap
  <2>12. OpenKeys(v) = OpenKeys(w) /\ SameTabs(v, w, OpenKeys(w))
    BY <2>2, <2>7, <2>8, <2>10, <2>11 DEF MapIs, SameTabs, Alike
  <2> QED
    BY <2>4, <2>10, <2>12
<1> QED
  BY <1>1, <1>2

LEMMA SetDirtyShape ==
  ASSUME NEW w \in TabWindows, Shape(w), NEW d \in BOOLEAN, d => w.active \in Paths
  PROVE  LET v == SetDirty(w, d) IN
         /\ v \in TabWindows /\ Shape(v) /\ (Emptied(v) <=> Emptied(w))
         /\ v.active = w.active /\ v.editor = w.editor /\ v.shown = w.shown /\ v.file = w.file
         /\ OpenKeys(v) = OpenKeys(w)
         /\ \A j \in OpenKeys(w) : Dirty(v, j) <=> IF j = w.active THEN d ELSE Dirty(w, j)
<1>1. PICK v : v = SetDirty(w, d)
  OBVIOUS
<1>2. Marked(v, w, d)
  BY <1>1, SetDirtyRoot
<1>3. /\ v \in TabWindows /\ v.file = w.file /\ v.readonly = w.readonly
      /\ v.active = w.active /\ v.editor = w.editor /\ v.shown = w.shown /\ v.dirty = d
  BY <1>2 DEF Marked
<1>4. /\ MapIs(v, w, OpenKeys(w), OpenKeys(w) \ {w.active})
      /\ w.active \in OpenKeys(w) => Entry(v, w.active) = [Entry(w, w.active) EXCEPT !.dirty = d]
  BY <1>1, ShapeIs, SetDirtyMap
<1>5. OpenKeys(v) = OpenKeys(w) /\ Unique(v) /\ EditorShape(v)
  BY <1>3, <1>4, ShapeIs DEF MapIs, EditorShape
<1>6. ASSUME w.active \in OpenKeys(w)
      PROVE  LET old == Entry(w, w.active)
                 tab == Entry(v, w.active)
             IN tab.dirty = d /\ tab.readonly = old.readonly /\ tab.path = old.path
  <2>1. PICK old : old = Entry(w, w.active)
    OBVIOUS
  <2>2. old \in Tabs
    BY <1>6, <2>1, TabAtIs
  <2>3. Entry(v, w.active) = [old EXCEPT !.dirty = d]
    BY <1>4, <1>6, <2>1
  <2> QED
    BY <2>1, <2>2, <2>3 DEF Tabs
<1>7. ASSUME NEW j \in OpenKeys(w)
      PROVE  /\ EntryOK(Entry(v, j), j) /\ Entry(v, j).readonly = Entry(w, j).readonly
             /\ Dirty(v, j) <=> IF j = w.active THEN d ELSE Dirty(w, j)
  <2>1. EntryOK(Entry(w, j), j)
    BY ShapeIs DEF TabShape
  <2>2. CASE j = w.active
    BY <1>5, <1>6, <2>1, <2>2, FileTabsAssumption DEF EntryOK, Dirty
  <2>3. CASE j # w.active
    BY <1>4, <1>5, <2>1, <2>3 DEF MapIs, Dirty
  <2> QED
    BY <2>2, <2>3
<1>8. TabShape(v)
  BY <1>5, <1>7 DEF TabShape
<1>9. RootShape(v)
  <2>1. CASE w.active = None
    BY <1>3, <1>5, <1>7, <2>1, ShapeIs DEF RootShape
  <2>2. CASE w.active # None
    <3>1. w.active \in OpenKeys(w) /\ w.shown = w.active /\ RootIs(w, Entry(w, w.active))
      BY <2>2, ShapeIs DEF RootShape
    <3>2. EntryOK(Entry(w, w.active), w.active)
      BY <3>1, ShapeIs DEF TabShape
    <3>3. RootIs(v, Entry(v, w.active))
      BY <1>3, <1>6, <3>1, <3>2, FileTabsAssumption DEF RootIs, EntryOK
    <3> QED
      BY <1>3, <1>5, <2>2, <3>1, <3>3 DEF RootShape
  <2> QED
    BY <2>1, <2>2
<1>10. Emptied(v) <=> Emptied(w)
  BY <1>3 DEF Emptied
<1> QED
  BY <1>1, <1>3, <1>5, <1>7, <1>8, <1>9, <1>10 DEF Shape

LEMMA EmptyRootShape ==
  ASSUME NEW w \in TabWindows, Shape(w)
  PROVE  LET v == EmptyRoot(w) IN
         /\ v \in TabWindows /\ Shape(v)
         /\ OpenKeys(v) = OpenKeys(w) /\ SameTabs(v, w, OpenKeys(w))
<1>1. PICK v : v = EmptyRoot(w)
  OBVIOUS
<1>2. Root(v, w, None, FALSE, w.readonly)
  BY <1>1, EmptyRootIs
<1>3. /\ v \in TabWindows /\ v.tabs = w.tabs /\ v.active = w.active /\ v.editor = w.editor
      /\ v.shown = w.shown /\ v.file = None /\ v.dirty = FALSE /\ v.readonly = w.readonly
  BY <1>2 DEF Root
<1>4. OpenKeys(v) = OpenKeys(w) /\ Unique(v) /\ \A j \in OpenKeys(w) : Entry(v, j) = Entry(w, j)
  BY <1>3, ShapeIs, SameMap DEF MapIs
<1>5. TabShape(v) /\ EditorShape(v)
  BY <1>3, <1>4, ShapeIs DEF TabShape, EditorShape
<1>6. RootShape(v)
  BY <1>3, <1>4, ShapeIs DEF RootShape, RootIs
<1> QED
  BY <1>1, <1>3, <1>4, <1>5, <1>6 DEF Shape, SameTabs, Alike

LEMMA ClearShape ==
  ASSUME NEW w \in TabWindows, Shape(w), \A k \in OpenKeys(w) : Entry(w, k).readonly
  PROVE  LET v == ClearEditor(w) IN
         /\ v \in TabWindows /\ Shape(v) /\ ~Emptied(v)
         /\ OpenKeys(v) = OpenKeys(w) /\ SameTabs(v, w, OpenKeys(w))
<1>1. PICK v : v = ClearEditor(w)
  OBVIOUS
<1>2. /\ v \in TabWindows /\ v.tabs = w.tabs /\ v.editor = w.editor /\ v.shown = w.shown
      /\ v.active = None /\ v.file = None
  BY <1>1, ClearIs
<1>3. OpenKeys(v) = OpenKeys(w) /\ Unique(v) /\ \A j \in OpenKeys(w) : Entry(v, j) = Entry(w, j)
  BY <1>2, ShapeIs, SameMap DEF MapIs
<1>4. TabShape(v) /\ EditorShape(v)
  BY <1>2, <1>3, ShapeIs DEF TabShape, EditorShape
<1>5. RootShape(v) /\ ~Emptied(v)
  BY <1>2, <1>3 DEF RootShape, Emptied
<1> QED
  BY <1>1, <1>2, <1>3, <1>4, <1>5 DEF Shape, SameTabs, Alike

LEMMA CloseShape ==
  ASSUME NEW w \in TabWindows, Shape(w), NEW k \in OpenKeys(w)
  PROVE  LET v == Close(w, k) IN
         /\ v \in TabWindows /\ Shape(v) /\ (Emptied(v) => Emptied(w))
         /\ OpenKeys(v) = OpenKeys(w) \ {k} /\ SameTabs(v, w, OpenKeys(v))
<1>1. PICK c : /\ Closed(w, c, k)
               /\ \/ w.active # k /\ Close(w, k) = c
                  \/ w.active = k /\ c.tabs = <<>> /\ Close(w, k) = ClearEditor(c)
                  \/ w.active = k /\ \E next \in OpenKeys(c) :
                       Close(w, k) = SyncIn(Show([c EXCEPT !.active = next], next))
  BY CloseIs
<1>2. /\ c \in TabWindows /\ SameRoot(c, w) /\ c.active = w.active
      /\ c.tabs = RemoveAt(w.tabs, TabAt(w, k)) /\ c.editor = WithoutKey(w.editor, k)
      /\ w.shown # k => c.shown = w.shown
  BY <1>1 DEF Closed
<1>3. MapIs(c, w, OpenKeys(w) \ {k}, OpenKeys(w) \ {k})
  BY <1>2, ShapeIs, RemoveMap
<1>4. /\ Unique(c) /\ OpenKeys(c) = OpenKeys(w) \ {k}
      /\ \A j \in OpenKeys(c) : Entry(c, j) = Entry(w, j)
  BY <1>3 DEF MapIs
<1>5. TabShape(c)
  BY <1>4, ShapeIs DEF TabShape
<1>6. EditorShape(c) /\ \A j \in OpenKeys(c) : c.editor[j] = w.editor[j]
  <2>1. PICK e : e = w.editor
    OBVIOUS
  <2>2. DOMAIN e = OpenKeys(w) /\ \A j \in OpenKeys(w) : e[j].of = j
    BY <2>1, ShapeIs DEF EditorShape
  <2>3. c.editor = [x \in DOMAIN e \ {k} |-> e[x]]
    BY <1>2, <2>1 DEF WithoutKey
  <2> QED
    BY <1>4, <2>1, <2>2, <2>3 DEF EditorShape
<1>7. CASE w.active # k
  <2>1. Close(w, k) = c
    BY <1>1, <1>7
  <2>2. Emptied(c) => Emptied(w)
    BY <1>2 DEF Emptied, SameRoot
  <2>3. RootShape(c)
    <3>1. CASE w.active = None
      BY <1>2, <1>4, <3>1, ShapeIs DEF RootShape, SameRoot
    <3>2. CASE w.active # None
      <4>1. w.active \in OpenKeys(c) /\ c.shown = c.active
        BY <1>2, <1>4, <1>7, <3>2, ShapeIs DEF RootShape
      <4> QED
        BY <1>2, <1>4, <3>2, <4>1, ShapeIs DEF RootShape, RootIs, SameRoot
    <3> QED
      BY <3>1, <3>2
  <2> QED
    BY <1>2, <1>4, <1>5, <1>6, <2>1, <2>2, <2>3 DEF Shape, SameTabs, Alike
<1>8. CASE w.active = k /\ c.tabs = <<>> /\ Close(w, k) = ClearEditor(c)
  <2>1. PICK v : v = Close(w, k)
    OBVIOUS
  <2>2. v = ClearEditor(c)
    BY <1>8, <2>1
  <2>3. /\ v \in TabWindows /\ v.tabs = c.tabs /\ v.editor = c.editor
        /\ v.active = None /\ v.file = None
    BY <1>2, <2>2, ClearIs
  <2>4. DOMAIN c.tabs = {}
    BY <1>8
  <2>5. OpenKeys(c) = {} /\ OpenKeys(v) = {}
    BY <2>3, <2>4 DEF OpenKeys
  <2>6. Unique(v) /\ TabShape(v) /\ EditorShape(v) /\ RootShape(v) /\ ~Emptied(v)
    BY <1>6, <2>3, <2>4, <2>5 DEF Unique, TabShape, EditorShape, RootShape, Emptied
  <2> QED
    BY <1>4, <2>1, <2>3, <2>5, <2>6 DEF Shape, SameTabs, Alike
<1>9. ASSUME NEW next \in OpenKeys(c), Close(w, k) = SyncIn(Show([c EXCEPT !.active = next], next))
      PROVE  LET v == Close(w, k) IN
             /\ v \in TabWindows /\ Shape(v) /\ (Emptied(v) => Emptied(w))
             /\ OpenKeys(v) = OpenKeys(w) \ {k} /\ SameTabs(v, w, OpenKeys(v))
  <2>1. PICK v : v = Close(w, k)
    OBVIOUS
  <2>2. /\ v \in TabWindows /\ Shape(v) /\ ~Emptied(v)
        /\ v.tabs = c.tabs /\ v.active = next /\ v.editor = c.editor
    BY <1>2, <1>4, <1>5, <1>6, <1>9, <2>1, ArriveShape
  <2>3. OpenKeys(v) = OpenKeys(c) /\ \A j \in OpenKeys(c) : Entry(v, j) = Entry(c, j)
    BY <1>2, <1>4, <2>2, SameMap DEF MapIs
  <2>4. SameTabs(v, w, OpenKeys(v))
    BY <1>4, <1>6, <2>2, <2>3 DEF SameTabs, Alike
  <2> QED
    BY <1>4, <2>1, <2>2, <2>3, <2>4
<1> QED
  BY <1>1, <1>7, <1>8, <1>9

LEMMA SetContentShape ==
  ASSUME NEW w \in TabWindows, Shape(w), NEW text \in TextSet,
         w.shown \in DOMAIN w.editor, text.of = w.shown
  PROVE  LET v == SetContent(w, text) IN
         /\ v \in TabWindows /\ Shape(v) /\ (Emptied(v) <=> Emptied(w))
         /\ v.active = w.active /\ v.shown = w.shown
         /\ OpenKeys(v) = OpenKeys(w) /\ Alike(v, w, OpenKeys(w))
         /\ \A j \in OpenKeys(w) : v.editor[j] = IF j = w.shown THEN text ELSE w.editor[j]
<1>1. PICK v : v = SetContent(w, text)
  OBVIOUS
<1>2. Screen(v, w, w.active, WithText(w.editor, w.shown, text), w.shown)
  BY <1>1, SetContentIs
<1>3. /\ v \in TabWindows /\ SameRoot(v, w) /\ v.tabs = w.tabs /\ v.active = w.active
      /\ v.shown = w.shown /\ v.editor = WithText(w.editor, w.shown, text)
  BY <1>2 DEF Screen
<1>4. OpenKeys(v) = OpenKeys(w) /\ Unique(v) /\ \A j \in OpenKeys(w) : Entry(v, j) = Entry(w, j)
  BY <1>3, ShapeIs, SameMap DEF MapIs
<1>5. /\ DOMAIN v.editor = OpenKeys(w)
      /\ \A j \in OpenKeys(w) : v.editor[j] = IF j = w.shown THEN text ELSE w.editor[j]
  <2>1. PICK e : e = w.editor
    OBVIOUS
  <2>2. DOMAIN e = OpenKeys(w)
    BY <2>1, ShapeIs DEF EditorShape
  <2>3. v.editor = [x \in DOMAIN e \union {w.shown} |-> IF x = w.shown THEN text ELSE e[x]]
    BY <1>3, <2>1 DEF WithText
  <2> QED
    BY <2>1, <2>2, <2>3
<1>6. TabShape(v) /\ EditorShape(v)
  BY <1>4, <1>5, ShapeIs DEF TabShape, EditorShape
<1>7. RootShape(v) /\ (Emptied(v) <=> Emptied(w))
  BY <1>3, <1>4, ShapeIs DEF RootShape, RootIs, SameRoot, Emptied
<1> QED
  BY <1>1, <1>3, <1>4, <1>5, <1>6, <1>7 DEF Shape, Alike

LEMMA OpenTabShape ==
  ASSUME NEW w \in TabWindows, Shape(w), NEW k \in Keys, NEW text \in TextSet, text.of = k,
         NEW entry \in Tabs, entry.key = k, EntryOK(entry, k), ~entry.dirty,
         NEW file \in Perhaps, entry.readonly \/ file = k,
         ~Spoils(OpenTab(w, k, text, entry, file))
  PROVE  LET v == OpenTab(w, k, text, entry, file) IN
         /\ v \in TabWindows /\ Shape(v) /\ ~Emptied(v) /\ k \notin OpenKeys(w)
         /\ OpenKeys(v) = OpenKeys(w) \union {k} /\ SameTabs(v, w, OpenKeys(w))
         /\ v.editor[k] = text /\ ~Dirty(v, k)
<1>1. PICK u : u = SyncOut(w)
  OBVIOUS
<1>2. u \in TabWindows /\ u.editor = w.editor
  BY <1>1, SyncOutIs DEF WithTabs
<1>3. PICK c : c = Create(u, k, text)
  OBVIOUS
<1>4. c \in TabWindows /\ c.tabs = u.tabs /\ c.editor = WithText(w.editor, k, text)
  BY <1>2, <1>3, CreateIs DEF Screen
<1>5. PICK a : a = AddTo(c, entry, file)
  OBVIOUS
<1>6. Added(c, a, entry) /\ a.file = file
  BY <1>4, <1>5, AddedIs
<1>7. /\ a \in TabWindows /\ a.tabs = Append(u.tabs, entry) /\ a.active = k
      /\ a.readonly = entry.readonly /\ a.editor = WithText(w.editor, k, text)
  BY <1>4, <1>6 DEF Added
<1>8. PICK s : s = Show(a, k)
  OBVIOUS
<1>9. /\ s \in TabWindows /\ s.tabs = Append(u.tabs, entry) /\ s.active = k /\ s.file = file
      /\ s.readonly = entry.readonly /\ s.editor = WithText(w.editor, k, text) /\ s.shown = k
  <2>1. k \in DOMAIN WithText(w.editor, k, text)
    BY DEF WithText
  <2>2. Screen(s, a, a.active, a.editor, k)
    BY <1>7, <1>8, <2>1, ShowIs DEF Perhaps
  <2> QED
    BY <1>6, <1>7, <2>2 DEF Screen, SameRoot
<1>10. PICK v : v = OpenTab(w, k, text, entry, file)
  OBVIOUS
<1>11. v = SetDirty(s, FALSE)
  BY <1>1, <1>3, <1>5, <1>8, <1>10 DEF OpenTab, AddTo
<1>12. ~Spoils(s)
  BY <1>9, <1>10, <1>11, SetDirtySpoils
<1>13. u.tabs \in Seq(Tabs)
  BY <1>2, WindowFacts
<1>14. PICK n \in Nat : n = Len(u.tabs) /\ DOMAIN u.tabs = 1 .. n
  BY <1>13
<1>15. /\ DOMAIN s.tabs = 1 .. (n + 1) /\ s.tabs[n + 1] = entry
       /\ \A i \in 1 .. n : s.tabs[i] = u.tabs[i]
  BY <1>9, <1>13, <1>14
<1>16. \A i \in 1 .. n : u.tabs[i].readonly \/ u.tabs[i].path # None
  BY <1>12, <1>15, NotSpoilt
<1>17. ~Emptied(w)
  BY <1>1, <1>14, <1>16, SyncOutCuts
<1>18. MapIs(u, w, OpenKeys(w), {}) /\ Alike(u, w, OpenKeys(w))
  BY <1>1, <1>17, SyncOutShape
<1>19. OpenKeys(u) = OpenKeys(w) /\ Unique(u) /\ TabShape(u)
  BY <1>18, ShapeIs, AlikeShape DEF MapIs
<1>20. k \notin OpenKeys(w)
  <2>1. SUFFICES ASSUME k \in OpenKeys(u)
                 PROVE  FALSE
    BY <1>19
  <2>2. PICK i \in 1 .. n : u.tabs[i].key = k
    BY <1>14, <2>1 DEF OpenKeys
  <2>3. i # n + 1 /\ i \in DOMAIN s.tabs /\ n + 1 \in DOMAIN s.tabs
    BY <1>15
  <2>4. s.tabs[i].key = s.tabs[n + 1].key
    BY <1>15, <2>2
  <2> QED
    BY <1>12, <2>3, <2>4, NotSpoilt DEF Unique
<1>21. MapIs(s, u, OpenKeys(w) \union {k}, OpenKeys(w)) /\ Entry(s, k) = entry
  BY <1>2, <1>9, <1>19, <1>20, AppendMap
<1>22. /\ OpenKeys(s) = OpenKeys(w) \union {k} /\ Unique(s)
       /\ \A j \in OpenKeys(w) : Entry(s, j) = Entry(u, j)
  BY <1>21 DEF MapIs
<1>23. TabShape(s)
  BY <1>19, <1>21, <1>22 DEF TabShape
<1>24. /\ DOMAIN s.editor = OpenKeys(s) /\ s.editor[k] = text
       /\ \A j \in OpenKeys(w) : s.editor[j] = w.editor[j]
  <2>1. PICK e : e = w.editor
    OBVIOUS
  <2>2. DOMAIN e = OpenKeys(w)
    BY <2>1, ShapeIs DEF EditorShape
  <2>3. s.editor = [x \in DOMAIN e \union {k} |-> IF x = k THEN text ELSE e[x]]
    BY <1>9, <2>1 DEF WithText
  <2> QED
    BY <1>20, <1>22, <2>1, <2>2, <2>3
<1>25. EditorShape(s)
  BY <1>22, <1>24, ShapeIs DEF EditorShape
<1>26. PICK no \in BOOLEAN : no = FALSE
  OBVIOUS
<1>27. Marked(v, s, no)
  BY <1>9, <1>11, <1>26, SetDirtyRoot
<1>28. /\ v \in TabWindows /\ v.file = file /\ v.readonly = entry.readonly /\ v.active = k
       /\ v.editor = s.editor /\ v.shown = k /\ v.dirty = FALSE
  BY <1>9, <1>26, <1>27 DEF Marked
<1>29. /\ MapIs(v, s, OpenKeys(s), OpenKeys(s) \ {k})
       /\ Entry(v, k) = [entry EXCEPT !.dirty = no]
  BY <1>9, <1>11, <1>21, <1>22, <1>26, SetDirtyMap
<1>30. Entry(v, k).dirty = FALSE /\ Entry(v, k).readonly = entry.readonly /\ Entry(v, k).path = entry.path
  BY <1>26, <1>29 DEF Tabs
<1>31. /\ OpenKeys(v) = OpenKeys(w) \union {k} /\ Unique(v)
       /\ \A j \in OpenKeys(w) : Entry(v, j) = Entry(u, j)
  BY <1>20, <1>22, <1>29 DEF MapIs
<1>32. EntryOK(Entry(v, k), k)
  BY <1>30 DEF EntryOK
<1>33. TabShape(v) /\ EditorShape(v)
  BY <1>19, <1>22, <1>25, <1>28, <1>31, <1>32 DEF TabShape, EditorShape
<1>34. k # None
  BY NoneIsNothing
<1>35. RootShape(v) /\ ~Emptied(v)
  BY <1>28, <1>30, <1>31, <1>32, <1>34 DEF RootShape, RootIs, EntryOK, Emptied
<1>36. SameTabs(v, w, OpenKeys(w))
  BY <1>18, <1>24, <1>28, <1>31 DEF SameTabs, Alike
<1> QED
  BY <1>10, <1>20, <1>24, <1>28, <1>30, <1>31, <1>33, <1>35, <1>36 DEF Shape, Dirty

-----------------------------------------------------------------------------
(* The replies that are to come.                                           *)
Sights == Perhaps \X [of : Perhaps, version : Versions]
Disks == [Paths -> Versions \union {None}]

OpenCalls == [kind : {"open"}, path : Paths, version : Versions \union {None}]
SourceCalls == [kind : {"source"}, path : Sources]
SaveCalls == [kind : {"save"}, ok : BOOLEAN, close : Perhaps, sight : Sights, left : {<<>>}]
ScanCalls == [kind : {"scan"}, preferred : Perhaps \union {"current"}, files : SUBSET Paths]
ChangedCalls == [kind : {"changed"}, preferred : Perhaps \union {"current"}, from : Perhaps]
ReplaceCalls == [kind : {"replace"}, changed : SUBSET Paths]
ReloadCalls ==
  {c \in [kind : {"reload"}, path : Perhaps, version : Versions \union {None},
          left : Seq(Tabs), back : Perhaps, sight : Sights] :
     c.version # None => c.path \in Paths}

Calls == OpenCalls \union SourceCalls \union SaveCalls \union ScanCalls
         \union ChangedCalls \union ReplaceCalls \union ReloadCalls

LEMMA CallFacts ==
  ASSUME NEW c \in Calls
  PROVE  /\ c.kind = "open" => c.path \in Paths /\ c.version \in Versions \union {None}
         /\ c.kind = "source" => c.path \in Sources
         /\ c.kind = "save" => c.ok \in BOOLEAN /\ c.close \in Perhaps /\ c.sight \in Sights /\ c.left = <<>>
         /\ c.kind = "scan" => c.files \subseteq Paths /\ c.preferred \in Perhaps \union {"current"}
         /\ c.kind = "changed" => c.preferred \in Perhaps \union {"current"} /\ c.from \in Perhaps
         /\ c.kind = "replace" => c.changed \subseteq Paths
         /\ c.kind = "reload" => /\ c.path \in Perhaps /\ c.version \in Versions \union {None}
                                 /\ c.left \in Seq(Tabs) /\ c.back \in Perhaps /\ c.sight \in Sights
                                 /\ c.version # None => c.path \in Paths
<1>1. c.kind = "open" => c \in OpenCalls
  BY DEF Calls, OpenCalls, SourceCalls, SaveCalls, ScanCalls, ChangedCalls, ReplaceCalls, ReloadCalls
<1>2. c.kind = "source" => c \in SourceCalls
  BY DEF Calls, OpenCalls, SourceCalls, SaveCalls, ScanCalls, ChangedCalls, ReplaceCalls, ReloadCalls
<1>3. c.kind = "save" => c \in SaveCalls
  BY DEF Calls, OpenCalls, SourceCalls, SaveCalls, ScanCalls, ChangedCalls, ReplaceCalls, ReloadCalls
<1>4. c.kind = "scan" => c \in ScanCalls
  BY DEF Calls, OpenCalls, SourceCalls, SaveCalls, ScanCalls, ChangedCalls, ReplaceCalls, ReloadCalls
<1>5. c.kind = "changed" => c \in ChangedCalls
  BY DEF Calls, OpenCalls, SourceCalls, SaveCalls, ScanCalls, ChangedCalls, ReplaceCalls, ReloadCalls
<1>6. c.kind = "replace" => c \in ReplaceCalls
  BY DEF Calls, OpenCalls, SourceCalls, SaveCalls, ScanCalls, ChangedCalls, ReplaceCalls, ReloadCalls
<1>7. c.kind = "reload" => c \in ReloadCalls
  BY DEF Calls, OpenCalls, SourceCalls, SaveCalls, ScanCalls, ChangedCalls, ReplaceCalls, ReloadCalls
<1>8. \A x \in OpenCalls : x.path \in Paths /\ x.version \in Versions \union {None}
  BY DEF OpenCalls
<1>9. \A x \in SourceCalls : x.path \in Sources
  BY DEF SourceCalls
<1>10. \A x \in SaveCalls : x.ok \in BOOLEAN /\ x.close \in Perhaps /\ x.sight \in Sights /\ x.left = <<>>
  BY DEF SaveCalls
<1>11. \A x \in ScanCalls : x.files \subseteq Paths /\ x.preferred \in Perhaps \union {"current"}
  BY DEF ScanCalls
<1>12. \A x \in ChangedCalls : x.preferred \in Perhaps \union {"current"} /\ x.from \in Perhaps
  BY DEF ChangedCalls
<1>13. \A x \in ReplaceCalls : x.changed \subseteq Paths
  BY DEF ReplaceCalls
<1>14. \A x \in ReloadCalls : /\ x.path \in Perhaps /\ x.version \in Versions \union {None}
                              /\ x.left \in Seq(Tabs) /\ x.back \in Perhaps /\ x.sight \in Sights
                              /\ x.version # None => x.path \in Paths
  BY DEF ReloadCalls
<1> QED
  BY <1>1, <1>2, <1>3, <1>4, <1>5, <1>6, <1>7, <1>8, <1>9, <1>10, <1>11, <1>12, <1>13, <1>14

(* A call that will bring the text of p to the disk's, or has written it.  *)
Covers(c, p, d) ==
  \/ c.kind = "replace" /\ p \in c.changed
  \/ c.kind = "save" /\ c.ok /\ c.sight = <<p, Text(p, d[p])>>

CoversTab(c, p, d) ==
  \/ Covers(c, p, d)
  \/ c.kind = "reload" /\ (c.path = p \/ \E t \in DOMAIN c.left : c.left[t].key = p)

IsRead(c, p) == c.kind = "open" /\ c.path = p /\ c.version # None

(* Of the call at i: the paths that are open when its reply comes, those   *)
(* that a later call covers, and whether a change is reported after it.    *)
Live(q, i, w) == {p \in Paths : p \in OpenKeys(w) \/ \E j \in DOMAIN q : j < i /\ IsRead(q[j], p)}
Later(q, i, d) == {p \in Paths : \E j \in DOMAIN q : j > i /\ Covers(q[j], p, d)}
ChangeLater(q, i) == \E j \in DOMAIN q : j > i /\ q[j].kind = "changed"

OpenOK(c, later, d, n) ==
  c.version # None =>
    /\ d[c.path] # None /\ c.version <= n
    /\ c.version = d[c.path] \/ c.path \in later

ScanOK(c, live, change, d) ==
  live \subseteq c.files /\ \A p \in c.files : d[p] = None => change

SaveOK(c, live, later, w, d, n) ==
  c.ok =>
    LET p == c.sight[1]
        v == c.sight[2].version
    IN /\ p \in Paths /\ c.sight[2].of = p /\ c.close \in {None, p} /\ v <= n
       /\ p \in live => v = d[p] \/ p \in later
       /\ Dirty(w, p) /\ w.editor[p].version = v => d[p] = v

ReloadOK(c, live, later, w, d, n) ==
  LET p == c.path IN
  /\ p \in Paths /\ c.version # None /\ c.version <= n
  /\ c.sight[1] = p /\ c.sight[2].version <= n
  /\ p \in live => c.version = d[p] \/ p \in later
  /\ ~(Dirty(w, p) /\ w.editor[p] = c.sight[2])
  /\ \A t \in DOMAIN c.left : c.left[t].key \in Paths /\ c.left[t].path = c.left[t].key

CallOK(c, live, later, change, w, d, n) ==
  /\ c.kind = "open" => OpenOK(c, later, d, n)
  /\ c.kind = "scan" => ScanOK(c, live, change, d)
  /\ c.kind = "save" => SaveOK(c, live, later, w, d, n)
  /\ c.kind = "reload" => ReloadOK(c, live, later, w, d, n)

CallsOK(q, w, d, n) ==
  \A i \in DOMAIN q : CallOK(q[i], Live(q, i, w), Later(q, i, d), ChangeLater(q, i), w, d, n)

(* No step makes a text dirty but by typing a new one.                     *)
Tame(v, w, n) ==
  \A p \in Paths : Dirty(v, p) => \/ Dirty(w, p) /\ v.editor[p] = w.editor[p]
                                  \/ v.editor[p].version > n

(* What may become of the disk.                                            *)
Change(c, live, later, more, change, v, d, e) ==
  \A p \in Paths :
    \/ e[p] = d[p] /\ (p \in later => p \in more)
    \/ p \in more /\ e[p] # None /\ (Dirty(v, p) => e[p] = v.editor[p].version)
    \/ p \notin live /\ p \notin OpenKeys(v) /\ ~IsRead(c, p) /\ change

LEMMA CallStep ==
  ASSUME NEW c \in Calls, NEW live, NEW later, NEW change, NEW live2, NEW later2, NEW change2,
         NEW w, NEW v, NEW d \in Disks, NEW e \in Disks, NEW n \in Nat, NEW m \in Nat, n <= m,
         CallOK(c, live, later, change, w, d, n),
         live2 \subseteq live, change => change2, Tame(v, w, n),
         Change(c, live2, later, later2, change2, v, d, e)
  PROVE  CallOK(c, live2, later2, change2, v, e, m)
<1>1. Versions \subseteq Nat
  BY NoneIsNothing
<1>2. ASSUME c.kind = "open"
      PROVE  OpenOK(c, later2, e, m)
  <2>1. SUFFICES ASSUME c.version # None
                 PROVE  /\ e[c.path] # None /\ c.version <= m
                        /\ c.version = e[c.path] \/ c.path \in later2
    BY DEF OpenOK
  <2>2. PICK p \in Paths : p = c.path
    BY <1>2, CallFacts
  <2>3. PICK x \in Nat : x = c.version
    BY <1>1, <1>2, <2>1, CallFacts
  <2>4. d[p] # None /\ x <= n /\ (x = d[p] \/ p \in later)
    BY <1>2, <2>1, <2>2, <2>3 DEF CallOK, OpenOK
  <2>5. IsRead(c, p)
    BY <1>2, <2>1, <2>2 DEF IsRead
  <2>6. \/ e[p] = d[p] /\ (p \in later => p \in later2)
        \/ p \in later2 /\ e[p] # None
    BY <2>5 DEF Change
  <2> QED
    BY <2>2, <2>3, <2>4, <2>6
<1>3. ASSUME c.kind = "scan"
      PROVE  ScanOK(c, live2, change2, e)
  <2>1. live \subseteq c.files /\ \A p \in c.files : d[p] = None => change
    BY <1>3 DEF CallOK, ScanOK
  <2>2. \A p \in c.files : e[p] = d[p] \/ e[p] # None \/ change2
    BY <1>3, CallFacts DEF Change
  <2> QED
    BY <2>1, <2>2 DEF ScanOK
<1>4. ASSUME c.kind = "save"
      PROVE  SaveOK(c, live2, later2, v, e, m)
  <2>1. SUFFICES ASSUME c.ok
                 PROVE  SaveOK(c, live2, later2, v, e, m)
    BY DEF SaveOK
  <2>2. PICK s \in Sights : s = c.sight
    BY <1>4, CallFacts
  <2>3. PICK p : p = s[1]
    OBVIOUS
  <2>4. PICK x \in Nat : x = s[2].version
    BY <1>1 DEF Sights
  <2>5. /\ p \in Paths /\ s[2].of = p /\ c.close \in {None, p} /\ x <= n
        /\ p \in live => x = d[p] \/ p \in later
        /\ Dirty(w, p) /\ w.editor[p].version = x => d[p] = x
    BY <1>4, <2>1, <2>2, <2>3, <2>4 DEF CallOK, SaveOK
  <2>6. \/ e[p] = d[p] /\ (p \in later => p \in later2)
        \/ p \in later2 /\ e[p] # None /\ (Dirty(v, p) => e[p] = v.editor[p].version)
        \/ p \notin live2 /\ p \notin OpenKeys(v)
    BY <2>5 DEF Change
  <2>7. Dirty(v, p) => \/ Dirty(w, p) /\ v.editor[p] = w.editor[p]
                       \/ v.editor[p].version > n
    BY <2>5 DEF Tame
  <2>8. x <= m
    BY <2>5
  <2>9. p \in live2 => x = e[p] \/ p \in later2
    BY <2>5, <2>6
  <2>10. ASSUME Dirty(v, p), v.editor[p].version = x
         PROVE  e[p] = x
    <3>1. ~(v.editor[p].version > n)
      BY <2>5, <2>10
    <3>2. d[p] = x
      BY <2>5, <2>7, <2>10, <3>1
    <3>3. p \in OpenKeys(v)
      BY <2>10 DEF Dirty
    <3> QED
      BY <2>6, <2>10, <3>2, <3>3
  <2> QED
    BY <2>2, <2>3, <2>4, <2>5, <2>8, <2>9, <2>10 DEF SaveOK
<1>5. ASSUME c.kind = "reload"
      PROVE  ReloadOK(c, live2, later2, v, e, m)
  <2>1. ReloadOK(c, live, later, w, d, n)
    BY <1>5 DEF CallOK
  <2>2. PICK p \in Paths : p = c.path
    BY <2>1 DEF ReloadOK
  <2>3. PICK s \in Sights : s = c.sight
    BY <1>5, CallFacts
  <2>4. PICK x \in Nat : x = c.version
    BY <1>1, <1>5, <2>1, CallFacts DEF ReloadOK
  <2>5. PICK y \in Nat : y = s[2].version
    BY <1>1 DEF Sights
  <2>6. /\ c.version # None /\ x <= n /\ s[1] = p /\ y <= n
        /\ p \in live => x = d[p] \/ p \in later
        /\ ~(Dirty(w, p) /\ w.editor[p] = s[2])
        /\ \A t \in DOMAIN c.left : c.left[t].key \in Paths /\ c.left[t].path = c.left[t].key
    BY <2>1, <2>2, <2>3, <2>4, <2>5 DEF ReloadOK
  <2>7. \/ e[p] = d[p] /\ (p \in later => p \in later2)
        \/ p \in later2
        \/ p \notin live2
    BY DEF Change
  <2>8. p \in live2 => x = e[p] \/ p \in later2
    BY <2>6, <2>7
  <2>9. Dirty(v, p) => \/ Dirty(w, p) /\ v.editor[p] = w.editor[p]
                       \/ v.editor[p].version > n
    BY DEF Tame
  <2>10. ~(Dirty(v, p) /\ v.editor[p] = s[2])
    <3>1. SUFFICES ASSUME Dirty(v, p), v.editor[p] = s[2]
                   PROVE  FALSE
      OBVIOUS
    <3>2. ~(v.editor[p].version > n)
      BY <2>5, <2>6, <3>1
    <3> QED
      BY <2>6, <2>9, <3>1, <3>2
  <2>11. x <= m /\ y <= m
    BY <2>6
  <2> QED
    BY <2>2, <2>3, <2>4, <2>5, <2>6, <2>8, <2>10, <2>11 DEF ReloadOK
<1> QED
  BY <1>2, <1>3, <1>4, <1>5 DEF CallOK

LEMMA TailIs ==
  ASSUME NEW S, NEW q \in Seq(S), q # <<>>
  PROVE  /\ Tail(q) \in Seq(S) /\ Head(q) = q[1] /\ 1 \in DOMAIN q
         /\ \A i \in DOMAIN Tail(q) : i \in Nat /\ i + 1 \in DOMAIN q /\ Tail(q)[i] = q[i + 1]
         /\ \A i \in DOMAIN q : i = 1 \/ (i - 1 \in DOMAIN Tail(q) /\ Tail(q)[i - 1] = q[i])
<1>1. PICK n \in Nat : n = Len(q) /\ DOMAIN q = 1 .. n /\ n # 0
  OBVIOUS
<1>2. PICK t : t = Tail(q)
  OBVIOUS
<1>3. t \in Seq(S) /\ Len(t) = n - 1
  BY <1>1, <1>2
<1>4. DOMAIN t = 1 .. (n - 1)
  BY <1>1, <1>3
<1>5. \A i \in 1 .. (n - 1) : t[i] = q[i + 1]
  BY <1>1, <1>2
<1>6. \A i \in 1 .. (n - 1) : i \in Nat /\ i + 1 \in 1 .. n
  BY <1>1
<1>7. \A i \in 1 .. n : i = 1 \/ (i - 1 \in 1 .. (n - 1) /\ (i - 1) + 1 = i)
  BY <1>1
<1>8. \A i \in 1 .. n : i = 1 \/ (i - 1 \in 1 .. (n - 1) /\ t[i - 1] = q[i])
  BY <1>5, <1>7
<1> QED
  BY <1>1, <1>2, <1>3, <1>4, <1>5, <1>6, <1>8

LEMMA AppendIs ==
  ASSUME NEW S, NEW q \in Seq(S), NEW c \in S
  PROVE  \E n \in Nat :
           /\ n = Len(q) /\ DOMAIN q = 1 .. n /\ DOMAIN Append(q, c) = 1 .. (n + 1)
           /\ Append(q, c) \in Seq(S) /\ Append(q, c)[n + 1] = c
           /\ \A i \in 1 .. n : Append(q, c)[i] = q[i]
<1>1. PICK n \in Nat : n = Len(q) /\ DOMAIN q = 1 .. n
  OBVIOUS
<1>2. /\ DOMAIN Append(q, c) = 1 .. (n + 1) /\ Append(q, c) \in Seq(S)
      /\ Append(q, c)[n + 1] = c /\ \A i \in 1 .. n : Append(q, c)[i] = q[i]
  BY <1>1
<1> QED
  BY <1>1, <1>2

NoNewPath(v, w) == \A p \in Paths : p \in OpenKeys(v) => p \in OpenKeys(w)

LEMMA SameChange ==
  ASSUME NEW c, NEW live, NEW later, NEW more, NEW change, NEW v, NEW d, later \subseteq more
  PROVE  Change(c, live, later, more, change, v, d, d)
BY DEF Change

(* The queue stays, the window changes.                                    *)
LEMMA KeepCalls ==
  ASSUME NEW q \in Seq(Calls), NEW w, NEW v, NEW d \in Disks, NEW n \in Nat, NEW m \in Nat,
         n <= m, CallsOK(q, w, d, n), NoNewPath(v, w), Tame(v, w, n)
  PROVE  CallsOK(q, v, d, m)
<1>1. SUFFICES ASSUME NEW i \in DOMAIN q
               PROVE  CallOK(q[i], Live(q, i, v), Later(q, i, d), ChangeLater(q, i), v, d, m)
  BY DEF CallsOK
<1>2. CallOK(q[i], Live(q, i, w), Later(q, i, d), ChangeLater(q, i), w, d, n)
  BY DEF CallsOK
<1>3. Live(q, i, v) \subseteq Live(q, i, w)
  BY DEF Live, NoNewPath
<1>4. Change(q[i], Live(q, i, v), Later(q, i, d), Later(q, i, d), ChangeLater(q, i), v, d, d)
  BY SameChange
<1>5. q[i] \in Calls
  OBVIOUS
<1> HIDE DEF Live, Later, ChangeLater, CallOK, Change
<1> QED
  BY <1>2, <1>3, <1>4, <1>5, CallStep

(* The first reply comes; it may open the file that it has read.           *)
NoNewButRead(v, w, c) == \A p \in Paths : p \in OpenKeys(v) => p \in OpenKeys(w) \/ IsRead(c, p)

LEMMA PopCalls ==
  ASSUME NEW q \in Seq(Calls), q # <<>>, NEW w, NEW v, NEW d \in Disks, NEW n \in Nat,
         CallsOK(q, w, d, n), NoNewButRead(v, w, Head(q)), Tame(v, w, n)
  PROVE  CallsOK(Tail(q), v, d, n)
<1>1. PICK t : t = Tail(q)
  OBVIOUS
<1>2. /\ t \in Seq(Calls) /\ Head(q) = q[1] /\ 1 \in DOMAIN q
      /\ \A i \in DOMAIN t : i \in Nat /\ i + 1 \in DOMAIN q /\ t[i] = q[i + 1]
      /\ \A i \in DOMAIN q : i = 1 \/ (i - 1 \in DOMAIN t /\ t[i - 1] = q[i])
  BY <1>1, TailIs
<1>3. SUFFICES ASSUME NEW i \in DOMAIN t
               PROVE  CallOK(t[i], Live(t, i, v), Later(t, i, d), ChangeLater(t, i), v, d, n)
  BY <1>1 DEF CallsOK
<1>4. PICK k \in DOMAIN q : k = i + 1 /\ i \in Nat /\ t[i] = q[k]
  BY <1>2
<1>5. CallOK(t[i], Live(q, k, w), Later(q, k, d), ChangeLater(q, k), w, d, n)
  BY <1>4 DEF CallsOK
<1>6. \A j \in DOMAIN q : j \in Nat
  OBVIOUS
<1>7. Live(t, i, v) \subseteq Live(q, k, w)
  <2>1. SUFFICES ASSUME NEW p \in Paths,
                        p \in OpenKeys(v) \/ \E j \in DOMAIN t : j < i /\ IsRead(t[j], p)
                 PROVE  p \in OpenKeys(w) \/ \E j \in DOMAIN q : j < k /\ IsRead(q[j], p)
    BY DEF Live
  <2>2. CASE p \in OpenKeys(v)
    <3>1. 1 < k
      BY <1>2, <1>4
    <3> QED
      BY <1>2, <2>2, <3>1 DEF NoNewButRead
  <2>3. ASSUME NEW j \in DOMAIN t, j < i, IsRead(t[j], p)
        PROVE  \E l \in DOMAIN q : l < k /\ IsRead(q[l], p)
    <3>1. PICK l \in DOMAIN q : l = j + 1 /\ t[j] = q[l] /\ j \in Nat
      BY <1>2
    <3>2. l < k
      BY <1>4, <2>3, <3>1
    <3> QED
      BY <2>3, <3>1, <3>2
  <2> QED
    BY <2>1, <2>2, <2>3
<1>8. ASSUME NEW j \in DOMAIN q, j > k
      PROVE  \E l \in DOMAIN t : l > i /\ t[l] = q[j]
  <2>1. j # 1
    BY <1>2, <1>4, <1>6, <1>8
  <2>2. PICK l \in DOMAIN t : l = j - 1 /\ t[l] = q[j]
    BY <1>2, <2>1
  <2>3. l > i
    BY <1>4, <1>6, <1>8, <2>2
  <2> QED
    BY <2>2, <2>3
<1>9. Later(q, k, d) \subseteq Later(t, i, d)
  BY <1>8 DEF Later
<1>10. ChangeLater(q, k) => ChangeLater(t, i)
  BY <1>8 DEF ChangeLater
<1>11. Change(t[i], Live(t, i, v), Later(q, k, d), Later(t, i, d), ChangeLater(t, i), v, d, d)
  BY <1>9, SameChange
<1>12. t[i] \in Calls
  BY <1>2
<1> HIDE DEF Live, Later, ChangeLater, CallOK, Change
<1>13. n <= n
  OBVIOUS
<1> QED
  BY <1>5, <1>7, <1>10, <1>11, <1>12, <1>13, CallStep

(* A call is sent.                                                         *)
AllLive(q, w) == {p \in Paths : p \in OpenKeys(w) \/ \E j \in DOMAIN q : IsRead(q[j], p)}

ChangedBy(c, q, w, d, e) ==
  \A p \in Paths :
    \/ e[p] = d[p]
    \/ Covers(c, p, e) /\ e[p] # None /\ (Dirty(w, p) => e[p] = w.editor[p].version)
    \/ c.kind = "changed" /\ p \notin AllLive(q, w)

LEMMA SentCalls ==
  ASSUME NEW q \in Seq(Calls), NEW c \in Calls, NEW w, NEW d \in Disks, NEW e \in Disks,
         NEW n \in Nat, NEW m \in Nat, n <= m,
         CallsOK(q, w, d, n), ChangedBy(c, q, w, d, e),
         CallOK(c, AllLive(q, w), {}, FALSE, w, e, m)
  PROVE  CallsOK(Append(q, c), w, e, m)
<1>1. PICK r : r = Append(q, c)
  OBVIOUS
<1>2. PICK l \in Nat :
        /\ DOMAIN q = 1 .. l /\ DOMAIN r = 1 .. (l + 1)
        /\ r \in Seq(Calls) /\ r[l + 1] = c /\ \A i \in 1 .. l : r[i] = q[i]
  BY <1>1, AppendIs
<1>3. ASSUME NEW i \in 1 .. l
      PROVE  CallOK(r[i], Live(r, i, w), Later(r, i, e), ChangeLater(r, i), w, e, m)
  <2>1. CallOK(r[i], Live(q, i, w), Later(q, i, d), ChangeLater(q, i), w, d, n)
    BY <1>2, <1>3 DEF CallsOK
  <2>2. l + 1 \in DOMAIN r /\ l + 1 > i /\ 1 .. l \subseteq 1 .. (l + 1)
    BY <1>2, <1>3
  <2>3. Live(r, i, w) \subseteq Live(q, i, w)
    <3>1. \A j \in DOMAIN r : j < i => j \in 1 .. l
      BY <1>2, <1>3
    <3> QED
      BY <1>2, <3>1 DEF Live
  <2>4. ChangeLater(q, i) => ChangeLater(r, i)
    BY <1>2, <2>2 DEF ChangeLater
  <2>5. c.kind = "changed" => ChangeLater(r, i)
    BY <1>2, <2>2 DEF ChangeLater
  <2>6. ASSUME NEW p \in Paths, e[p] = d[p], p \in Later(q, i, d)
        PROVE  p \in Later(r, i, e)
    <3>1. PICK j \in DOMAIN q : j > i /\ Covers(q[j], p, d)
      BY <2>6 DEF Later
    <3>2. j \in DOMAIN r /\ Covers(r[j], p, e)
      BY <1>2, <2>2, <2>6, <3>1 DEF Covers
    <3> QED
      BY <3>1, <3>2 DEF Later
  <2>7. ASSUME NEW p \in Paths, Covers(c, p, e)
        PROVE  p \in Later(r, i, e)
    BY <1>2, <2>2, <2>7 DEF Later
  <2>8. ASSUME NEW p \in Paths, p \notin AllLive(q, w)
        PROVE  p \notin Live(r, i, w) /\ p \notin OpenKeys(w) /\ ~IsRead(r[i], p)
    <3>1. i \in DOMAIN q
      BY <1>2
    <3>2. p \notin OpenKeys(w) /\ \A j \in DOMAIN q : ~IsRead(q[j], p)
      BY <2>8 DEF AllLive
    <3>3. p \notin Live(q, i, w)
      BY <3>2 DEF Live
    <3> QED
      BY <1>2, <2>3, <3>1, <3>2, <3>3
  <2>9. Change(r[i], Live(r, i, w), Later(q, i, d), Later(r, i, e), ChangeLater(r, i), w, d, e)
    BY <2>5, <2>6, <2>7, <2>8 DEF Change, ChangedBy
  <2>10. r[i] \in Calls
    BY <1>2, <1>3
  <2>11. Tame(w, w, n)
    BY DEF Tame
  <2> HIDE DEF Live, Later, ChangeLater, CallOK, Change
  <2> QED
    BY <2>1, <2>3, <2>4, <2>9, <2>10, <2>11, CallStep
<1>4. CallOK(r[l + 1], Live(r, l + 1, w), Later(r, l + 1, e), ChangeLater(r, l + 1), w, e, m)
  <2>1. Live(r, l + 1, w) \subseteq AllLive(q, w)
    <3>1. \A j \in DOMAIN r : j < l + 1 => j \in 1 .. l
      BY <1>2
    <3> QED
      BY <1>2, <3>1 DEF Live, AllLive
  <2>2. {} \subseteq Later(r, l + 1, e)
    OBVIOUS
  <2>3. Change(c, Live(r, l + 1, w), {}, Later(r, l + 1, e), ChangeLater(r, l + 1), w, e, e)
    BY <2>2, SameChange
  <2>4. Tame(w, w, m) /\ m <= m
    BY DEF Tame
  <2>5. PICK no : no = FALSE
    OBVIOUS
  <2>6. PICK none : none = {}
    OBVIOUS
  <2>7. CallOK(c, AllLive(q, w), none, no, w, e, m) /\ (no => ChangeLater(r, l + 1))
    BY <2>5, <2>6
  <2>8. Change(c, Live(r, l + 1, w), none, Later(r, l + 1, e), ChangeLater(r, l + 1), w, e, e)
    BY <2>3, <2>6
  <2> HIDE DEF Live, Later, ChangeLater, CallOK, Change, AllLive, Tame
  <2>9. CallOK(c, Live(r, l + 1, w), Later(r, l + 1, e), ChangeLater(r, l + 1), w, e, m)
    BY <2>1, <2>4, <2>7, <2>8, CallStep
  <2> QED
    BY <1>2, <2>9
<1>5. \A i \in DOMAIN r : i \in 1 .. l \/ i = l + 1
  BY <1>2
<1> QED
  BY <1>1, <1>3, <1>4, <1>5 DEF CallsOK

-----------------------------------------------------------------------------
(* The tabs that are reloaded.                                             *)
LEMMA FromZero ==
  ASSUME NEW S, 0 \in S, \A n \in Nat : n \in S => n + 1 \in S
  PROVE  \A n \in Nat : n \in S
<1> DEFINE missing == Nat \ S
<1>1. ASSUME missing # {} PROVE FALSE
  <2>1. PICK m \in missing : \A n \in missing : <<n, m>> \notin OpToRel(<, Nat)
    BY <1>1, NatLessThanWellFounded, WFMin
  <2>2. m # 0 /\ m - 1 \in Nat /\ m - 1 < m /\ m = (m - 1) + 1
    OBVIOUS
  <2>3. m - 1 \notin missing
    BY <2>1, <2>2 DEF OpToRel
  <2> QED
    BY <2>2, <2>3
<1> QED
  BY <1>1

Filters(f, s, changed, k) ==
  f = [i \in 0 .. k |-> IF i = 0 THEN <<>>
                        ELSE IF IsReloaded(s[i], changed) THEN Append(f[i - 1], s[i])
                        ELSE f[i - 1]]

LEMMA FiltersExist ==
  ASSUME NEW s, NEW changed, NEW k \in Nat
  PROVE  \E f : Filters(f, s, changed, k)
<1> DEFINE S == {n \in Nat : \E f : Filters(f, s, changed, n)}
<1>1. 0 \in S
  <2> DEFINE f == [i \in 0 .. 0 |-> <<>>]
  <2>1. Filters(f, s, changed, 0)
    BY DEF Filters
  <2> QED
    BY <2>1
<1>2. ASSUME NEW n \in Nat, n \in S PROVE n + 1 \in S
  <2>1. PICK f : Filters(f, s, changed, n)
    BY <1>2
  <2>2. PICK next : next = IF IsReloaded(s[n + 1], changed) THEN Append(f[n], s[n + 1]) ELSE f[n]
    OBVIOUS
  <2> DEFINE g == [i \in 0 .. (n + 1) |-> IF i = n + 1 THEN next ELSE f[i]]
  <2>3. ASSUME NEW i \in 0 .. (n + 1)
        PROVE  g[i] = IF i = 0 THEN <<>>
                      ELSE IF IsReloaded(s[i], changed) THEN Append(g[i - 1], s[i]) ELSE g[i - 1]
    <3>1. CASE i = n + 1
      <4>1. g[i] = next /\ i # 0 /\ i - 1 = n /\ g[i - 1] = f[n]
        BY <3>1
      <4> QED
        BY <2>2, <3>1, <4>1
    <3>2. CASE i \in 0 .. n
      <4>1. f[i] = IF i = 0 THEN <<>>
                   ELSE IF IsReloaded(s[i], changed) THEN Append(f[i - 1], s[i]) ELSE f[i - 1]
        BY <2>1, <3>2 DEF Filters
      <4>2. g[i] = f[i] /\ (i # 0 => g[i - 1] = f[i - 1])
        BY <3>2
      <4> QED
        BY <4>1, <4>2
    <3> QED
      BY <3>1, <3>2
  <2>4. Filters(g, s, changed, n + 1)
    <3> HIDE DEF g
    <3>1. DOMAIN g = 0 .. (n + 1) /\ g = [i \in DOMAIN g |-> g[i]]
      BY DEF g
    <3> QED
      BY <2>3, <3>1 DEF Filters
  <2> QED
    BY <2>4
<1> HIDE DEF S
<1>3. k \in S
  BY <1>1, <1>2, FromZero
<1> QED
  BY <1>3 DEF S

(* The tabs of s up to n that are reloaded.                                *)
TargetsOf(targets, s, n, changed) ==
  /\ targets \in Seq(Tabs)
  /\ \A t \in DOMAIN targets : \E i \in 1 .. n : targets[t] = s[i] /\ IsReloaded(s[i], changed)
  /\ \A i \in 1 .. n : IsReloaded(s[i], changed) => \E t \in DOMAIN targets : targets[t] = s[i]

LEMMA TargetsNext ==
  ASSUME NEW s \in Seq(Tabs), NEW changed, NEW n \in Nat, n + 1 \in DOMAIN s,
         NEW targets, TargetsOf(targets, s, n, changed),
         NEW next, next = IF IsReloaded(s[n + 1], changed) THEN Append(targets, s[n + 1]) ELSE targets
  PROVE  TargetsOf(next, s, n + 1, changed)
<1>1. \A i \in 1 .. (n + 1) : i \in 1 .. n \/ i = n + 1
  OBVIOUS
<1>2. 1 .. n \subseteq 1 .. (n + 1) /\ n + 1 \in 1 .. (n + 1)
  OBVIOUS
<1>3. targets \in Seq(Tabs)
  BY DEF TargetsOf
<1>4. CASE ~IsReloaded(s[n + 1], changed)
  BY <1>1, <1>2, <1>4 DEF TargetsOf
<1>5. CASE IsReloaded(s[n + 1], changed)
  <2>1. PICK tab \in Tabs : tab = s[n + 1]
    OBVIOUS
  <2>2. next = Append(targets, tab)
    BY <1>5, <2>1
  <2>3. PICK l \in Nat : l = Len(targets) /\ DOMAIN targets = 1 .. l
    BY <1>3
  <2>4. /\ DOMAIN next = 1 .. (l + 1) /\ next \in Seq(Tabs) /\ next[l + 1] = tab
        /\ \A t \in 1 .. l : next[t] = targets[t]
    BY <1>3, <2>2, <2>3
  <2>5. \A t \in 1 .. (l + 1) : t \in 1 .. l \/ t = l + 1
    OBVIOUS
  <2>6. ASSUME NEW t \in DOMAIN next
        PROVE  \E i \in 1 .. (n + 1) : next[t] = s[i] /\ IsReloaded(s[i], changed)
    <3>1. CASE t \in 1 .. l
      BY <1>2, <2>3, <2>4, <2>5, <3>1 DEF TargetsOf
    <3>2. CASE t = l + 1
      BY <1>2, <1>5, <2>1, <2>3, <2>4, <2>5, <3>2
    <3> QED
      BY <2>3, <2>4, <2>5, <3>1, <3>2
  <2>7. ASSUME NEW i \in 1 .. (n + 1), IsReloaded(s[i], changed)
        PROVE  \E t \in DOMAIN next : next[t] = s[i]
    <3>1. CASE i \in 1 .. n
      <4>1. PICK t \in 1 .. l : targets[t] = s[i]
        BY <2>3, <2>4, <2>5, <2>7, <3>1 DEF TargetsOf
      <4>2. t \in DOMAIN next
        BY <2>3, <2>4
      <4> QED
        BY <2>3, <2>4, <2>5, <4>1, <4>2
    <3>2. CASE i = n + 1
      <4>1. l + 1 \in DOMAIN next
        BY <2>3, <2>4
      <4> QED
        BY <2>1, <2>3, <2>4, <2>5, <3>2, <4>1
    <3> QED
      BY <1>1, <3>1, <3>2
  <2> QED
    BY <2>3, <2>4, <2>5, <2>6, <2>7 DEF TargetsOf
<1> QED
  BY <1>4, <1>5

LEMMA ReloadTargetsIs ==
  ASSUME NEW w \in TabWindows, NEW changed
  PROVE  TargetsOf(ReloadTargets(w, changed), w.tabs, Len(w.tabs), changed)
<1>1. PICK s \in Seq(Tabs) : s = w.tabs
  BY WindowFacts
<1>2. PICK k \in Nat : k = Len(s) /\ DOMAIN s = 1 .. k
  OBVIOUS
<1> DEFINE f == CHOOSE g : Filters(g, s, changed, k)
<1>3. Filters(f, s, changed, k)
  BY FiltersExist
<1>4. ReloadTargets(w, changed) = f[k]
  BY <1>1, <1>2 DEF ReloadTargets, Filters
<1> HIDE DEF f
<1>5. f[0] = <<>>
  BY <1>3 DEF Filters
<1>6. ASSUME NEW i \in Nat, i + 1 \in 1 .. k
      PROVE  f[i + 1] = IF IsReloaded(s[i + 1], changed) THEN Append(f[i], s[i + 1]) ELSE f[i]
  <2>1. i + 1 \in 0 .. k /\ i + 1 # 0 /\ (i + 1) - 1 = i
    BY <1>6
  <2> QED
    BY <1>3, <2>1 DEF Filters
<1> DEFINE S == {n \in Nat : n <= k => TargetsOf(f[n], s, n, changed)}
<1>7. 0 \in S
  <2>1. <<>> \in Seq(Tabs) /\ DOMAIN <<>> = {} /\ 1 .. 0 = {}
    OBVIOUS
  <2>2. TargetsOf(f[0], s, 0, changed)
    BY <1>5, <2>1 DEF TargetsOf
  <2> QED
    BY <2>2
<1>8. ASSUME NEW n \in Nat, n \in S PROVE n + 1 \in S
  <2>1. CASE n + 1 <= k
    <3>1. n + 1 \in 1 .. k /\ n <= k
      BY <2>1
    <3>2. TargetsOf(f[n], s, n, changed)
      BY <1>8, <3>1
    <3>3. f[n + 1] = IF IsReloaded(s[n + 1], changed) THEN Append(f[n], s[n + 1]) ELSE f[n]
      BY <1>6, <3>1
    <3>4. TargetsOf(f[n + 1], s, n + 1, changed)
      BY <1>2, <3>1, <3>2, <3>3, TargetsNext
    <3> QED
      BY <3>4
  <2>2. CASE ~(n + 1 <= k)
    BY <2>2
  <2> QED
    BY <2>1, <2>2
<1> HIDE DEF S
<1>9. k \in S
  BY <1>7, <1>8, FromZero
<1>10. TargetsOf(f[k], s, k, changed)
  BY <1>9 DEF S
<1> QED
  BY <1>1, <1>2, <1>4, <1>10

-----------------------------------------------------------------------------
(* The texts of the tabs against the disk.                                 *)
DiskOK(d, n) == \A p \in Paths : d[p] # None => d[p] <= n

TextOK(q, w, d, p) ==
  /\ d[p] # None
  /\ Dirty(w, p) \/ w.editor[p].version = d[p] \/ \E j \in DOMAIN q : CoversTab(q[j], p, d)

TextsOK(q, w, d, n) ==
  /\ \A k \in OpenKeys(w) : w.editor[k].version <= n
  /\ \A p \in Paths : p \in OpenKeys(w) => TextOK(q, w, d, p)

Returns(c) == (c.kind = "open" /\ c.version # None) \/ c.kind \in {"changed", "scan"}

Return(q, w) == Emptied(w) => \E i \in DOMAIN q : Returns(q[i])

Core(q, w, d, n) == Shape(w) /\ CallsOK(q, w, d, n) /\ DiskOK(d, n) /\ TextsOK(q, w, d, n)

Kept(q, w, d, n) == Core(q, w, d, n) /\ Return(q, w)

(* A text that has not been saved is still there.                          *)
Survives(v, w, d) ==
  \A k \in OpenKeys(w) : Dirty(w, k) /\ w.editor[k].version # d[k] =>
                           k \in OpenKeys(v) /\ v.editor[k] = w.editor[k]

(* The tabs of v are those of w, less closed ones, but for new text.       *)
Gentle(v, w, n, m) ==
  /\ OpenKeys(v) \subseteq OpenKeys(w)
  /\ \A k \in OpenKeys(v) :
       \/ v.editor[k] = w.editor[k] /\ (Dirty(v, k) <=> Dirty(w, k))
       \/ Dirty(v, k) /\ v.editor[k].version > n /\ v.editor[k].version <= m

LEMMA EditorTexts ==
  ASSUME NEW w \in TabWindows, Shape(w), NEW k \in OpenKeys(w)
  PROVE  /\ w.editor[k] \in TextSet /\ w.editor[k].of = k
         /\ w.editor[k].version \in Nat /\ w.editor[k] = Text(k, w.editor[k].version)
<1>1. PICK e \in Editors : e = w.editor
  BY WindowFacts
<1>2. k \in DOMAIN e /\ e[k].of = k
  BY <1>1, ShapeIs DEF EditorShape
<1>3. e[k] \in TextSet
  BY <1>2, EditorFacts
<1>4. PICK t \in TextSet : t = e[k]
  BY <1>3
<1>5. t.version \in Nat /\ t = [of |-> t.of, version |-> t.version]
  BY NoneIsNothing DEF TextSet
<1> QED
  BY <1>1, <1>2, <1>4, <1>5 DEF Text

LEMMA KeepCore ==
  ASSUME NEW q \in Seq(Calls), NEW w \in TabWindows, NEW v \in TabWindows, NEW d \in Disks,
         NEW n \in Nat, NEW m \in Nat, n <= m,
         Core(q, w, d, n), Shape(v), Gentle(v, w, n, m)
  PROVE  Core(q, v, d, m)
<1>1. NoNewPath(v, w)
  BY DEF NoNewPath, Gentle
<1>2. Tame(v, w, n)
  BY DEF Tame, Gentle, Dirty
<1>3. CallsOK(q, w, d, n)
  BY DEF Core
<1>4. CallsOK(q, v, d, m)
  BY <1>1, <1>2, <1>3, KeepCalls
<1>5. DiskOK(d, m)
  <2>1. SUFFICES ASSUME NEW p \in Paths, d[p] # None
                 PROVE  d[p] <= m
    BY DEF DiskOK
  <2>2. PICK x \in Nat : x = d[p]
    BY <2>1, NoneIsNothing DEF Disks
  <2>3. x <= n
    BY <2>1, <2>2 DEF Core, DiskOK
  <2>4. x <= m
    BY <2>3
  <2> QED
    BY <2>2, <2>4
<1>6. ASSUME NEW k \in OpenKeys(v)
      PROVE  v.editor[k].version <= m
  <2>1. k \in OpenKeys(w)
    BY DEF Gentle
  <2>2. w.editor[k].version \in Nat /\ w.editor[k].version <= n
    BY <2>1, EditorTexts DEF Core, TextsOK
  <2> QED
    BY <2>2 DEF Gentle
<1>7. ASSUME NEW p \in Paths, p \in OpenKeys(v)
      PROVE  TextOK(q, v, d, p)
  <2>1. p \in OpenKeys(w)
    BY <1>7 DEF Gentle
  <2>2. TextOK(q, w, d, p)
    BY <2>1 DEF Core, TextsOK
  <2> QED
    BY <1>7, <2>2 DEF TextOK, Gentle
<1> QED
  BY <1>4, <1>5, <1>6, <1>7 DEF Core, TextsOK

LEMMA SentCore ==
  ASSUME NEW q \in Seq(Calls), NEW c \in Calls, NEW w \in TabWindows,
         NEW d \in Disks, NEW e \in Disks, NEW n \in Nat, NEW m \in Nat, n <= m,
         Core(q, w, d, n), ChangedBy(c, q, w, d, e), DiskOK(e, m),
         CallOK(c, AllLive(q, w), {}, FALSE, w, e, m)
  PROVE  Core(Append(q, c), w, e, m)
<1>1. CallsOK(Append(q, c), w, e, m)
  BY SentCalls DEF Core
<1>2. PICK r : r = Append(q, c)
  OBVIOUS
<1>3. PICK l \in Nat :
        /\ DOMAIN q = 1 .. l /\ DOMAIN r = 1 .. (l + 1)
        /\ r \in Seq(Calls) /\ r[l + 1] = c /\ \A i \in 1 .. l : r[i] = q[i]
  BY <1>2, AppendIs
<1>4. 1 .. l \subseteq 1 .. (l + 1) /\ l + 1 \in 1 .. (l + 1)
  OBVIOUS
<1>5. ASSUME NEW k \in OpenKeys(w)
      PROVE  w.editor[k].version <= m
  <2>1. w.editor[k].version \in Nat /\ w.editor[k].version <= n
    BY EditorTexts DEF Core, TextsOK
  <2> QED
    BY <2>1
<1>6. ASSUME NEW p \in Paths, p \in OpenKeys(w)
      PROVE  TextOK(r, w, e, p)
  <2>1. TextOK(q, w, d, p)
    BY <1>6 DEF Core, TextsOK
  <2>2. CASE e[p] = d[p]
    <3>1. ASSUME NEW j \in DOMAIN q, CoversTab(q[j], p, d)
          PROVE  \E i \in DOMAIN r : CoversTab(r[i], p, e)
      <4>1. j \in DOMAIN r /\ r[j] = q[j]
        BY <1>3, <1>4
      <4>2. CoversTab(q[j], p, e)
        BY <2>2, <3>1 DEF CoversTab, Covers
      <4> QED
        BY <4>1, <4>2
    <3> QED
      BY <2>1, <2>2, <3>1 DEF TextOK
  <2>3. CASE Covers(c, p, e) /\ e[p] # None
    <3>1. l + 1 \in DOMAIN r /\ CoversTab(r[l + 1], p, e)
      BY <1>3, <1>4, <2>3 DEF CoversTab
    <3> QED
      BY <2>3, <3>1 DEF TextOK
  <2>4. p \in AllLive(q, w)
    BY <1>6 DEF AllLive
  <2> QED
    BY <2>2, <2>3, <2>4 DEF ChangedBy
<1> QED
  BY <1>1, <1>2, <1>5, <1>6 DEF Core, TextsOK

LEMMA SentReturn ==
  ASSUME NEW q \in Seq(Calls), NEW c \in Calls, NEW w, Return(q, w) \/ Returns(c)
  PROVE  Return(Append(q, c), w)
<1>1. PICK r : r = Append(q, c)
  OBVIOUS
<1>2. PICK l \in Nat :
        /\ DOMAIN q = 1 .. l /\ DOMAIN r = 1 .. (l + 1)
        /\ r[l + 1] = c /\ \A i \in 1 .. l : r[i] = q[i]
  BY <1>1, AppendIs
<1>3. 1 .. l \subseteq 1 .. (l + 1) /\ l + 1 \in 1 .. (l + 1)
  OBVIOUS
<1> QED
  BY <1>1, <1>2, <1>3 DEF Return

LEMMA TailCovers ==
  ASSUME NEW q \in Seq(Calls), q # <<>>, NEW p, NEW d, NEW j \in DOMAIN q, CoversTab(q[j], p, d)
  PROVE  CoversTab(Head(q), p, d) \/ \E i \in DOMAIN Tail(q) : CoversTab(Tail(q)[i], p, d)
BY TailIs

LEMMA TailLater ==
  ASSUME NEW q \in Seq(Calls), q # <<>>, NEW p, NEW d, p \in Later(q, 1, d)
  PROVE  \E i \in DOMAIN Tail(q) : CoversTab(Tail(q)[i], p, d)
<1>1. PICK j \in DOMAIN q : j > 1 /\ Covers(q[j], p, d)
  BY DEF Later
<1>2. j # 1
  BY <1>1
<1>3. j - 1 \in DOMAIN Tail(q) /\ Tail(q)[j - 1] = q[j]
  BY <1>2, TailIs
<1> QED
  BY <1>1, <1>3 DEF CoversTab

LEMMA TailReturns ==
  ASSUME NEW q \in Seq(Calls), q # <<>>, NEW w, NEW v, Return(q, w), ~Returns(Head(q)),
         Emptied(v) => Emptied(w)
  PROVE  Return(Tail(q), v)
<1>1. SUFFICES ASSUME NEW i \in DOMAIN q, Returns(q[i])
               PROVE  \E j \in DOMAIN Tail(q) : Returns(Tail(q)[j])
  BY DEF Return
<1>2. i # 1
  BY <1>1, TailIs
<1>3. i - 1 \in DOMAIN Tail(q) /\ Tail(q)[i - 1] = q[i]
  BY <1>2, TailIs
<1> QED
  BY <1>1, <1>3

(* A tab that a reply leaves alone.                                        *)
LEMMA PopText ==
  ASSUME NEW q \in Seq(Calls), q # <<>>, NEW w, NEW v, NEW d, NEW n, NEW p \in Paths,
         TextsOK(q, w, d, n), ~CoversTab(Head(q), p, d), p \in OpenKeys(w),
         v.editor[p] = w.editor[p], Dirty(w, p) => Dirty(v, p)
  PROVE  TextOK(Tail(q), v, d, p)
<1>1. TextOK(q, w, d, p)
  BY DEF TextsOK
<1> QED
  BY <1>1, TailCovers DEF TextOK

(* A reply that changes no tab.                                            *)
LEMMA PopCore ==
  ASSUME NEW q \in Seq(Calls), q # <<>>, NEW w \in TabWindows, NEW v \in TabWindows,
         NEW d \in Disks, NEW n \in Nat, Core(q, w, d, n), Shape(v),
         OpenKeys(v) \subseteq OpenKeys(w),
         \A k \in OpenKeys(v) : v.editor[k] = w.editor[k] /\ (Dirty(v, k) <=> Dirty(w, k)),
         \A p \in Paths : ~CoversTab(Head(q), p, d)
  PROVE  Core(Tail(q), v, d, n)
<1>1. NoNewButRead(v, w, Head(q))
  BY DEF NoNewButRead
<1>2. Tame(v, w, n)
  BY DEF Tame, Dirty
<1>3. CallsOK(Tail(q), v, d, n)
  BY <1>1, <1>2, PopCalls DEF Core
<1>4. \A k \in OpenKeys(v) : v.editor[k].version <= n
  BY DEF Core, TextsOK
<1>5. ASSUME NEW p \in Paths, p \in OpenKeys(v)
      PROVE  TextOK(Tail(q), v, d, p)
  <2>1. p \in OpenKeys(w) /\ v.editor[p] = w.editor[p] /\ (Dirty(w, p) => Dirty(v, p))
    BY <1>5
  <2>2. TextsOK(q, w, d, n)
    BY DEF Core
  <2> QED
    BY <2>1, <2>2, PopText
<1> QED
  BY <1>3, <1>4, <1>5 DEF Core, TextsOK

-----------------------------------------------------------------------------
(* Calls as they are sent.                                                 *)
IsOpenCall(c, p, x) == c \in Calls /\ c.kind = "open" /\ c.path = p /\ c.version = x

LEMMA OpenCall ==
  ASSUME NEW p \in Paths, NEW x \in Versions \union {None}
  PROVE  IsOpenCall([kind |-> "open", path |-> p, version |-> x], p, x)
<1>1. PICK c : c = [kind |-> "open", path |-> p, version |-> x]
  OBVIOUS
<1>2. c \in OpenCalls /\ c.kind = "open" /\ c.path = p /\ c.version = x
  BY <1>1 DEF OpenCalls
<1> QED
  BY <1>1, <1>2 DEF IsOpenCall, Calls

LEMMA SourceCall ==
  ASSUME NEW s \in Sources
  PROVE  LET c == [kind |-> "source", path |-> s] IN c \in Calls /\ c.kind = "source"
BY DEF SourceCalls, Calls

IsSaveCall(c, ok, close, sight) ==
  c \in Calls /\ c.kind = "save" /\ c.ok = ok /\ c.close = close /\ c.sight = sight

LEMMA SaveCall ==
  ASSUME NEW ok \in BOOLEAN, NEW close \in Perhaps, NEW sight \in Sights
  PROVE  IsSaveCall([kind |-> "save", ok |-> ok, close |-> close, sight |-> sight, left |-> <<>>],
                    ok, close, sight)
<1>1. PICK c : c = [kind |-> "save", ok |-> ok, close |-> close, sight |-> sight, left |-> <<>>]
  OBVIOUS
<1>2. c \in SaveCalls /\ c.kind = "save" /\ c.ok = ok /\ c.close = close /\ c.sight = sight
  BY <1>1 DEF SaveCalls
<1> QED
  BY <1>1, <1>2 DEF IsSaveCall, Calls

LEMMA ScanCall ==
  ASSUME NEW preferred \in Perhaps \union {"current"}, NEW files \in SUBSET Paths
  PROVE  LET c == [kind |-> "scan", preferred |-> preferred, files |-> files] IN
         c \in Calls /\ c.kind = "scan" /\ c.files = files
<1>1. PICK c : c = [kind |-> "scan", preferred |-> preferred, files |-> files]
  OBVIOUS
<1>2. c \in ScanCalls /\ c.kind = "scan" /\ c.files = files
  BY <1>1 DEF ScanCalls
<1> QED
  BY <1>1, <1>2 DEF Calls

LEMMA ChangedCall ==
  ASSUME NEW preferred \in Perhaps \union {"current"}, NEW from \in Perhaps
  PROVE  LET c == [kind |-> "changed", preferred |-> preferred, from |-> from] IN
         c \in Calls /\ c.kind = "changed"
<1>1. PICK c : c = [kind |-> "changed", preferred |-> preferred, from |-> from]
  OBVIOUS
<1>2. c \in ChangedCalls /\ c.kind = "changed"
  BY <1>1 DEF ChangedCalls
<1> QED
  BY <1>1, <1>2 DEF Calls

LEMMA ReplaceCall ==
  ASSUME NEW changed \in SUBSET Paths
  PROVE  LET c == [kind |-> "replace", changed |-> changed] IN
         c \in Calls /\ c.kind = "replace" /\ c.changed = changed
BY DEF ReplaceCalls, Calls

IsReloadCall(c, path, x, left, back, sight) ==
  /\ c \in Calls /\ c.kind = "reload" /\ c.path = path /\ c.version = x
  /\ c.left = left /\ c.back = back /\ c.sight = sight

LEMMA ReloadCall ==
  ASSUME NEW path \in Perhaps, NEW x \in Versions \union {None}, x # None => path \in Paths,
         NEW left \in Seq(Tabs), NEW back \in Perhaps, NEW sight \in Sights
  PROVE  IsReloadCall([kind |-> "reload", path |-> path, version |-> x,
                       left |-> left, back |-> back, sight |-> sight],
                      path, x, left, back, sight)
<1>1. PICK c : c = [kind |-> "reload", path |-> path, version |-> x,
                    left |-> left, back |-> back, sight |-> sight]
  OBVIOUS
<1>2. c \in ReloadCalls
  BY <1>1 DEF ReloadCalls
<1>3. /\ c.kind = "reload" /\ c.path = path /\ c.version = x
      /\ c.left = left /\ c.back = back /\ c.sight = sight
  BY <1>1
<1> QED
  BY <1>1, <1>2, <1>3 DEF IsReloadCall, Calls

LEMMA SameDisk ==
  ASSUME NEW c, NEW q, NEW w, NEW d
  PROVE  ChangedBy(c, q, w, d, d)
BY DEF ChangedBy

LEMMA ContentType ==
  ASSUME NEW w \in TabWindows, ShownOK(w)
  PROVE  /\ Content(w).version \in Versions /\ Sight(w) \in Sights
         /\ Sight(w)[1] = w.active /\ Sight(w)[2] = Content(w)
<1>1. PICK t : t = Content(w)
  OBVIOUS
<1>2. t \in [of : Perhaps, version : Versions]
  <2>1. CASE w.shown = None
    <3>1. t = [of |-> None, version |-> 0] /\ 0 \in Versions
      BY <1>1, <2>1, FileTabsAssumption DEF Content, Text, Versions
    <3> QED
      BY <3>1 DEF Perhaps
  <2>2. CASE w.shown # None
    <3>1. PICK e \in Editors : e = w.editor
      BY WindowFacts
    <3>2. w.shown \in DOMAIN e
      BY <2>2, <3>1 DEF ShownOK
    <3>3. t \in TextSet
      BY <1>1, <2>2, <3>1, <3>2, EditorFacts DEF Content
    <3> QED
      BY <3>3 DEF TextSet, Perhaps
  <2> QED
    BY <2>1, <2>2
<1>3. w.active \in Perhaps
  BY WindowFacts
<1>4. Sight(w) = <<w.active, t>>
  BY <1>1 DEF Sight
<1> QED
  BY <1>1, <1>2, <1>3, <1>4 DEF Sights

-----------------------------------------------------------------------------
(* The invariant and its steps.                                            *)
TypeInv ==
  /\ disk \in Disks /\ window \in TabWindows /\ ShownOK(window) /\ calls \in Seq(Calls)
  /\ newest \in Versions /\ raced \in BOOLEAN /\ spoilt \in BOOLEAN

Held == Kept(calls, window, disk, newest)

TabsInv == TypeInv /\ (~spoilt /\ ~raced => Held)

Fine == ~spoilt /\ ~raced

(* A step of the window.                                                   *)
LEMMA WindowIs ==
  ASSUME NEW w, spoilt \in BOOLEAN, Window(w)
  PROVE  window' = w /\ spoilt' \in BOOLEAN /\ (~spoilt' => ~spoilt /\ ~Spoils(w))
<1>1. window' = w /\ spoilt' = (spoilt \/ Spoils(w))
  BY DEF Window
<1>2. Spoils(w) \in BOOLEAN
  BY DEF Spoils
<1> QED
  BY <1>1, <1>2

LEMMA SelectTypes ==
  ASSUME NEW w \in TabWindows, ShownOK(w), NEW p \in Paths, NEW left \in Seq(Calls),
         disk \in Disks, spoilt \in BOOLEAN, SelectFile(w, p, left)
  PROVE  /\ window' \in TabWindows /\ ShownOK(window') /\ calls' \in Seq(Calls)
         /\ spoilt' \in BOOLEAN /\ (~spoilt' => ~spoilt)
<1> DEFINE open == {i \in DOMAIN w.tabs : w.tabs[i].path = p /\ ~w.tabs[i].readonly}
<1>1. CASE open = {}
  <2>1. Window(w) /\ calls' = Append(left, [kind |-> "open", path |-> p, version |-> disk[p]])
    BY <1>1 DEF SelectFile
  <2>2. PICK x \in Versions \union {None} : x = disk[p]
    BY DEF Disks
  <2>3. PICK c : c = [kind |-> "open", path |-> p, version |-> x]
    OBVIOUS
  <2>4. c \in Calls
    BY <2>3, OpenCall DEF IsOpenCall
  <2>5. calls' = Append(left, c)
    BY <2>1, <2>2, <2>3
  <2>6. calls' \in Seq(Calls)
    BY <2>4, <2>5
  <2> QED
    BY <2>1, <2>6, WindowIs
<1>2. CASE open # {}
  <2>1. PICK i \in open : i = CHOOSE n \in open : \A j \in open : n <= j
    <3>1. open \in SUBSET Nat
      BY TabsFacts
    <3> HIDE DEF open
    <3>2. \E n \in open : \A j \in open : n <= j
      BY <1>2, <3>1, LeastOf
    <3> QED
      BY <3>2
  <2>2. Window(SwitchToTab(w, w.tabs[i].key)) /\ calls' = left
    BY <1>2, <2>1 DEF SelectFile
  <2>3. PICK k : k = w.tabs[i].key
    OBVIOUS
  <2>4. k \in OpenKeys(w) /\ k \in Perhaps
    BY <2>3, TabsFacts DEF OpenKeys, Perhaps
  <2> QED
    BY <2>2, <2>3, <2>4, WindowIs, SwitchType
<1> QED
  BY <1>1, <1>2

(* What SelectFile makes of an unspoilt window.                            *)
LEMMA SelectKept ==
  ASSUME NEW w \in TabWindows, ShownOK(w), NEW p \in Paths, NEW left \in Seq(Calls),
         disk \in Disks, NEW n \in Nat, spoilt \in BOOLEAN, SelectFile(w, p, left),
         Core(left, w, disk, n), disk[p] # None \/ Return(left, w), ~spoilt'
  PROVE  /\ Kept(calls', window', disk, n)
         /\ OpenKeys(window') = OpenKeys(w) /\ \A k \in OpenKeys(w) : window'.editor[k] = w.editor[k]
<1> DEFINE open == {i \in DOMAIN w.tabs : w.tabs[i].path = p /\ ~w.tabs[i].readonly}
<1>0. Shape(w)
  BY DEF Core
<1>1. CASE open = {}
  <2>1. Window(w) /\ calls' = Append(left, [kind |-> "open", path |-> p, version |-> disk[p]])
    BY <1>1 DEF SelectFile
  <2>2. PICK x \in Versions \union {None} : x = disk[p]
    BY DEF Disks
  <2>3. PICK c : c = [kind |-> "open", path |-> p, version |-> x]
    OBVIOUS
  <2>4. IsOpenCall(c, p, x)
    BY <2>3, OpenCall
  <2>5. calls' = Append(left, c) /\ window' = w
    BY <2>1, <2>2, <2>3, WindowIs
  <2>6. CallOK(c, AllLive(left, w), {}, FALSE, w, disk, n)
    BY <2>2, <2>4 DEF IsOpenCall, CallOK, OpenOK, Core, DiskOK
  <2>7. DiskOK(disk, n) /\ n <= n /\ c \in Calls
    BY <2>4 DEF Core, IsOpenCall
  <2>8. Core(Append(left, c), w, disk, n)
    BY <2>6, <2>7, SameDisk, SentCore
  <2>9. Return(Append(left, c), w)
    <3>1. Returns(c) \/ Return(left, w)
      BY <2>2, <2>4 DEF IsOpenCall, Returns
    <3> QED
      BY <2>7, <3>1, SentReturn
  <2> QED
    BY <2>5, <2>8, <2>9 DEF Kept
<1>2. CASE open # {}
  <2>1. PICK i \in open : i = CHOOSE m \in open : \A j \in open : m <= j
    <3>1. open \in SUBSET Nat
      BY TabsFacts
    <3> HIDE DEF open
    <3>2. \E m \in open : \A j \in open : m <= j
      BY <1>2, <3>1, LeastOf
    <3> QED
      BY <3>2
  <2>2. Window(SwitchToTab(w, w.tabs[i].key)) /\ calls' = left
    BY <1>2, <2>1 DEF SelectFile
  <2>3. PICK k : k = w.tabs[i].key
    OBVIOUS
  <2>4. k \in OpenKeys(w)
    BY <2>3 DEF OpenKeys
  <2>5. PICK v : v = SwitchToTab(w, k)
    OBVIOUS
  <2>6. window' = v /\ ~Spoils(v)
    BY <2>2, <2>3, <2>5, WindowIs
  <2>7. /\ v \in TabWindows /\ Shape(v) /\ ~Emptied(v) /\ v.active = k
        /\ OpenKeys(v) = OpenKeys(w) /\ SameTabs(v, w, OpenKeys(w))
    BY <1>0, <2>4, <2>5, <2>6, SwitchShape
  <2>8. Gentle(v, w, n, n)
    BY <2>7 DEF Gentle, SameTabs, Alike, Dirty
  <2>9. n <= n
    OBVIOUS
  <2>10. Core(left, v, disk, n)
    BY <2>7, <2>8, <2>9, KeepCore
  <2>11. Return(left, v)
    BY <2>7 DEF Return
  <2> QED
    BY <2>2, <2>6, <2>7, <2>10, <2>11 DEF Kept, SameTabs
<1> QED
  BY <1>1, <1>2

-----------------------------------------------------------------------------
(* The steps of the user.                                                  *)
StepOK ==
  /\ TypeInv'
  /\ Fine' => Fine /\ (Held => Held' /\ Survives(window', window, disk))

LEMMA LiveOnDisk ==
  ASSUME NEW q, NEW w, NEW d, NEW n, Core(q, w, d, n), NEW p \in AllLive(q, w)
  PROVE  d[p] # None
<1>1. p \in Paths
  BY DEF AllLive
<1>2. CASE p \in OpenKeys(w)
  BY <1>1, <1>2 DEF Core, TextsOK, TextOK
<1>3. ASSUME NEW j \in DOMAIN q, IsRead(q[j], p)
      PROVE  d[p] # None
  BY <1>3 DEF Core, CallsOK, CallOK, OpenOK, IsRead
<1> QED
  BY <1>2, <1>3 DEF AllLive

LEMMA SameSurvives ==
  ASSUME NEW w, NEW d
  PROVE  Survives(w, w, d)
BY DEF Survives, Dirty

LEMMA NewestType ==
  ASSUME TypeInv
  PROVE  newest \in Nat /\ (newest < MaxVersion => newest + 1 \in Versions)
BY FileTabsAssumption DEF TypeInv, Versions

(* A call is sent and the window stays as it is.                           *)
Sends(c) ==
  /\ ChangedBy(c, calls, window, disk, disk') /\ DiskOK(disk', newest')
  /\ CallOK(c, AllLive(calls, window), {}, FALSE, window, disk', newest')

LEMMA SendStep ==
  ASSUME TypeInv, NEW c \in Calls, calls' = Append(calls, c), window' = window, raced' = raced,
         disk' \in Disks, newest' \in Versions, newest <= newest',
         spoilt' \in BOOLEAN, ~spoilt' => ~spoilt,
         Fine /\ ~spoilt' /\ Held => Sends(c)
  PROVE  StepOK
<1>1. calls' \in Seq(Calls)
  BY DEF TypeInv
<1>2. TypeInv'
  BY <1>1 DEF TypeInv
<1>3. ASSUME Fine'
      PROVE  Fine
  BY <1>3 DEF Fine
<1>4. ASSUME Fine', Held
      PROVE  Held' /\ Survives(window', window, disk)
  <2>1. Sends(c)
    BY <1>3, <1>4 DEF Fine
  <2>2. newest \in Nat /\ newest' \in Nat
    BY NoneIsNothing DEF TypeInv
  <2>3. Core(calls, window, disk, newest) /\ Return(calls, window)
    BY <1>4 DEF Held, Kept
  <2>4. Core(Append(calls, c), window, disk', newest')
    BY <2>1, <2>2, <2>3, SentCore DEF TypeInv, Sends
  <2>5. Return(Append(calls, c), window)
    BY <2>3, SentReturn DEF TypeInv
  <2>6. Held'
    BY <2>4, <2>5 DEF Held, Kept
  <2> QED
    BY <2>6, SameSurvives
<1> QED
  BY <1>2, <1>3, <1>4 DEF StepOK

LEMMA GoToSourceStep ==
  ASSUME TypeInv, NEW s \in Sources, GoToSource(s)
  PROVE  StepOK
<1>1. PICK c : c = [kind |-> "source", path |-> s]
  OBVIOUS
<1>2. c \in Calls /\ c.kind = "source"
  BY <1>1, SourceCall
<1>3. calls' = Append(calls, c) /\ UNCHANGED <<disk, window, newest, spoilt, raced>>
  BY <1>1 DEF GoToSource, UserActs
<1>4. Held => Sends(c)
  BY <1>2, <1>3, SameDisk DEF Sends, CallOK, Held, Kept, Core
<1>5. newest <= newest'
  BY <1>3, NewestType
<1> QED
  BY <1>2, <1>3, <1>4, <1>5, SendStep DEF TypeInv

FilesOf(d) == {p \in Paths : d[p] # None}

LEMMA ScanIsOK ==
  ASSUME NEW q, NEW w, NEW d, NEW n, Core(q, w, d, n), NEW c, c.kind = "scan", c.files = FilesOf(d)
  PROVE  CallOK(c, AllLive(q, w), {}, FALSE, w, d, n)
<1>1. AllLive(q, w) \subseteq FilesOf(d)
  BY LiveOnDisk DEF AllLive, FilesOf
<1>2. ScanOK(c, AllLive(q, w), FALSE, d)
  BY <1>1 DEF ScanOK, FilesOf
<1> QED
  BY <1>2 DEF CallOK

LEMMA RefreshProjectStep ==
  ASSUME TypeInv, RefreshProject
  PROVE  StepOK
<1>1. PICK c : c = [kind |-> "scan", preferred |-> "current", files |-> FilesOf(disk)]
  OBVIOUS
<1>2. c \in Calls /\ c.kind = "scan" /\ c.files = FilesOf(disk)
  <2>1. FilesOf(disk) \in SUBSET Paths
    BY DEF FilesOf
  <2> QED
    BY <1>1, <2>1, ScanCall
<1>3. calls' = Append(calls, c) /\ UNCHANGED <<disk, window, newest, spoilt, raced>>
  BY <1>1 DEF RefreshProject, Scan, UserActs, FilesOf
<1>4. Held => Sends(c)
  BY <1>2, <1>3, SameDisk, ScanIsOK DEF Sends, Held, Kept, Core
<1>5. newest <= newest'
  BY <1>3, NewestType
<1> QED
  BY <1>2, <1>3, <1>4, <1>5, SendStep DEF TypeInv

LEMMA ChangedIsSent ==
  ASSUME TypeInv, NEW c, c.kind = "changed", disk' \in Disks,
         newest' \in Versions, newest <= newest',
         \A p \in Paths : disk'[p] = disk[p] \/ p \notin AllLive(calls, window),
         \A p \in Paths : disk'[p] = newest' \/ disk'[p] = None \/ \E q \in Paths : disk'[p] = disk[q],
         Held
  PROVE  Sends(c)
<1>1. ChangedBy(c, calls, window, disk, disk')
  BY DEF ChangedBy
<1>2. ASSUME NEW p \in Paths, disk'[p] # None
      PROVE  disk'[p] <= newest'
  <2>1. newest \in Nat /\ newest' \in Nat
    BY NoneIsNothing DEF TypeInv
  <2>2. CASE disk'[p] = newest'
    BY <2>1, <2>2
  <2>3. ASSUME NEW q \in Paths, disk'[p] = disk[q]
        PROVE  disk'[p] <= newest'
    <3>1. PICK x \in Nat : x = disk[q]
      BY <1>2, <2>3, NoneIsNothing DEF TypeInv, Disks
    <3>2. x <= newest
      BY <1>2, <2>3, <3>1 DEF Held, Kept, Core, DiskOK
    <3>3. x <= newest'
      BY <2>1, <3>2
    <3> QED
      BY <2>3, <3>1, <3>3
  <2> QED
    BY <1>2, <2>2, <2>3
<1>3. DiskOK(disk', newest')
  BY <1>2 DEF DiskOK
<1>4. CallOK(c, AllLive(calls, window), {}, FALSE, window, disk', newest')
  BY DEF CallOK
<1> QED
  BY <1>1, <1>3, <1>4 DEF Sends

LEMMA CreateFileStep ==
  ASSUME TypeInv, NEW p \in Paths, CreateFile(p)
  PROVE  StepOK
<1>1. PICK c : c = [kind |-> "changed", preferred |-> p, from |-> None]
  OBVIOUS
<1>2. c \in Calls /\ c.kind = "changed"
  BY <1>1, ChangedCall DEF Perhaps, Keys
<1>3. PICK m : m = newest'
  OBVIOUS
<1>4. /\ calls' = Append(calls, c) /\ UNCHANGED <<window, spoilt, raced>>
      /\ disk' = [disk EXCEPT ![p] = m] /\ disk[p] = None /\ m = newest + 1 /\ newest < MaxVersion
  BY <1>1, <1>3 DEF CreateFile, UserActs, Ask
<1>5. newest \in Nat /\ m \in Versions /\ newest <= m
  BY <1>4, NewestType
<1>6. disk' \in Disks
  BY <1>4, <1>5 DEF TypeInv, Disks
<1>7. ASSUME Held
      PROVE  Sends(c)
  <2>1. p \notin AllLive(calls, window)
    BY <1>4, <1>7, LiveOnDisk DEF Held, Kept
  <2>2. \A x \in Paths : disk'[x] = IF x = p THEN m ELSE disk[x]
    BY <1>4 DEF TypeInv, Disks
  <2>3. \A x \in Paths : disk'[x] = disk[x] \/ x \notin AllLive(calls, window)
    BY <2>1, <2>2
  <2>4. \A x \in Paths : disk'[x] = m \/ disk'[x] = None \/ \E y \in Paths : disk'[x] = disk[y]
    BY <2>2
  <2> QED
    BY <1>2, <1>3, <1>5, <1>6, <1>7, <2>3, <2>4, ChangedIsSent
<1> QED
  BY <1>2, <1>3, <1>4, <1>5, <1>6, <1>7, SendStep DEF TypeInv

(* A path that IsOpen does not name is not in the window nor on its way.   *)
LEMMA NotOpen ==
  ASSUME Held, TypeInv, NEW p \in Paths, ~IsOpen(p)
  PROVE  p \notin AllLive(calls, window)
<1>1. p \notin OpenKeys(window)
  <2>1. SUFFICES ASSUME p \in OpenKeys(window)
                 PROVE  FALSE
    OBVIOUS
  <2>2. EntryOK(Entry(window, p), p)
    BY <2>1 DEF Held, Kept, Core, Shape, TabShape
  <2>3. Entry(window, p).path = p
    BY <2>2, FileTabsAssumption DEF EntryOK
  <2>4. \E i \in DOMAIN window.tabs : window.tabs[i].path = p
    BY <2>1, <2>3, TabAtIs DEF TypeInv
  <2> QED
    BY <2>4 DEF IsOpen
<1>2. \A j \in DOMAIN calls : ~IsRead(calls[j], p)
  BY DEF IsOpen, IsRead
<1> QED
  BY <1>1, <1>2 DEF AllLive

LEMMA SpoiltNow ==
  ASSUME NEW P, P \in BOOLEAN, spoilt \in BOOLEAN, spoilt' = (spoilt \/ P)
  PROVE  spoilt' \in BOOLEAN /\ (~spoilt' => ~spoilt /\ ~P)
OBVIOUS

LEMMA RenameFileStep ==
  ASSUME TypeInv, NEW p \in Paths, NEW q \in Paths, RenameFile(p, q)
  PROVE  StepOK
<1>1. PICK c : c = [kind |-> "changed", preferred |-> q, from |-> p]
  OBVIOUS
<1>2. c \in Calls /\ c.kind = "changed"
  BY <1>1, ChangedCall DEF Perhaps, Keys
<1>3. PICK text \in Versions \union {None} : text = disk[p]
  BY DEF TypeInv, Disks
<1>4. /\ calls' = Append(calls, c) /\ UNCHANGED <<window, newest, raced>>
      /\ disk' = [disk EXCEPT ![q] = text, ![p] = None] /\ disk[q] = None
      /\ spoilt' = (spoilt \/ IsOpen(p))
  BY <1>1, <1>3 DEF RenameFile, UserActs, Ask
<1>5. disk' \in Disks /\ \A x \in Paths : disk'[x] = IF x = p THEN None ELSE IF x = q THEN text ELSE disk[x]
  BY <1>4 DEF TypeInv, Disks
<1>6. spoilt' \in BOOLEAN /\ (~spoilt' => ~spoilt /\ ~IsOpen(p))
  <2>1. IsOpen(p) \in BOOLEAN
    BY DEF IsOpen
  <2> QED
    BY <1>4, <2>1, SpoiltNow DEF TypeInv
<1>7. ASSUME Held, ~spoilt'
      PROVE  Sends(c)
  <2>1. p \notin AllLive(calls, window)
    BY <1>6, <1>7, NotOpen
  <2>2. q \notin AllLive(calls, window)
    BY <1>4, <1>7, LiveOnDisk DEF Held, Kept
  <2>3. \A x \in Paths : disk'[x] = disk[x] \/ x \notin AllLive(calls, window)
    BY <1>5, <2>1, <2>2
  <2>4. \A x \in Paths : disk'[x] = newest' \/ disk'[x] = None \/ \E y \in Paths : disk'[x] = disk[y]
    BY <1>3, <1>5
  <2>5. newest' \in Versions /\ newest <= newest'
    BY <1>4, NewestType DEF TypeInv
  <2> QED
    BY <1>2, <1>5, <1>7, <2>3, <2>4, <2>5, ChangedIsSent
<1>8. newest' \in Versions /\ newest <= newest'
  BY <1>4, NewestType DEF TypeInv
<1> QED
  BY <1>2, <1>4, <1>5, <1>6, <1>7, <1>8, SendStep

LEMMA DeleteFileStep ==
  ASSUME TypeInv, NEW p \in Paths, DeleteFile(p)
  PROVE  StepOK
<1>1. PICK preferred \in Perhaps \union {"current"} :
        preferred = IF window.file = p THEN None ELSE "current"
  BY DEF Perhaps
<1>2. PICK c : c = [kind |-> "changed", preferred |-> preferred, from |-> None]
  OBVIOUS
<1>3. c \in Calls /\ c.kind = "changed"
  BY <1>2, ChangedCall DEF Perhaps
<1>4. /\ calls' = Append(calls, c) /\ UNCHANGED <<window, newest, raced>>
      /\ disk' = [disk EXCEPT ![p] = None] /\ spoilt' = (spoilt \/ IsOpen(p))
  BY <1>1, <1>2 DEF DeleteFile, UserActs, Ask
<1>5. disk' \in Disks /\ \A x \in Paths : disk'[x] = IF x = p THEN None ELSE disk[x]
  BY <1>4 DEF TypeInv, Disks
<1>6. spoilt' \in BOOLEAN /\ (~spoilt' => ~spoilt /\ ~IsOpen(p))
  <2>1. IsOpen(p) \in BOOLEAN
    BY DEF IsOpen
  <2> QED
    BY <1>4, <2>1, SpoiltNow DEF TypeInv
<1>7. newest' \in Versions /\ newest <= newest'
  BY <1>4, NewestType DEF TypeInv
<1>8. ASSUME Held, ~spoilt'
      PROVE  Sends(c)
  <2>1. p \notin AllLive(calls, window)
    BY <1>6, <1>8, NotOpen
  <2>2. \A x \in Paths : disk'[x] = disk[x] \/ x \notin AllLive(calls, window)
    BY <1>5, <2>1
  <2>3. \A x \in Paths : disk'[x] = newest' \/ disk'[x] = None \/ \E y \in Paths : disk'[x] = disk[y]
    BY <1>5
  <2> QED
    BY <1>3, <1>5, <1>7, <1>8, <2>2, <2>3, ChangedIsSent
<1> QED
  BY <1>3, <1>4, <1>5, <1>6, <1>7, <1>8, SendStep

LEMMA ReplaceStep ==
  ASSUME TypeInv, NEW changed \in SUBSET {p \in Paths : disk[p] # None},
         ReplaceProjectMatches(changed)
  PROVE  StepOK
<1>1. PICK c : c = [kind |-> "replace", changed |-> changed]
  OBVIOUS
<1>2. c \in Calls /\ c.kind = "replace" /\ c.changed = changed
  <2>1. changed \in SUBSET Paths
    OBVIOUS
  <2> QED
    BY <1>1, <2>1, ReplaceCall
<1>3. PICK m : m = newest'
  OBVIOUS
<1>4. /\ calls' = Append(calls, c) /\ UNCHANGED <<window, spoilt, raced>>
      /\ disk' = [p \in Paths |-> IF p \in changed THEN m ELSE disk[p]]
      /\ m = newest + 1 /\ newest < MaxVersion /\ \A i \in DOMAIN window.tabs : ~window.tabs[i].dirty
  BY <1>1, <1>3 DEF ReplaceProjectMatches, UserActs, Ask
<1>5. newest \in Nat /\ m \in Versions /\ newest <= m /\ m \in Nat /\ m # None
  BY <1>4, NewestType, NoneIsNothing
<1>6. disk' \in Disks /\ \A x \in Paths : disk'[x] = IF x \in changed THEN m ELSE disk[x]
  BY <1>4, <1>5 DEF TypeInv, Disks
<1>7. ASSUME Held
      PROVE  Sends(c)
  <2>1. ASSUME NEW p \in Paths
        PROVE  ~Dirty(window, p)
    BY <1>4, TabAtIs DEF Dirty, TypeInv
  <2>2. ChangedBy(c, calls, window, disk, disk')
    BY <1>2, <1>5, <1>6, <2>1 DEF ChangedBy, Covers
  <2>3. ASSUME NEW p \in Paths, disk'[p] # None
        PROVE  disk'[p] <= m
    <3>1. CASE p \in changed
      BY <1>5, <1>6, <3>1
    <3>2. CASE p \notin changed
      <4>1. PICK x \in Nat : x = disk[p]
        BY <1>6, <2>3, <3>2, NoneIsNothing DEF TypeInv, Disks
      <4>2. x <= newest
        BY <1>6, <1>7, <2>3, <3>2, <4>1 DEF Held, Kept, Core, DiskOK
      <4>3. x <= m
        BY <1>5, <4>2
      <4> QED
        BY <1>6, <3>2, <4>1, <4>3
    <3> QED
      BY <3>1, <3>2
  <2>4. DiskOK(disk', newest')
    BY <1>3, <2>3 DEF DiskOK
  <2>5. CallOK(c, AllLive(calls, window), {}, FALSE, window, disk', newest')
    BY <1>2 DEF CallOK
  <2> QED
    BY <2>2, <2>4, <2>5 DEF Sends
<1> QED
  BY <1>2, <1>3, <1>4, <1>5, <1>6, <1>7, SendStep DEF TypeInv

(* The window changes and nothing is sent.                                 *)
Moves(v) ==
  Shape(v) /\ Gentle(v, window, newest, newest') /\ (Emptied(v) => Emptied(window))

LEMMA WindowStep ==
  ASSUME TypeInv, NEW v, Window(v), v \in TabWindows, ShownOK(v),
         UNCHANGED <<disk, calls, raced>>, newest' \in Versions, newest <= newest',
         Fine /\ Held /\ ~Spoils(v) => Moves(v)
  PROVE  /\ TypeInv'
         /\ Fine' => Fine /\ ~Spoils(v) /\ (Held => Held')
<1>1. window' = v /\ spoilt' \in BOOLEAN /\ (~spoilt' => ~spoilt /\ ~Spoils(v))
  BY WindowIs DEF TypeInv
<1>2. TypeInv'
  BY <1>1 DEF TypeInv
<1>3. ASSUME Fine'
      PROVE  Fine /\ ~Spoils(v)
  BY <1>1, <1>3 DEF Fine
<1>4. ASSUME Fine', Held
      PROVE  Held'
  <2>1. Shape(v) /\ Gentle(v, window, newest, newest') /\ (Emptied(v) => Emptied(window))
    BY <1>3, <1>4 DEF Moves
  <2>2. newest \in Nat /\ newest' \in Nat
    BY NoneIsNothing DEF TypeInv
  <2>3. Core(calls, window, disk, newest) /\ Return(calls, window)
    BY <1>4 DEF Held, Kept
  <2>4. Core(calls, v, disk, newest')
    BY <2>1, <2>2, <2>3, KeepCore DEF TypeInv
  <2>5. Return(calls, v)
    BY <2>1, <2>3 DEF Return
  <2> QED
    BY <1>1, <2>4, <2>5 DEF Held, Kept
<1> QED
  BY <1>2, <1>3, <1>4

LEMMA GentleSwitch ==
  ASSUME NEW v, NEW w, NEW n, OpenKeys(v) = OpenKeys(w), SameTabs(v, w, OpenKeys(w))
  PROVE  Gentle(v, w, n, n)
BY DEF Gentle, SameTabs, Alike, Dirty

LEMMA UserSwitchesTabStep ==
  ASSUME TypeInv, NEW k \in Keys, UserSwitchesTab(k)
  PROVE  StepOK
<1>1. k \in OpenKeys(window) /\ Window(SwitchToTab(window, k)) /\ UNCHANGED <<disk, calls, newest, raced>>
  BY HasTabIs DEF UserSwitchesTab, UserActs
<1>2. PICK v : v = SwitchToTab(window, k)
  OBVIOUS
<1>3. v \in TabWindows /\ ShownOK(v)
  BY <1>2, SwitchType DEF TypeInv, Perhaps
<1>4. ASSUME Held, ~Spoils(v)
      PROVE  /\ Shape(v) /\ ~Emptied(v)
             /\ OpenKeys(v) = OpenKeys(window) /\ SameTabs(v, window, OpenKeys(window))
  BY <1>1, <1>2, <1>4, SwitchShape DEF TypeInv, Held, Kept, Core
<1>5. newest' = newest /\ newest' \in Versions /\ newest <= newest'
  BY <1>1, NewestType DEF TypeInv
<1>6. /\ TypeInv'
      /\ Fine' => Fine /\ ~Spoils(v) /\ (Held => Held')
  BY <1>1, <1>2, <1>3, <1>4, <1>5, GentleSwitch, WindowStep DEF Moves
<1>7. window' = v
  BY <1>1, <1>2 DEF Window
<1>8. ASSUME Held, ~Spoils(v)
      PROVE  Survives(window', window, disk)
  BY <1>4, <1>7, <1>8 DEF Survives, SameTabs
<1> QED
  BY <1>6, <1>8 DEF StepOK

LEMMA GentleClose ==
  ASSUME NEW v, NEW w, NEW n, NEW k, OpenKeys(v) = OpenKeys(w) \ {k}, SameTabs(v, w, OpenKeys(v))
  PROVE  Gentle(v, w, n, n)
BY DEF Gentle, SameTabs, Alike, Dirty

(* The text of the tab is lost if it has changes: the user gives them up.  *)
LEMMA CloseIfStep ==
  ASSUME TypeInv, NEW k \in Keys, NEW asked \in BOOLEAN, CloseIf(k, asked)
  PROVE  /\ TypeInv'
         /\ Fine' => Fine /\ (Held => Held' /\ \A j \in OpenKeys(window) \ {k} :
                                j \in OpenKeys(window') /\ window'.editor[j] = window.editor[j])
<1>1. k \in OpenKeys(window) /\ Window(Close(window, k)) /\ UNCHANGED <<disk, calls, newest, raced>>
  BY HasTabIs DEF CloseIf, UserActs
<1>2. PICK v : v = Close(window, k)
  OBVIOUS
<1>3. v \in TabWindows /\ ShownOK(v)
  BY <1>1, <1>2, CloseType DEF TypeInv
<1>4. ASSUME Held
      PROVE  /\ Shape(v) /\ (Emptied(v) => Emptied(window))
             /\ OpenKeys(v) = OpenKeys(window) \ {k} /\ SameTabs(v, window, OpenKeys(v))
  BY <1>1, <1>2, <1>4, CloseShape DEF TypeInv, Held, Kept, Core
<1>5. newest' = newest /\ newest' \in Versions /\ newest <= newest'
  BY <1>1, NewestType DEF TypeInv
<1>6. /\ TypeInv'
      /\ Fine' => Fine /\ ~Spoils(v) /\ (Held => Held')
  BY <1>1, <1>2, <1>3, <1>4, <1>5, GentleClose, WindowStep DEF Moves
<1>7. window' = v
  BY <1>1, <1>2 DEF Window
<1>8. ASSUME Held
      PROVE  \A j \in OpenKeys(window) \ {k} :
               j \in OpenKeys(window') /\ window'.editor[j] = window.editor[j]
  BY <1>4, <1>7, <1>8 DEF SameTabs
<1> QED
  BY <1>6, <1>8

LEMMA CloseTabStep ==
  ASSUME TypeInv, NEW k \in Keys, CloseTab(k)
  PROVE  StepOK
<1>1. CloseIf(k, FALSE) /\ FALSE \in BOOLEAN
  BY DEF CloseTab
<1>2. /\ TypeInv'
      /\ Fine' => Fine /\ (Held => Held' /\ \A j \in OpenKeys(window) \ {k} :
                             j \in OpenKeys(window') /\ window'.editor[j] = window.editor[j])
  BY <1>1, CloseIfStep
<1>3. Entry(window, k).dirty = FALSE
  BY DEF CloseTab, CloseIf, AsksToSave
<1>4. ~Dirty(window, k)
  BY <1>3 DEF Dirty
<1> QED
  BY <1>2, <1>4 DEF StepOK, Survives

(* What is typed goes into the active tab.                                 *)
LEMMA TypeStep ==
  ASSUME TypeInv, Type
  PROVE  TypeInv' /\ (Fine' => Fine /\ (Held => Held'))
<1>1. PICK k : k = window.shown
  OBVIOUS
<1>2. PICK m : m = newest + 1
  OBVIOUS
<1>3. PICK old : old = window.editor[k]
  OBVIOUS
<1>4. PICK text : text = [old EXCEPT !.version = m]
  OBVIOUS
<1>5. PICK x : x = SetContent(window, text)
  OBVIOUS
<1>6. PICK yes \in BOOLEAN : yes = TRUE
  OBVIOUS
<1>7. PICK v : v = SetDirty(x, yes)
  OBVIOUS
<1>8. /\ k \in Paths /\ newest < MaxVersion /\ newest' = m /\ Window(v)
      /\ UNCHANGED <<disk, calls, raced>>
  BY <1>1, <1>2, <1>3, <1>4, <1>5, <1>6, <1>7 DEF Type, UserActs
<1>9. newest \in Nat /\ m \in Versions /\ m \in Nat /\ newest <= m /\ m > newest /\ m <= m
  BY <1>2, <1>8, NewestType
<1>10. k \in DOMAIN window.editor
  BY <1>1, <1>8, FileTabsAssumption DEF TypeInv, ShownOK
<1>11. old \in TextSet
  BY <1>3, <1>10, WindowFacts, EditorFacts DEF TypeInv
<1>12. text \in TextSet /\ text.of = old.of /\ text.version = m
  BY <1>4, <1>9, <1>11 DEF TextSet
<1>13. x \in TabWindows /\ ShownOK(x)
  <2>1. Screen(x, window, window.active, WithText(window.editor, k, text), k)
    BY <1>1, <1>5, <1>10, <1>12, SetContentIs DEF TypeInv
  <2>2. k \in DOMAIN WithText(window.editor, k, text)
    BY DEF WithText
  <2> QED
    BY <2>1, <2>2 DEF Screen, ShownOK
<1>14. v \in TabWindows /\ ShownOK(v)
  BY <1>7, <1>13, SetDirtyType
<1>15. ASSUME Held
       PROVE  /\ Shape(v) /\ Gentle(v, window, newest, m)
              /\ Emptied(v) => Emptied(window)
  <2>1. Shape(window)
    BY <1>15 DEF Held, Kept, Core
  <2>2. k \in OpenKeys(window)
    BY <1>10, <2>1, ShapeIs DEF EditorShape
  <2>3. old.of = k
    BY <1>3, <2>1, <2>2, ShapeIs DEF EditorShape
  <2>4. window.active = k
    <3>1. EntryOK(Entry(window, k), k)
      BY <2>1, <2>2, ShapeIs DEF TabShape
    <3>2. ~Entry(window, k).readonly
      BY <1>8, <3>1, FileTabsAssumption DEF EntryOK
    <3> QED
      BY <1>1, <2>1, <2>2, <3>2, ShapeIs DEF RootShape
  <2>5. /\ x \in TabWindows /\ Shape(x) /\ (Emptied(x) <=> Emptied(window))
        /\ x.active = k
        /\ OpenKeys(x) = OpenKeys(window) /\ Alike(x, window, OpenKeys(window))
        /\ \A j \in OpenKeys(window) : x.editor[j] = IF j = k THEN text ELSE window.editor[j]
    BY <1>1, <1>5, <1>10, <1>12, <2>1, <2>3, <2>4, SetContentShape DEF TypeInv
  <2>6. /\ Shape(v) /\ (Emptied(v) <=> Emptied(x)) /\ v.editor = x.editor
        /\ OpenKeys(v) = OpenKeys(x)
        /\ \A j \in OpenKeys(x) : Dirty(v, j) <=> IF j = k THEN yes ELSE Dirty(x, j)
    BY <1>7, <1>8, <2>5, SetDirtyShape
  <2>7. ASSUME NEW j \in OpenKeys(v)
        PROVE  \/ v.editor[j] = window.editor[j] /\ (Dirty(v, j) <=> Dirty(window, j))
               \/ Dirty(v, j) /\ v.editor[j].version > newest /\ v.editor[j].version <= m
    <3>1. CASE j = k
      <4>1. Dirty(v, j)
        BY <1>6, <2>5, <2>6, <3>1
      <4>2. v.editor[j] = text
        BY <2>5, <2>6, <3>1
      <4> QED
        BY <1>9, <1>12, <4>1, <4>2
    <3>2. CASE j # k
      <4>1. Dirty(x, j) <=> Dirty(window, j)
        BY <2>5, <2>6 DEF Dirty, Alike
      <4> QED
        BY <2>5, <2>6, <3>2, <4>1
    <3> QED
      BY <3>1, <3>2
  <2> QED
    BY <2>5, <2>6, <2>7 DEF Gentle
<1> QED
  BY <1>8, <1>9, <1>14, <1>15, WindowStep DEF Moves

LEMMA UserSelectsFileStep ==
  ASSUME TypeInv, NEW p \in Paths, UserSelectsFile(p)
  PROVE  StepOK
<1>1. disk[p] # None /\ SelectFile(window, p, calls) /\ UNCHANGED <<disk, newest, raced>>
  BY DEF UserSelectsFile, UserActs
<1>2. /\ window' \in TabWindows /\ ShownOK(window') /\ calls' \in Seq(Calls)
      /\ spoilt' \in BOOLEAN /\ (~spoilt' => ~spoilt)
  BY <1>1, SelectTypes DEF TypeInv
<1>3. TypeInv'
  BY <1>1, <1>2 DEF TypeInv
<1>4. ASSUME Fine'
      PROVE  Fine
  BY <1>1, <1>2, <1>4 DEF Fine
<1>5. ASSUME Fine', Held
      PROVE  Held' /\ Survives(window', window, disk)
  <2>1. Core(calls, window, disk, newest) /\ newest \in Nat /\ ~spoilt'
    BY <1>5, NewestType DEF Held, Kept, Fine
  <2>2. /\ Kept(calls', window', disk, newest)
        /\ OpenKeys(window') = OpenKeys(window)
        /\ \A k \in OpenKeys(window) : window'.editor[k] = window.editor[k]
    BY <1>1, <2>1, SelectKept DEF TypeInv
  <2> QED
    BY <1>1, <2>2 DEF Held, Survives
<1> QED
  BY <1>3, <1>4, <1>5 DEF StepOK

(* What is saved is the text of the file in the active tab.                *)
LEMMA SaveRoot ==
  ASSUME NEW w \in TabWindows, Shape(w), CanSave(w)
  PROVE  /\ w.file \in Paths /\ w.file \in OpenKeys(w) /\ w.active = w.file
         /\ Content(w) = w.editor[w.file] /\ Content(w).of = w.file
<1>1. w.file # None /\ ~w.readonly
  BY DEF CanSave
<1>2. w.active \in OpenKeys(w) /\ w.shown = w.active /\ RootIs(w, Entry(w, w.active)) /\ w.active # None
  BY <1>1, ShapeIs DEF RootShape
<1>3. EntryOK(Entry(w, w.active), w.active)
  BY <1>2, ShapeIs DEF TabShape
<1>4. w.file = w.active /\ w.active \in Paths
  BY <1>1, <1>2, <1>3 DEF RootIs, EntryOK
<1>5. Content(w) = w.editor[w.active]
  BY <1>2 DEF Content
<1> QED
  BY <1>2, <1>4, <1>5, EditorTexts

SaveSent(c, w, close) ==
  \E ok \in IF w.file \in Paths THEN BOOLEAN ELSE {FALSE} :
    /\ disk' = IF ok THEN [disk EXCEPT ![w.file] = Content(w).version] ELSE disk
    /\ IsSaveCall(c, ok, close, Sight(w))

LEMMA SaveIs ==
  ASSUME TypeInv, NEW w \in TabWindows, ShownOK(w), NEW close \in Perhaps, Save(w, close)
  PROVE  /\ CanSave(w) /\ Window(w) /\ disk' \in Disks
         /\ \E c \in Calls : calls' = Append(calls, c) /\ SaveSent(c, w, close)
<1>1. PICK ok \in IF w.file \in Paths THEN BOOLEAN ELSE {FALSE} :
        /\ disk' = IF ok THEN [disk EXCEPT ![w.file] = Content(w).version] ELSE disk
        /\ calls' = Append(calls, [kind |-> "save", ok |-> ok, close |-> close,
                                   sight |-> Sight(w), left |-> <<>>])
  BY DEF Save
<1>2. ok \in BOOLEAN
  BY <1>1
<1>3. Content(w).version \in Versions /\ Sight(w) \in Sights
  BY ContentType
<1>4. PICK c : c = [kind |-> "save", ok |-> ok, close |-> close, sight |-> Sight(w), left |-> <<>>]
  OBVIOUS
<1>5. IsSaveCall(c, ok, close, Sight(w))
  BY <1>2, <1>3, <1>4, SaveCall
<1>6. c \in Calls /\ SaveSent(c, w, close)
  BY <1>1, <1>5 DEF SaveSent, IsSaveCall
<1>7. disk' \in Disks
  <2>1. CASE ok
    <3>1. PICK x \in Versions : x = Content(w).version
      BY <1>3
    <3>2. disk' = [disk EXCEPT ![w.file] = x]
      BY <1>1, <2>1, <3>1
    <3> QED
      BY <3>2 DEF TypeInv, Disks
  <2>2. CASE ~ok
    BY <1>1, <2>2 DEF TypeInv
  <2> QED
    BY <2>1, <2>2
<1> QED
  BY <1>1, <1>4, <1>6, <1>7 DEF Save

LEMMA SaveKept ==
  ASSUME NEW w \in TabWindows, ShownOK(w), NEW close, NEW c \in Calls,
         disk \in Disks, disk' \in Disks, NEW q \in Seq(Calls), NEW n \in Nat,
         CanSave(w), SaveSent(c, w, close), Core(q, w, disk, n), close \in {None, w.active}
  PROVE  Core(Append(q, c), w, disk', n)
<1>1. PICK ok \in IF w.file \in Paths THEN BOOLEAN ELSE {FALSE} :
        /\ disk' = IF ok THEN [disk EXCEPT ![w.file] = Content(w).version] ELSE disk
        /\ IsSaveCall(c, ok, close, Sight(w))
  BY DEF SaveSent
<1>2. c.kind = "save" /\ c.ok = ok /\ c.close = close /\ c.sight = Sight(w)
  BY <1>1 DEF IsSaveCall
<1>3. n <= n
  OBVIOUS
<1>4. CASE ~ok
  <2>1. disk' = disk
    BY <1>1, <1>4
  <2>2. CallOK(c, AllLive(q, w), {}, FALSE, w, disk, n)
    BY <1>2, <1>4 DEF CallOK, SaveOK
  <2>3. DiskOK(disk, n)
    BY DEF Core
  <2> QED
    BY <1>3, <2>1, <2>2, <2>3, SameDisk, SentCore
<1>5. CASE ok
  <2>1. PICK p : p = w.file
    OBVIOUS
  <2>2. PICK text : text = Content(w)
    OBVIOUS
  <2>3. Shape(w)
    BY DEF Core
  <2>4. /\ p \in Paths /\ p \in OpenKeys(w) /\ w.active = p
        /\ text = w.editor[p] /\ text.of = p
    BY <2>1, <2>2, <2>3, SaveRoot
  <2>5. text.version \in Nat /\ text = Text(p, text.version)
    BY <2>3, <2>4, EditorTexts
  <2>6. PICK x \in Nat : x = text.version
    BY <2>5
  <2>7. disk' = [disk EXCEPT ![p] = x]
    BY <1>1, <1>5, <2>1, <2>2, <2>6
  <2>8. \A y \in Paths : disk'[y] = IF y = p THEN x ELSE disk[y]
    BY <2>7 DEF Disks
  <2>9. Sight(w) = <<p, text>> /\ Sight(w)[1] = p /\ Sight(w)[2] = text
    BY <2>2, <2>4 DEF Sight
  <2>10. x # None
    BY FileTabsAssumption
  <2>11. Covers(c, p, disk')
    BY <1>2, <1>5, <2>4, <2>5, <2>6, <2>8, <2>9 DEF Covers
  <2>12. ChangedBy(c, q, w, disk, disk')
    <3>1. ASSUME NEW y \in Paths
          PROVE  \/ disk'[y] = disk[y]
                 \/ Covers(c, y, disk') /\ disk'[y] # None /\ (Dirty(w, y) => disk'[y] = w.editor[y].version)
      <4>1. CASE y = p
        BY <2>4, <2>6, <2>8, <2>10, <2>11, <4>1
      <4>2. CASE y # p
        BY <2>8, <4>2
      <4> QED
        BY <4>1, <4>2
    <3> QED
      BY <3>1 DEF ChangedBy
  <2>13. x <= n
    BY <2>4, <2>6 DEF Core, TextsOK
  <2>14. DiskOK(disk', n)
    BY <2>8, <2>13 DEF Core, DiskOK
  <2>15. SaveOK(c, AllLive(q, w), {}, w, disk', n)
    BY <1>2, <2>4, <2>6, <2>8, <2>9, <2>13 DEF SaveOK
  <2>16. CallOK(c, AllLive(q, w), {}, FALSE, w, disk', n)
    BY <1>2, <2>15 DEF CallOK
  <2> QED
    BY <1>3, <2>12, <2>14, <2>16, SentCore
<1> QED
  BY <1>4, <1>5

LEMMA SaveCurrentFileStep ==
  ASSUME TypeInv, SaveCurrentFile
  PROVE  StepOK
<1>1. Save(window, None) /\ newest' = newest /\ raced' = raced /\ None \in Perhaps
  BY DEF SaveCurrentFile, UserActs, Perhaps
<1>2. CanSave(window) /\ Window(window) /\ disk' \in Disks
  BY <1>1, SaveIs DEF TypeInv
<1>3. PICK c \in Calls : calls' = Append(calls, c) /\ SaveSent(c, window, None)
  BY <1>1, SaveIs DEF TypeInv
<1>4. window' = window /\ spoilt' \in BOOLEAN /\ (~spoilt' => ~spoilt)
  BY <1>2, WindowIs DEF TypeInv
<1>5. calls' \in Seq(Calls)
  BY <1>3 DEF TypeInv
<1>6. TypeInv'
  BY <1>1, <1>2, <1>4, <1>5 DEF TypeInv
<1>7. ASSUME Held
      PROVE  Held' /\ Survives(window', window, disk)
  <2>1. Core(calls, window, disk, newest) /\ Return(calls, window)
    BY <1>7 DEF Held, Kept
  <2>2. newest \in Nat
    BY NewestType
  <2>3. Core(Append(calls, c), window, disk', newest)
    BY <1>2, <1>3, <2>1, <2>2, SaveKept DEF TypeInv
  <2>4. Return(Append(calls, c), window)
    BY <2>1, SentReturn DEF TypeInv
  <2>5. Held'
    BY <1>1, <1>3, <1>4, <2>3, <2>4 DEF Held, Kept
  <2> QED
    BY <1>4, <2>5, SameSurvives
<1> QED
  BY <1>1, <1>4, <1>6, <1>7 DEF StepOK, Fine

LEMMA FrontShape ==
  ASSUME NEW w \in TabWindows, Shape(w), NEW k \in OpenKeys(w), ~Spoils(BringToFront(w, k)),
         CanSave(BringToFront(w, k))
  PROVE  LET v == BringToFront(w, k) IN
         /\ v \in TabWindows /\ Shape(v) /\ ~Emptied(v) /\ v.active = k
         /\ OpenKeys(v) = OpenKeys(w) /\ SameTabs(v, w, OpenKeys(w))
<1>1. CASE w.active = k
  BY <1>1 DEF BringToFront, CanSave, Emptied, SameTabs, Alike
<1>2. CASE w.active # k
  BY <1>2, SwitchShape DEF BringToFront
<1> QED
  BY <1>1, <1>2

LEMMA SaveAndCloseTabStep ==
  ASSUME TypeInv, NEW k \in Keys, SaveAndCloseTab(k)
  PROVE  StepOK
<1>1. PICK v : v = BringToFront(window, k)
  OBVIOUS
<1>2. /\ k \in OpenKeys(window) /\ Save(v, k) /\ newest' = newest /\ raced' = raced /\ k \in Perhaps
  BY <1>1, HasTabIs DEF SaveAndCloseTab, UserActs, Perhaps
<1>3. v \in TabWindows /\ ShownOK(v)
  BY <1>1, <1>2, SwitchType DEF TypeInv, BringToFront
<1>4. CanSave(v) /\ Window(v) /\ disk' \in Disks
  BY <1>2, <1>3, SaveIs
<1>5. PICK c \in Calls : calls' = Append(calls, c) /\ SaveSent(c, v, k)
  BY <1>2, <1>3, SaveIs
<1>6. window' = v /\ spoilt' \in BOOLEAN /\ (~spoilt' => ~spoilt /\ ~Spoils(v))
  BY <1>4, WindowIs DEF TypeInv
<1>7. calls' \in Seq(Calls)
  BY <1>5 DEF TypeInv
<1>8. TypeInv'
  BY <1>2, <1>3, <1>4, <1>6, <1>7 DEF TypeInv
<1>9. ASSUME Held, ~spoilt'
      PROVE  Held' /\ Survives(window', window, disk)
  <2>1. Core(calls, window, disk, newest) /\ Shape(window)
    BY <1>9 DEF Held, Kept, Core
  <2>2. newest \in Nat /\ newest <= newest
    BY NewestType
  <2>3. /\ Shape(v) /\ ~Emptied(v) /\ v.active = k
        /\ OpenKeys(v) = OpenKeys(window) /\ SameTabs(v, window, OpenKeys(window))
    BY <1>1, <1>2, <1>4, <1>6, <1>9, <2>1, FrontShape DEF TypeInv
  <2>4. Core(calls, v, disk, newest)
    BY <1>3, <2>1, <2>2, <2>3, GentleSwitch, KeepCore DEF TypeInv
  <2>5. Core(Append(calls, c), v, disk', newest)
    BY <1>3, <1>4, <1>5, <2>2, <2>3, <2>4, SaveKept DEF TypeInv
  <2>6. Held'
    BY <1>2, <1>5, <1>6, <2>3, <2>5 DEF Held, Kept, Return
  <2> QED
    BY <1>6, <2>3, <2>6 DEF Survives, SameTabs
<1> QED
  BY <1>2, <1>6, <1>8, <1>9 DEF StepOK, Fine

-----------------------------------------------------------------------------
(* A project is opened.                                                    *)
LEMMA NoFilesIs ==
  ASSUME NEW project \in {1, 2}
  PROVE  LET w == NoFiles(project) IN
         /\ w \in TabWindows /\ ShownOK(w) /\ Shape(w) /\ ~Emptied(w) /\ OpenKeys(w) = {}
<1>1. PICK none \in Perhaps : none = None
  BY DEF Perhaps
<1>2. PICK no \in BOOLEAN : no = FALSE
  OBVIOUS
<1>3. PICK tabs \in Seq(Tabs) : tabs = <<>> /\ DOMAIN tabs = {}
  <2>1. <<>> \in Seq(Tabs) /\ DOMAIN <<>> = {}
    OBVIOUS
  <2> QED
    BY <2>1, Zenon
<1>4. PICK editor : editor = <<>>
  OBVIOUS
<1>5. DOMAIN editor = {} /\ editor \in Editors
  <2>1. DOMAIN editor = {}
    BY <1>4
  <2>2. editor = [k \in {} |-> editor[k]]
    BY <1>4
  <2>3. editor \in [{} -> TextSet]
    BY <2>2
  <2> QED
    BY <2>1, <2>3, EditorFacts
<1>6. PICK w : w = [project |-> project, tabs |-> tabs, active |-> none, file |-> none, dirty |-> no,
                    readonly |-> no, editor |-> editor, shown |-> none]
  OBVIOUS
<1>7. w = NoFiles(project)
  BY <1>1, <1>2, <1>3, <1>4, <1>6 DEF NoFiles
<1>8. w \in TabWindows
  BY <1>5, <1>6 DEF TabWindows
<1>9. /\ w.tabs = tabs /\ w.active = None /\ w.file = None /\ w.shown = None /\ DOMAIN w.editor = {}
  BY <1>1, <1>5, <1>6
<1>10. OpenKeys(w) = {}
  BY <1>3, <1>9 DEF OpenKeys
<1>11. Shape(w) /\ ~Emptied(w) /\ ShownOK(w)
  BY <1>3, <1>9, <1>10 DEF Shape, Unique, TabShape, RootShape, EditorShape, Emptied, ShownOK
<1> QED
  BY <1>7, <1>8, <1>10, <1>11

LEMMA NewProjectIs ==
  /\ NewProject \in Disks /\ \A n \in Nat : DiskOK(NewProject, n)
  /\ \A p \in Existing : p \in Paths /\ NewProject[p] = 0
<1>1. 0 \in Versions
  BY FileTabsAssumption DEF Versions
<1>2. NewProject \in Disks
  BY <1>1 DEF NewProject, Disks
<1>3. \A p \in Paths : NewProject[p] = None \/ NewProject[p] = 0
  BY DEF NewProject
<1>4. \A n \in Nat : 0 <= n
  OBVIOUS
<1>5. \A n \in Nat : DiskOK(NewProject, n)
  BY <1>3, <1>4 DEF DiskOK
<1>6. \A p \in Existing : p \in Paths /\ NewProject[p] = 0
  BY FileTabsAssumption DEF NewProject
<1> QED
  BY <1>2, <1>5, <1>6

LEMMA NoTabsCore ==
  ASSUME NEW w \in TabWindows, Shape(w), OpenKeys(w) = {}, NEW n \in Nat
  PROVE  Core(<<>>, w, NewProject, n)
<1>1. CallsOK(<<>>, w, NewProject, n)
  <2>1. DOMAIN <<>> = {}
    OBVIOUS
  <2> QED
    BY <2>1 DEF CallsOK
<1>2. TextsOK(<<>>, w, NewProject, n)
  BY DEF TextsOK
<1> QED
  BY <1>1, <1>2, NewProjectIs DEF Core

LEMMA OpenOtherProjectStep ==
  ASSUME TypeInv, OpenOtherProject
  PROVE  TypeInv' /\ (Fine' => Fine /\ Held')
<1>1. /\ calls = <<>> /\ disk' = NewProject /\ window' = NoFiles(2)
      /\ UNCHANGED <<newest, raced, spoilt>>
  BY DEF OpenOtherProject
<1>2. PICK p \in Existing : calls' = Append(calls, [kind |-> "open", path |-> p, version |-> 0])
  BY DEF OpenOtherProject, Ask
<1>3. PICK x \in Versions : x = 0
  BY FileTabsAssumption DEF Versions
<1>4. PICK c : c = [kind |-> "open", path |-> p, version |-> x]
  OBVIOUS
<1>5. p \in Paths /\ NewProject[p] = x
  BY <1>3, NewProjectIs
<1>6. IsOpenCall(c, p, x) /\ c \in Calls
  BY <1>4, <1>5, OpenCall DEF IsOpenCall
<1>7. calls' = Append(calls, c)
  BY <1>2, <1>3, <1>4
<1>8. PICK w \in TabWindows : w = NoFiles(2) /\ ShownOK(w) /\ Shape(w) /\ ~Emptied(w) /\ OpenKeys(w) = {}
  BY NoFilesIs
<1>9. newest \in Nat
  BY NewestType
<1>10. TypeInv'
  <2>1. calls' \in Seq(Calls)
    BY <1>6, <1>7 DEF TypeInv
  <2> QED
    BY <1>1, <1>8, <2>1, NewProjectIs DEF TypeInv
<1>11. CallOK(c, AllLive(calls, w), {}, FALSE, w, NewProject, newest)
  BY <1>3, <1>5, <1>6, <1>9, FileTabsAssumption DEF IsOpenCall, CallOK, OpenOK
<1>12. Core(calls, w, NewProject, newest)
  BY <1>1, <1>8, <1>9, NoTabsCore
<1>13. Core(Append(calls, c), w, NewProject, newest)
  <2>1. newest <= newest /\ calls \in Seq(Calls)
    BY <1>9 DEF TypeInv
  <2>2. NewProject \in Disks /\ DiskOK(NewProject, newest)
    BY <1>9, NewProjectIs
  <2>3. ChangedBy(c, calls, w, NewProject, NewProject)
    BY SameDisk
  <2> QED
    BY <1>6, <1>9, <1>11, <1>12, <2>1, <2>2, <2>3, SentCore
<1>14. Held'
  BY <1>1, <1>7, <1>8, <1>13 DEF Held, Kept, Return
<1> QED
  BY <1>1, <1>10, <1>14 DEF Fine

-----------------------------------------------------------------------------
(* The replies: the first call is taken from the queue.                    *)
LEMMA HeadOK ==
  ASSUME NEW q \in Seq(Calls), q # <<>>, NEW w, NEW d, NEW n, Core(q, w, d, n)
  PROVE  /\ Head(q) \in Calls /\ Tail(q) \in Seq(Calls)
         /\ CallOK(Head(q), Live(q, 1, w), Later(q, 1, d), ChangeLater(q, 1), w, d, n)
         /\ \A p \in Paths : p \in OpenKeys(w) => p \in Live(q, 1, w)
<1>1. Head(q) = q[1] /\ 1 \in DOMAIN q /\ Tail(q) \in Seq(Calls)
  BY TailIs
<1>2. Head(q) \in Calls
  BY <1>1, ElementOfSeq
<1>3. CallOK(q[1], Live(q, 1, w), Later(q, 1, d), ChangeLater(q, 1), w, d, n)
  BY <1>1 DEF Core, CallsOK
<1> QED
  BY <1>1, <1>2, <1>3 DEF Live

(* A reply that opens a tab.                                               *)
LEMMA OpenedCore ==
  ASSUME NEW q \in Seq(Calls), q # <<>>, NEW w \in TabWindows, NEW v \in TabWindows,
         NEW d \in Disks, NEW n \in Nat, Core(q, w, d, n), Shape(v),
         NEW k \in Keys, OpenKeys(v) = OpenKeys(w) \union {k}, k \notin OpenKeys(w),
         SameTabs(v, w, OpenKeys(w)), ~Dirty(v, k), v.editor[k].version <= n,
         k \in Paths => IsRead(Head(q), k) /\ TextOK(Tail(q), v, d, k),
         \A p \in Paths : ~CoversTab(Head(q), p, d)
  PROVE  Core(Tail(q), v, d, n)
<1>1. \A j \in OpenKeys(w) : v.editor[j] = w.editor[j] /\ (Dirty(v, j) <=> Dirty(w, j))
  BY DEF SameTabs, Alike, Dirty
<1>2. NoNewButRead(v, w, Head(q))
  BY DEF NoNewButRead
<1>3. Tame(v, w, n)
  <2>1. \A j : Dirty(v, j) => j \in OpenKeys(w)
    BY DEF Dirty
  <2> QED
    BY <1>1, <2>1 DEF Tame
<1>4. CallsOK(Tail(q), v, d, n)
  BY <1>2, <1>3, PopCalls DEF Core
<1>5. \A j \in OpenKeys(v) : v.editor[j].version <= n
  BY <1>1 DEF Core, TextsOK
<1>6. ASSUME NEW p \in Paths, p \in OpenKeys(v)
      PROVE  TextOK(Tail(q), v, d, p)
  <2>1. CASE p = k
    BY <2>1
  <2>2. CASE p # k
    <3>1. p \in OpenKeys(w) /\ v.editor[p] = w.editor[p] /\ (Dirty(w, p) => Dirty(v, p))
      BY <1>1, <1>6, <2>2
    <3>2. TextsOK(q, w, d, n)
      BY DEF Core
    <3> QED
      BY <3>1, <3>2, PopText
  <2> QED
    BY <2>1, <2>2
<1> QED
  BY <1>4, <1>5, <1>6 DEF Core, TextsOK

SameSurvive(v, w) == OpenKeys(w) \subseteq OpenKeys(v) /\ \A k \in OpenKeys(w) : v.editor[k] = w.editor[k]

LEMMA SameSurviveIs ==
  ASSUME NEW v, NEW w, NEW d, SameSurvive(v, w)
  PROVE  Survives(v, w, d)
BY DEF SameSurvive, Survives

(* A step that takes the first reply.                                      *)
LEMMA ReplyStep ==
  ASSUME TypeInv, calls # <<>>, calls' = Tail(calls), NEW v \in TabWindows, ShownOK(v), Window(v),
         UNCHANGED <<disk, newest, raced>>,
         Fine /\ Held /\ ~Spoils(v) =>
           Kept(Tail(calls), v, disk, newest) /\ SameSurvive(v, window)
  PROVE  StepOK
<1>1. window' = v /\ spoilt' \in BOOLEAN /\ (~spoilt' => ~spoilt /\ ~Spoils(v))
  BY WindowIs DEF TypeInv
<1>2. Tail(calls) \in Seq(Calls)
  BY TailIs DEF TypeInv
<1>3. TypeInv'
  BY <1>1, <1>2 DEF TypeInv
<1>4. ASSUME Fine'
      PROVE  Fine /\ ~Spoils(v)
  BY <1>1, <1>4 DEF Fine
<1>5. ASSUME Fine', Held
      PROVE  Held' /\ Survives(window', window, disk)
  <2>1. Kept(Tail(calls), v, disk, newest) /\ SameSurvive(v, window)
    BY <1>4, <1>5
  <2> QED
    BY <1>1, <2>1, SameSurviveIs DEF Held
<1> QED
  BY <1>3, <1>4, <1>5 DEF StepOK

LEMMA OpenedTab ==
  ASSUME NEW p \in Paths, NEW x \in Versions
  PROVE  /\ Text(p, x) \in TextSet /\ Text(p, x).of = p /\ Text(p, x).version = x
         /\ \E entry \in Tabs :
              /\ entry = [key |-> p, path |-> p, dirty |-> FALSE, readonly |-> FALSE]
              /\ entry.key = p /\ EntryOK(entry, p) /\ ~entry.dirty
<1>1. p \in Keys /\ p \in Perhaps
  BY DEF Keys, Perhaps
<1>2. PICK no \in BOOLEAN : no = FALSE
  OBVIOUS
<1>3. PICK entry : entry = [key |-> p, path |-> p, dirty |-> no, readonly |-> no]
  OBVIOUS
<1>4. entry \in Tabs
  BY <1>1, <1>3 DEF Tabs, Perhaps
<1>5. entry.key = p /\ entry.path = p /\ ~entry.dirty /\ ~entry.readonly
  BY <1>2, <1>3
<1>6. EntryOK(entry, p)
  BY <1>5 DEF EntryOK
<1>7. Text(p, x) \in TextSet /\ Text(p, x).of = p /\ Text(p, x).version = x
  BY <1>1 DEF Text, TextSet
<1> QED
  BY <1>2, <1>3, <1>4, <1>5, <1>6, <1>7

LEMMA OpenRepliedStep ==
  ASSUME TypeInv, OpenReplied
  PROVE  StepOK
<1>1. /\ calls # <<>> /\ Head(calls).kind = "open" /\ Window(Read(window, Head(calls)))
      /\ calls' = Tail(calls) /\ UNCHANGED <<disk, newest, raced>>
  BY DEF OpenReplied, Reply
<1>2. PICK c : c = Head(calls)
  OBVIOUS
<1>3. c \in Calls /\ c.kind = "open"
  <2>1. calls[1] = c /\ 1 \in DOMAIN calls
    BY <1>1, <1>2, TailIs DEF TypeInv
  <2> QED
    BY <1>1, <1>2, <2>1, ElementOfSeq DEF TypeInv
<1>4. PICK p \in Paths, x \in Versions \union {None} : p = c.path /\ x = c.version
  BY <1>3, CallFacts
<1>5. \A r \in Paths : ~CoversTab(c, r, disk)
  BY <1>3 DEF CoversTab, Covers
<1>6. newest \in Nat
  BY NewestType
<1>7. CASE x = None
  <2>1. Window(window)
    BY <1>1, <1>2, <1>4, <1>7 DEF Read
  <2>2. ASSUME Held
        PROVE  Kept(Tail(calls), window, disk, newest) /\ SameSurvive(window, window)
    <3>1. Core(calls, window, disk, newest) /\ Return(calls, window) /\ Shape(window)
      BY <2>2 DEF Held, Kept, Core
    <3>2. Core(Tail(calls), window, disk, newest)
      BY <1>1, <1>2, <1>5, <1>6, <3>1, PopCore DEF TypeInv
    <3>3. ~Returns(Head(calls))
      BY <1>2, <1>3, <1>4, <1>7 DEF Returns
    <3>4. Return(Tail(calls), window)
      BY <1>1, <3>1, <3>3, TailReturns DEF TypeInv
    <3> QED
      BY <3>2, <3>4 DEF Kept, SameSurvive
  <2> QED
    BY <1>1, <2>1, <2>2, ReplyStep DEF TypeInv
<1>8. CASE x # None
  <2>1. x \in Versions /\ p \in Keys /\ p \in Perhaps
    BY <1>8 DEF Keys, Perhaps
  <2>2. PICK entry \in Tabs : /\ entry = [key |-> p, path |-> p, dirty |-> FALSE, readonly |-> FALSE]
                              /\ entry.key = p /\ EntryOK(entry, p) /\ ~entry.dirty
    BY <2>1, OpenedTab
  <2>3. PICK text \in TextSet : text = Text(p, x) /\ text.of = p /\ text.version = x
    BY <2>1, OpenedTab
  <2>4. PICK v : v = OpenTab(window, p, text, entry, p)
    OBVIOUS
  <2>5. Window(v)
    BY <1>1, <1>2, <1>4, <1>8, <2>2, <2>3, <2>4 DEF Read, Opened
  <2>6. v \in TabWindows /\ ShownOK(v)
    BY <2>1, <2>2, <2>4, OpenTabType DEF TypeInv
  <2>7. ASSUME Held, ~Spoils(v)
        PROVE  Kept(Tail(calls), v, disk, newest) /\ SameSurvive(v, window)
    <3>1. Core(calls, window, disk, newest) /\ Shape(window) /\ window \in TabWindows
      BY <2>7 DEF Held, Kept, Core, TypeInv
    <3>2. /\ Shape(v) /\ ~Emptied(v) /\ p \notin OpenKeys(window)
          /\ OpenKeys(v) = OpenKeys(window) \union {p} /\ SameTabs(v, window, OpenKeys(window))
          /\ v.editor[p] = text /\ ~Dirty(v, p)
      <4>1. ~Spoils(OpenTab(window, p, text, entry, p)) /\ p = p
        BY <2>4, <2>7
      <4>2. text.of = p /\ entry.key = p /\ EntryOK(entry, p) /\ ~entry.dirty
        BY <2>2, <2>3
      <4> QED
        BY <2>1, <2>4, <3>1, <4>1, <4>2, OpenTabShape
    <3>3. CallOK(c, Live(calls, 1, window), Later(calls, 1, disk), ChangeLater(calls, 1),
                 window, disk, newest)
      BY <1>1, <1>2, <3>1, HeadOK DEF TypeInv
    <3>4. /\ disk[p] # None /\ x <= newest
          /\ x = disk[p] \/ p \in Later(calls, 1, disk)
      BY <1>3, <1>4, <1>8, <3>3 DEF CallOK, OpenOK
    <3>5. TextOK(Tail(calls), v, disk, p)
      <4>1. CASE x = disk[p]
        BY <2>3, <3>2, <3>4, <4>1 DEF TextOK
      <4>2. CASE p \in Later(calls, 1, disk)
        BY <1>1, <3>4, <4>2, TailLater DEF TextOK, TypeInv
      <4> QED
        BY <3>4, <4>1, <4>2
    <3>6. IsRead(Head(calls), p)
      BY <1>2, <1>3, <1>4, <1>8 DEF IsRead
    <3>7. v.editor[p].version <= newest
      BY <2>3, <3>2, <3>4
    <3>8. Core(Tail(calls), v, disk, newest)
      BY <1>1, <1>2, <1>5, <1>6, <2>1, <2>6, <3>1, <3>2, <3>5, <3>6, <3>7, OpenedCore DEF TypeInv
    <3> QED
      BY <3>2, <3>8 DEF Kept, Return, SameSurvive, SameTabs
  <2> QED
    BY <1>1, <2>5, <2>6, <2>7, ReplyStep
<1> QED
  BY <1>7, <1>8

LEMMA SourceTab ==
  ASSUME NEW s \in Sources
  PROVE  /\ Text(s, 0) \in TextSet /\ Text(s, 0).of = s /\ Text(s, 0).version = 0
         /\ \E entry \in Tabs :
              /\ entry = [key |-> s, path |-> None, dirty |-> FALSE, readonly |-> TRUE]
              /\ entry.key = s /\ EntryOK(entry, s) /\ ~entry.dirty /\ entry.readonly
<1>1. s \in Keys
  BY DEF Keys
<1>2. PICK no \in BOOLEAN : no = FALSE
  OBVIOUS
<1>3. PICK yes \in BOOLEAN : yes = TRUE
  OBVIOUS
<1>4. PICK entry : entry = [key |-> s, path |-> None, dirty |-> no, readonly |-> yes]
  OBVIOUS
<1>5. entry \in Tabs
  BY <1>1, <1>4 DEF Tabs
<1>6. entry.key = s /\ ~entry.dirty /\ entry.readonly
  BY <1>2, <1>3, <1>4
<1>7. EntryOK(entry, s)
  BY <1>6 DEF EntryOK
<1>8. PICK z \in Versions : z = 0
  BY FileTabsAssumption DEF Versions
<1>9. Text(s, z) \in TextSet /\ Text(s, z).of = s /\ Text(s, z).version = z
  BY <1>1 DEF Text, TextSet
<1> QED
  BY <1>2, <1>3, <1>4, <1>5, <1>6, <1>7, <1>8, <1>9

LEMMA SourceRepliedStep ==
  ASSUME TypeInv, SourceReplied
  PROVE  StepOK
<1>1. /\ calls # <<>> /\ Head(calls).kind = "source" /\ Window(OpenedSource(window, Head(calls).path))
      /\ calls' = Tail(calls) /\ UNCHANGED <<disk, newest, raced>>
  BY DEF SourceReplied, Reply
<1>2. PICK c : c = Head(calls)
  OBVIOUS
<1>3. c \in Calls /\ c.kind = "source"
  <2>1. calls[1] = c /\ 1 \in DOMAIN calls
    BY <1>1, <1>2, TailIs DEF TypeInv
  <2> QED
    BY <1>1, <1>2, <2>1, ElementOfSeq DEF TypeInv
<1>4. PICK s \in Sources : s = c.path
  BY <1>3, CallFacts
<1>5. \A r \in Paths : ~CoversTab(c, r, disk)
  BY <1>3 DEF CoversTab, Covers
<1>6. newest \in Nat
  BY NewestType
<1>7. s \in Keys /\ s \in Perhaps /\ s \notin Paths
  BY FileTabsAssumption DEF Keys, Perhaps
<1>8. PICK entry \in Tabs : /\ entry = [key |-> s, path |-> None, dirty |-> FALSE, readonly |-> TRUE]
                            /\ entry.key = s /\ EntryOK(entry, s) /\ ~entry.dirty /\ entry.readonly
  BY SourceTab
<1>9. PICK text \in TextSet : text = Text(s, 0) /\ text.of = s /\ text.version = 0
  BY SourceTab
<1>10. PICK v : v = OpenTab(window, s, text, entry, s)
  OBVIOUS
<1>11. Window(v)
  BY <1>1, <1>2, <1>4, <1>8, <1>9, <1>10 DEF OpenedSource
<1>12. v \in TabWindows /\ ShownOK(v)
  BY <1>7, <1>8, <1>10, OpenTabType DEF TypeInv
<1>13. ASSUME Held, ~Spoils(v)
       PROVE  Kept(Tail(calls), v, disk, newest) /\ SameSurvive(v, window)
  <2>1. Core(calls, window, disk, newest) /\ Shape(window) /\ window \in TabWindows
    BY <1>13 DEF Held, Kept, Core, TypeInv
  <2>2. /\ Shape(v) /\ ~Emptied(v) /\ s \notin OpenKeys(window)
        /\ OpenKeys(v) = OpenKeys(window) \union {s} /\ SameTabs(v, window, OpenKeys(window))
        /\ v.editor[s] = text /\ ~Dirty(v, s)
    <3>1. ~Spoils(OpenTab(window, s, text, entry, s))
      BY <1>10, <1>13
    <3>2. text.of = s /\ entry.key = s /\ EntryOK(entry, s) /\ ~entry.dirty /\ entry.readonly
      BY <1>8, <1>9
    <3> QED
      BY <1>7, <1>10, <2>1, <3>1, <3>2, OpenTabShape
  <2>3. v.editor[s].version <= newest
    <3>1. v.editor[s].version = 0
      BY <1>9, <2>2
    <3> QED
      BY <1>6, <3>1
  <2>4. Core(Tail(calls), v, disk, newest)
    BY <1>1, <1>2, <1>5, <1>6, <1>7, <1>12, <2>1, <2>2, <2>3, OpenedCore DEF TypeInv
  <2> QED
    BY <2>2, <2>4 DEF Kept, Return, SameSurvive, SameTabs
<1> QED
  BY <1>1, <1>11, <1>12, <1>13, ReplyStep

LEMMA HeadIs ==
  ASSUME TypeInv, calls # <<>>
  PROVE  \E c \in Calls : c = Head(calls) /\ Tail(calls) \in Seq(Calls)
<1>1. Head(calls) = calls[1] /\ 1 \in DOMAIN calls /\ Tail(calls) \in Seq(Calls)
  BY TailIs DEF TypeInv
<1>2. Head(calls) \in Calls
  BY <1>1, ElementOfSeq DEF TypeInv
<1> QED
  BY <1>1, <1>2

LEMMA ChangeRepliedStep ==
  ASSUME TypeInv, ChangeReplied
  PROVE  StepOK
<1>1. PICK c \in Calls : c = Head(calls) /\ Tail(calls) \in Seq(Calls)
  BY HeadIs DEF ChangeReplied, Reply
<1>2. PICK left \in Seq(Calls) : left = Tail(calls)
  BY <1>1
<1>3. c.kind = "changed" /\ calls # <<>>
  BY <1>1 DEF ChangeReplied, Reply
<1>4. PICK preferred : preferred = IF \/ c.preferred = "current"
                                      \/ c.from \notin {None, window.file}
                                   THEN window.file ELSE c.preferred
  OBVIOUS
<1>5. preferred \in Perhaps \union {"current"}
  <2>1. window.file \in Perhaps
    BY DEF TypeInv, TabWindows
  <2> QED
    BY <1>1, <1>3, <1>4, <2>1, CallFacts
<1>6. PICK files \in SUBSET Paths : files = FilesOf(disk)
  BY DEF FilesOf
<1>7. PICK s : s = [kind |-> "scan", preferred |-> preferred, files |-> files]
  OBVIOUS
<1>8. s \in Calls /\ s.kind = "scan" /\ s.files = files
  BY <1>5, <1>7, ScanCall
<1>9. disk' = disk /\ UNCHANGED <<window, newest, raced, spoilt>>
  BY DEF ChangeReplied, Reply
<1>10. calls' = Append(left, s)
  BY <1>1, <1>2, <1>4, <1>6, <1>7, <1>9 DEF ChangeReplied, Scan, FilesOf
<1>11. calls' \in Seq(Calls)
  BY <1>8, <1>10
<1>12. TypeInv'
  BY <1>9, <1>11 DEF TypeInv
<1>13. ASSUME Held
       PROVE  Held' /\ Survives(window', window, disk)
  <2>1. Core(calls, window, disk, newest) /\ Shape(window) /\ newest \in Nat
    BY <1>13, NewestType DEF Held, Kept, Core
  <2>2. \A p \in Paths : ~CoversTab(Head(calls), p, disk)
    BY <1>1, <1>3 DEF CoversTab, Covers
  <2>3. Core(left, window, disk, newest)
    BY <1>2, <1>3, <2>1, <2>2, PopCore DEF TypeInv
  <2>4. CallOK(s, AllLive(left, window), {}, FALSE, window, disk, newest)
    BY <1>6, <1>8, <2>3, ScanIsOK
  <2>5. DiskOK(disk, newest) /\ newest <= newest
    BY <2>1 DEF Core
  <2>6. ChangedBy(s, left, window, disk, disk)
    BY SameDisk
  <2>7. Core(Append(left, s), window, disk, newest)
    BY <1>8, <2>1, <2>3, <2>4, <2>5, <2>6, SentCore DEF TypeInv
  <2>8. Returns(s)
    BY <1>8 DEF Returns
  <2>9. Return(Append(left, s), window)
    BY <1>8, <2>8, SentReturn
  <2> QED
    BY <1>9, <1>10, <2>7, <2>9, SameSurvives DEF Held, Kept
<1> QED
  BY <1>9, <1>12, <1>13 DEF StepOK, Fine

(* The first call of the queue is followed by another.                     *)
LEMMA ChangeComes ==
  ASSUME NEW q \in Seq(Calls), q # <<>>, ChangeLater(q, 1), NEW w
  PROVE  Return(Tail(q), w)
<1>1. PICK j \in DOMAIN q : j > 1 /\ q[j].kind = "changed"
  BY DEF ChangeLater
<1>2. j - 1 \in DOMAIN Tail(q) /\ Tail(q)[j - 1] = q[j]
  BY <1>1, TailIs
<1>3. Returns(Tail(q)[j - 1])
  BY <1>1, <1>2 DEF Returns
<1> QED
  BY <1>2, <1>3 DEF Return

LEMMA EmptiedCore ==
  ASSUME TypeInv, calls # <<>>, Head(calls).kind = "scan", Held
  PROVE  LET w == EmptyRoot(window) IN
         /\ Core(Tail(calls), w, disk, newest) /\ Shape(w)
         /\ OpenKeys(w) = OpenKeys(window) /\ SameTabs(w, window, OpenKeys(window))
<1>1. PICK w : w = EmptyRoot(window)
  OBVIOUS
<1>2. Core(calls, window, disk, newest) /\ Shape(window) /\ newest \in Nat
  BY NewestType DEF Held, Kept, Core
<1>3. /\ w \in TabWindows /\ Shape(w)
      /\ OpenKeys(w) = OpenKeys(window) /\ SameTabs(w, window, OpenKeys(window))
  BY <1>1, <1>2, EmptyRootShape DEF TypeInv
<1>4. \A p \in Paths : ~CoversTab(Head(calls), p, disk)
  BY DEF CoversTab, Covers
<1>5. \A k \in OpenKeys(w) : w.editor[k] = window.editor[k] /\ (Dirty(w, k) <=> Dirty(window, k))
  BY <1>3 DEF SameTabs, Alike, Dirty
<1>6. Core(Tail(calls), w, disk, newest)
  BY <1>2, <1>3, <1>4, <1>5, PopCore DEF TypeInv
<1> QED
  BY <1>1, <1>3, <1>6

LEMMA NoFilesLeft ==
  ASSUME TypeInv, calls # <<>>, Head(calls).kind = "scan", Head(calls).files = {}, Held
  PROVE  LET v == ClearEditor(EmptyRoot(window)) IN
         Kept(Tail(calls), v, disk, newest) /\ SameSurvive(v, window)
<1>1. PICK w : w = EmptyRoot(window)
  OBVIOUS
<1>2. PICK v : v = ClearEditor(w)
  OBVIOUS
<1>3. /\ Core(Tail(calls), w, disk, newest) /\ Shape(w)
      /\ OpenKeys(w) = OpenKeys(window) /\ SameTabs(w, window, OpenKeys(window))
  BY <1>1, EmptiedCore
<1>4. w \in TabWindows
  BY <1>1, EmptyRootType DEF TypeInv
<1>5. ASSUME NEW k \in OpenKeys(w)
      PROVE  Entry(w, k).readonly
  <2>1. SUFFICES ASSUME ~Entry(w, k).readonly
                 PROVE  FALSE
    OBVIOUS
  <2>2. k \in Paths
    BY <1>3, <2>1, ShapeIs DEF TabShape, EntryOK
  <2>3. Core(calls, window, disk, newest)
    BY DEF Held, Kept
  <2>4. /\ CallOK(Head(calls), Live(calls, 1, window), Later(calls, 1, disk), ChangeLater(calls, 1),
                  window, disk, newest)
        /\ k \in Live(calls, 1, window)
    BY <1>3, <2>2, <2>3, HeadOK DEF TypeInv
  <2> QED
    BY <2>4 DEF CallOK, ScanOK
<1>6. /\ v \in TabWindows /\ Shape(v) /\ ~Emptied(v)
      /\ OpenKeys(v) = OpenKeys(w) /\ SameTabs(v, w, OpenKeys(w))
  BY <1>2, <1>3, <1>4, <1>5, ClearShape
<1>7. Gentle(v, w, newest, newest)
  BY <1>6 DEF Gentle, SameTabs, Alike, Dirty
<1>8. newest \in Nat /\ newest <= newest /\ Tail(calls) \in Seq(Calls)
  BY NewestType, TailIs DEF TypeInv
<1>9. Core(Tail(calls), v, disk, newest)
  BY <1>3, <1>4, <1>6, <1>7, <1>8, KeepCore DEF TypeInv
<1> QED
  BY <1>1, <1>2, <1>3, <1>6, <1>9 DEF Kept, Return, SameSurvive, SameTabs

LEMMA ScanRepliedStep ==
  ASSUME TypeInv, ScanReplied
  PROVE  StepOK
<1>1. PICK c \in Calls : c = Head(calls) /\ Tail(calls) \in Seq(Calls)
  BY HeadIs DEF ScanReplied, Reply
<1>2. calls # <<>> /\ c.kind = "scan" /\ UNCHANGED <<disk, newest, raced>>
  BY <1>1 DEF ScanReplied, Reply
<1>3. PICK w : w = EmptyRoot(window)
  OBVIOUS
<1>4. w \in TabWindows /\ ShownOK(w)
  BY <1>3, EmptyRootType DEF TypeInv
<1>5. PICK preferred : ApplySnapshot(w, preferred, c.files, Tail(calls))
  BY <1>1, <1>3 DEF ScanReplied
<1>6. c.files \subseteq Paths
  BY <1>2, CallFacts
<1>7. CASE c.files = {}
  <2>1. PICK v : v = ClearEditor(w)
    OBVIOUS
  <2>2. Window(v) /\ calls' = Tail(calls)
    BY <1>5, <1>7, <2>1 DEF ApplySnapshot
  <2>3. v \in TabWindows /\ ShownOK(v)
    BY <1>4, <2>1, ClearType
  <2>4. Held => Kept(Tail(calls), v, disk, newest) /\ SameSurvive(v, window)
    BY <1>1, <1>2, <1>3, <1>7, <2>1, NoFilesLeft
  <2> QED
    BY <1>2, <2>2, <2>3, <2>4, ReplyStep
<1>8. CASE c.files # {}
  <2>1. PICK p \in Paths : p \in c.files /\ SelectFile(w, p, Tail(calls))
    BY <1>5, <1>6, <1>8 DEF ApplySnapshot
  <2>2. /\ window' \in TabWindows /\ ShownOK(window') /\ calls' \in Seq(Calls)
        /\ spoilt' \in BOOLEAN /\ (~spoilt' => ~spoilt)
    BY <1>1, <1>4, <2>1, SelectTypes DEF TypeInv
  <2>3. TypeInv'
    BY <1>2, <2>2 DEF TypeInv
  <2>4. Fine' => Fine
    BY <1>2, <2>2 DEF Fine
  <2>5. ASSUME Fine', Held
        PROVE  Held' /\ Survives(window', window, disk)
    <3>1. /\ Core(Tail(calls), w, disk, newest) /\ Shape(w)
          /\ OpenKeys(w) = OpenKeys(window) /\ SameTabs(w, window, OpenKeys(window))
      BY <1>1, <1>2, <1>3, <2>5, EmptiedCore
    <3>2. disk[p] # None \/ Return(Tail(calls), w)
      <4>1. Core(calls, window, disk, newest)
        BY <2>5 DEF Held, Kept
      <4>2. CallOK(c, Live(calls, 1, window), Later(calls, 1, disk), ChangeLater(calls, 1),
                   window, disk, newest)
        BY <1>1, <1>2, <4>1, HeadOK DEF TypeInv
      <4>3. disk[p] = None => ChangeLater(calls, 1)
        BY <1>2, <2>1, <4>2 DEF CallOK, ScanOK
      <4> QED
        BY <1>2, <4>3, ChangeComes DEF TypeInv
    <3>3. newest \in Nat /\ ~spoilt' /\ disk \in Disks /\ spoilt \in BOOLEAN
      BY <2>5, NewestType DEF Fine, TypeInv
    <3>4. /\ Kept(calls', window', disk, newest)
          /\ OpenKeys(window') = OpenKeys(w) /\ \A k \in OpenKeys(w) : window'.editor[k] = w.editor[k]
      BY <1>1, <1>4, <2>1, <3>1, <3>2, <3>3, SelectKept
    <3> QED
      BY <1>2, <3>1, <3>4 DEF Held, Survives, SameTabs
  <2> QED
    BY <2>3, <2>4, <2>5 DEF StepOK
<1> QED
  BY <1>7, <1>8

-----------------------------------------------------------------------------
(* The replies that act on the active tab.                                 *)
LEMMA AnswerStep ==
  ASSUME TypeInv, window' \in TabWindows, ShownOK(window'), calls' \in Seq(Calls),
         UNCHANGED <<disk, newest>>, spoilt' \in BOOLEAN, ~spoilt' => ~spoilt,
         raced' \in BOOLEAN, ~raced' => ~raced,
         Fine /\ Fine' /\ Held =>
           Kept(calls', window', disk, newest) /\ Survives(window', window, disk)
  PROVE  StepOK
<1>1. TypeInv'
  BY DEF TypeInv
<1>2. ASSUME Fine'
      PROVE  Fine
  BY <1>2 DEF Fine
<1>3. ASSUME Fine', Held
      PROVE  Held' /\ Survives(window', window, disk)
  BY <1>2, <1>3 DEF Held
<1> QED
  BY <1>1, <1>2, <1>3 DEF StepOK

Seen(w, c) ==
  /\ Sight(w) = c.sight
  /\ \A i \in DOMAIN c.left : HasTab(w, c.left[i].key) /\ ~Entry(w, c.left[i].key).dirty

LEMMA RacedNow ==
  ASSUME raced \in BOOLEAN, NEW P \in BOOLEAN, raced' = (raced \/ P)
  PROVE  raced' \in BOOLEAN /\ (~raced' => ~raced /\ ~P)
OBVIOUS

LEMMA ReplyForIs ==
  ASSUME TypeInv, NEW kind, ReplyFor(kind)
  PROVE  /\ calls # <<>> /\ Head(calls).kind = kind
         /\ raced' \in BOOLEAN /\ (~raced' => ~raced /\ Seen(window, Head(calls)))
<1> DEFINE P == \/ Sight(window) # Head(calls).sight
                \/ \E i \in DOMAIN Head(calls).left :
                     LET k == Head(calls).left[i].key IN
                     ~HasTab(window, k) \/ Entry(window, k).dirty
<1>1. calls # <<>> /\ Head(calls).kind = kind
  BY DEF ReplyFor
<1>2. raced' = (raced \/ P)
  BY Zenon DEF ReplyFor
<1>3. P \in BOOLEAN
  BY Zenon
<1>4. ~P => Seen(window, Head(calls))
  BY Zenon DEF Seen
<1> HIDE DEF P
<1>5. raced' \in BOOLEAN /\ (~raced' => ~raced /\ ~P)
  BY <1>2, <1>3, RacedNow DEF TypeInv
<1> QED
  BY <1>1, <1>4, <1>5

(* A call that was sent for p as the window shows it.                      *)
LEMMA SeenTab ==
  ASSUME NEW w \in TabWindows, ShownOK(w), Shape(w), NEW c, Seen(w, c), NEW p \in Paths, c.sight[1] = p
  PROVE  /\ w.active = p /\ w.shown = p /\ p \in OpenKeys(w)
         /\ c.sight[2] = w.editor[p] /\ c.sight = <<p, w.editor[p]>>
<1>1. Sight(w) = c.sight /\ w.active = p
  BY ContentType DEF Seen
<1>2. p # None
  BY FileTabsAssumption
<1>3. p \in OpenKeys(w) /\ w.shown = p
  BY <1>1, <1>2, ShapeIs DEF RootShape
<1>4. Content(w) = w.editor[p]
  BY <1>2, <1>3 DEF Content
<1>5. Sight(w) = <<p, w.editor[p]>>
  BY <1>1, <1>4 DEF Sight
<1> QED
  BY <1>1, <1>3, <1>5

(* The active tab is saved.                                                *)
LEMMA SavedCore ==
  ASSUME NEW w \in TabWindows, ShownOK(w), NEW q \in Seq(Calls), q # <<>>, NEW d \in Disks, NEW n \in Nat,
         Core(q, w, d, n), NEW c \in Calls, c = Head(q), c.kind = "save", c.ok, Seen(w, c)
  PROVE  LET v == SetDirty(w, FALSE) IN
         /\ v \in TabWindows /\ Core(Tail(q), v, d, n) /\ Shape(v) /\ (Emptied(v) <=> Emptied(w))
         /\ OpenKeys(v) = OpenKeys(w) /\ v.editor = w.editor
         /\ c.close = None \/ c.close \in Paths
         /\ Dirty(w, c.close) => w.editor[c.close].version = d[c.close]
<1>1. PICK no \in BOOLEAN : no = FALSE
  OBVIOUS
<1>2. PICK v : v = SetDirty(w, no)
  OBVIOUS
<1>3. Shape(w)
  BY DEF Core
<1>4. CallOK(c, Live(q, 1, w), Later(q, 1, d), ChangeLater(q, 1), w, d, n)
  BY HeadOK
<1>5. SaveOK(c, Live(q, 1, w), Later(q, 1, d), w, d, n)
  BY <1>4 DEF CallOK
<1>6. PICK p \in Paths : p = c.sight[1]
  BY <1>5 DEF SaveOK
<1>7. /\ w.active = p /\ w.shown = p /\ p \in OpenKeys(w)
      /\ c.sight[2] = w.editor[p] /\ c.sight = <<p, w.editor[p]>>
  BY <1>3, <1>6, SeenTab
<1>8. /\ c.close \in {None, p} /\ w.editor[p].version <= n
      /\ p \in Live(q, 1, w) => w.editor[p].version = d[p] \/ p \in Later(q, 1, d)
      /\ Dirty(w, p) => d[p] = w.editor[p].version
  BY <1>5, <1>6, <1>7 DEF SaveOK
<1>9. p \in Live(q, 1, w)
  BY <1>7, HeadOK
<1>10. /\ v \in TabWindows /\ Shape(v) /\ (Emptied(v) <=> Emptied(w))
       /\ v.editor = w.editor /\ OpenKeys(v) = OpenKeys(w)
       /\ \A j \in OpenKeys(w) : Dirty(v, j) <=> IF j = p THEN no ELSE Dirty(w, j)
  BY <1>1, <1>2, <1>3, <1>7, SetDirtyShape
<1>11. \A j : Dirty(v, j) => j \in OpenKeys(w) /\ j # p /\ Dirty(w, j)
  BY <1>1, <1>10 DEF Dirty
<1>12. CallsOK(Tail(q), v, d, n)
  <2>1. NoNewButRead(v, w, Head(q))
    BY <1>10 DEF NoNewButRead
  <2>2. Tame(v, w, n)
    BY <1>10, <1>11 DEF Tame
  <2> QED
    BY <2>1, <2>2, PopCalls DEF Core
<1>13. \A k \in OpenKeys(v) : v.editor[k].version <= n
  BY <1>10 DEF Core, TextsOK
<1>14. ASSUME NEW r \in Paths, r \in OpenKeys(v)
       PROVE  TextOK(Tail(q), v, d, r)
  <2>1. TextsOK(q, w, d, n) /\ r \in OpenKeys(w)
    BY <1>10, <1>14 DEF Core
  <2>2. d[r] # None
    BY <2>1 DEF TextsOK, TextOK
  <2>3. CASE r = p
    <3>1. CASE w.editor[p].version = d[p]
      BY <1>10, <2>2, <2>3, <3>1 DEF TextOK
    <3>2. CASE p \in Later(q, 1, d)
      BY <2>2, <2>3, <3>2, TailLater DEF TextOK
    <3> QED
      BY <1>8, <1>9, <3>1, <3>2
  <2>4. CASE r # p
    <3>1. ~CoversTab(Head(q), r, d)
      BY <1>7, <2>4 DEF CoversTab, Covers
    <3>2. v.editor[r] = w.editor[r] /\ (Dirty(w, r) => Dirty(v, r))
      BY <1>10, <2>1, <2>4
    <3> QED
      BY <2>1, <3>1, <3>2, PopText
  <2> QED
    BY <2>3, <2>4
<1>15. Core(Tail(q), v, d, n)
  BY <1>10, <1>12, <1>13, <1>14 DEF Core, TextsOK
<1>16. Dirty(w, c.close) => w.editor[c.close].version = d[c.close]
  <2>1. CASE c.close = p
    BY <1>8, <2>1
  <2>2. CASE c.close = None
    BY <2>2, NoneIsNothing, TabsFacts DEF Dirty
  <2> QED
    BY <1>8, <2>1, <2>2
<1> QED
  BY <1>1, <1>2, <1>8, <1>10, <1>15, <1>16

LEMMA FileSaveRepliedStep ==
  ASSUME TypeInv, FileSaveReplied
  PROVE  StepOK
<1>1. /\ calls # <<>> /\ Head(calls).kind = "save"
      /\ raced' \in BOOLEAN /\ (~raced' => ~raced /\ Seen(window, Head(calls)))
  BY ReplyForIs DEF FileSaveReplied
<1>2. PICK c \in Calls : c = Head(calls) /\ Tail(calls) \in Seq(Calls)
  BY <1>1, HeadIs
<1>3. c.kind = "save" /\ c.ok \in BOOLEAN /\ c.close \in Perhaps
  BY <1>1, <1>2, CallFacts
<1>4. PICK no \in BOOLEAN : no = FALSE
  OBVIOUS
<1>5. PICK s : s = IF c.ok THEN SetDirty(window, no) ELSE window
  OBVIOUS
<1>6. PICK v : v = IF c.ok /\ HasTab(s, c.close) THEN Close(s, c.close) ELSE s
  OBVIOUS
<1>7. Window(v) /\ calls' = Tail(calls) /\ UNCHANGED <<disk, newest>>
  BY <1>2, <1>4, <1>5, <1>6 DEF FileSaveReplied, Saved
<1>8. s \in TabWindows /\ ShownOK(s)
  BY <1>5, SetDirtyType DEF TypeInv
<1>9. v \in TabWindows /\ ShownOK(v)
  BY <1>6, <1>8, HasTabIs, CloseType
<1>10. window' = v /\ spoilt' \in BOOLEAN /\ (~spoilt' => ~spoilt /\ ~Spoils(v))
  BY <1>7, WindowIs DEF TypeInv
<1>11. ASSUME Fine, Fine', Held
       PROVE  Kept(Tail(calls), v, disk, newest) /\ Survives(v, window, disk)
  <2>1. /\ Core(calls, window, disk, newest) /\ Return(calls, window) /\ Shape(window)
        /\ newest \in Nat /\ Seen(window, c) /\ window \in TabWindows /\ ShownOK(window)
        /\ disk \in Disks /\ calls \in Seq(Calls)
    BY <1>1, <1>2, <1>11, NewestType DEF Held, Kept, Core, Fine, TypeInv
  <2>2. ~Returns(Head(calls))
    BY <1>1 DEF Returns
  <2>3. CASE ~c.ok
    <3>1. v = window
      BY <1>5, <1>6, <2>3
    <3>2. \A p \in Paths : ~CoversTab(Head(calls), p, disk)
      BY <1>1, <1>2, <2>3 DEF CoversTab, Covers
    <3>3. Core(Tail(calls), window, disk, newest)
      BY <1>1, <2>1, <3>2, PopCore
    <3>4. Return(Tail(calls), window)
      BY <1>1, <2>1, <2>2, TailReturns
    <3> QED
      BY <3>1, <3>3, <3>4, SameSurvives DEF Kept
  <2>4. CASE c.ok
    <3>1. s = SetDirty(window, FALSE)
      BY <1>4, <1>5, <2>4
    <3>2. /\ Core(Tail(calls), s, disk, newest) /\ Shape(s) /\ (Emptied(s) <=> Emptied(window))
          /\ OpenKeys(s) = OpenKeys(window) /\ s.editor = window.editor
          /\ c.close = None \/ c.close \in Paths
          /\ Dirty(window, c.close) => window.editor[c.close].version = disk[c.close]
      BY <1>1, <1>2, <2>1, <2>4, <3>1, SavedCore
    <3>3. CASE c.close \notin OpenKeys(s)
      <4>1. v = s
        BY <1>6, <3>3, HasTabIs
      <4>2. Return(Tail(calls), s)
        BY <1>1, <2>1, <2>2, <3>2, TailReturns
      <4> QED
        BY <3>2, <4>1, <4>2 DEF Kept, Survives
    <3>4. CASE c.close \in OpenKeys(s)
      <4>1. PICK k \in OpenKeys(s) : k = c.close
        BY <3>4
      <4>2. v = Close(s, k)
        BY <1>6, <2>4, <4>1, HasTabIs
      <4>3. /\ Shape(v) /\ (Emptied(v) => Emptied(s))
            /\ OpenKeys(v) = OpenKeys(s) \ {k} /\ SameTabs(v, s, OpenKeys(v))
        BY <1>8, <3>2, <4>2, CloseShape
      <4>4. Gentle(v, s, newest, newest)
        BY <4>3, GentleClose
      <4>5. newest <= newest
        BY <2>1
      <4>6. Core(Tail(calls), v, disk, newest)
        BY <1>2, <1>8, <1>9, <2>1, <3>2, <4>3, <4>4, <4>5, KeepCore
      <4>7. Return(Tail(calls), v)
        BY <1>1, <2>1, <2>2, <3>2, <4>3, TailReturns
      <4>8. Survives(v, window, disk)
        BY <3>2, <4>1, <4>3 DEF Survives, SameTabs
      <4> QED
        BY <4>6, <4>7, <4>8 DEF Kept
    <3> QED
      BY <3>3, <3>4
  <2> QED
    BY <1>3, <2>3, <2>4
<1> QED
  BY <1>1, <1>2, <1>7, <1>9, <1>10, <1>11, AnswerStep

-----------------------------------------------------------------------------
(* The loop of reloadOpenFiles.                                            *)
LEMMA ReloadNextTypes ==
  ASSUME TypeInv, calls # <<>>, NEW w \in TabWindows, ShownOK(w), NEW targets \in Seq(Tabs),
         NEW back \in Perhaps, ReloadNext(w, targets, back)
  PROVE  /\ window' \in TabWindows /\ ShownOK(window') /\ calls' \in Seq(Calls)
         /\ spoilt' \in BOOLEAN /\ (~spoilt' => ~spoilt)
<1>1. Tail(calls) \in Seq(Calls)
  BY TailIs DEF TypeInv
<1>2. CASE targets = <<>>
  <2>1. PICK v : v = IF HasTab(w, back) THEN SwitchToTab(w, back) ELSE w
    OBVIOUS
  <2>2. Window(v) /\ calls' = Tail(calls)
    BY <1>2, <2>1 DEF ReloadNext
  <2>3. v \in TabWindows /\ ShownOK(v)
    BY <2>1, SwitchType
  <2> QED
    BY <1>1, <2>2, <2>3, WindowIs DEF TypeInv
<1>3. CASE targets # <<>>
  <2>1. PICK tab \in Tabs : tab = Head(targets)
    BY <1>3, TailIs, ElementOfSeq
  <2>2. PICK k \in Keys : k = tab.key
    BY DEF Tabs
  <2>3. PICK path \in Perhaps : path = IF HasTab(w, k) THEN Entry(w, k).path ELSE tab.path
    <3>1. tab.path \in Perhaps
      BY DEF Tabs, Perhaps
    <3>2. HasTab(w, k) => Entry(w, k).path \in Perhaps
      BY HasTabIs, TabAtIs DEF Tabs, Perhaps
    <3> QED
      BY <3>1, <3>2
  <2>4. PICK v : v = SwitchToTab(w, k)
    OBVIOUS
  <2>5. v \in TabWindows /\ ShownOK(v)
    BY <2>4, SwitchType DEF Perhaps
  <2>6. PICK x \in Versions \union {None} : x = IF path \in Paths THEN disk[path] ELSE None
    BY DEF TypeInv, Disks
  <2>7. PICK sight \in Sights : sight = Sight(v)
    BY <2>5, ContentType
  <2>8. PICK left \in Seq(Tabs) : left = Tail(targets)
    BY <1>3, TailIs
  <2>9. PICK c : c = [kind |-> "reload", path |-> path, version |-> x,
                      left |-> left, back |-> back, sight |-> sight]
    OBVIOUS
  <2>10. c \in Calls
    BY <2>6, <2>9, ReloadCall DEF IsReloadCall
  <2>11. Window(v) /\ calls' = Append(Tail(calls), c)
    BY <1>3, <2>1, <2>2, <2>3, <2>4, <2>6, <2>7, <2>8, <2>9 DEF ReloadNext
  <2>12. calls' \in Seq(Calls)
    BY <1>1, <2>10, <2>11
  <2> QED
    BY <2>5, <2>11, <2>12, WindowIs DEF TypeInv
<1> QED
  BY <1>2, <1>3

(* The tabs that are still to be reloaded.                                 *)
Owed(targets, p, d) == d[p] # None /\ \E t \in DOMAIN targets : targets[t].key = p

TargetsOK(targets, w) ==
  \A t \in DOMAIN targets :
    LET k == targets[t].key IN
    k \in Paths /\ k \in OpenKeys(w) /\ targets[t].path = k /\ ~Dirty(w, k)

Reloads(q, w, d, n, targets) ==
  /\ Shape(w) /\ CallsOK(q, w, d, n) /\ DiskOK(d, n) /\ TargetsOK(targets, w)
  /\ \A k \in OpenKeys(w) : w.editor[k].version <= n
  /\ \A p \in Paths : p \in OpenKeys(w) => TextOK(q, w, d, p) \/ Owed(targets, p, d)

LEMMA SameTexts ==
  ASSUME NEW q, NEW v, NEW w, NEW d, NEW p, TextOK(q, w, d, p), v.editor[p] = w.editor[p],
         Dirty(w, p) => Dirty(v, p)
  PROVE  TextOK(q, v, d, p)
BY DEF TextOK

LEMMA MoreTexts ==
  ASSUME NEW q \in Seq(Calls), NEW c \in Calls, NEW w, NEW d, NEW p, TextOK(q, w, d, p)
  PROVE  TextOK(Append(q, c), w, d, p)
<1>1. PICK n \in Nat : /\ n = Len(q) /\ DOMAIN q = 1 .. n /\ DOMAIN Append(q, c) = 1 .. (n + 1)
                       /\ Append(q, c) \in Seq(Calls) /\ Append(q, c)[n + 1] = c
                       /\ \A i \in 1 .. n : Append(q, c)[i] = q[i]
  BY AppendIs
<1>2. \A i \in DOMAIN q : i \in DOMAIN Append(q, c) /\ Append(q, c)[i] = q[i]
  BY <1>1
<1> QED
  BY <1>2 DEF TextOK

(* The call that reloads the next tab.                                     *)
LEMMA ReloadSent ==
  ASSUME NEW q \in Seq(Calls), NEW w \in TabWindows, NEW d \in Disks, NEW n \in Nat,
         NEW targets \in Seq(Tabs), targets # <<>>, Reloads(q, w, d, n, targets),
         NEW v \in TabWindows, ShownOK(v), Shape(v), v.active = Head(targets).key,
         OpenKeys(v) = OpenKeys(w), SameTabs(v, w, OpenKeys(w)),
         NEW c, NEW back,
         IsReloadCall(c, v.active, d[v.active], Tail(targets), back, Sight(v))
  PROVE  Core(Append(q, c), v, d, n)
<1>1. PICK k : k = v.active
  OBVIOUS
<1>2. 1 \in DOMAIN targets /\ targets[1].key = k
  BY <1>1, TailIs
<1>3. k \in Paths /\ k \in OpenKeys(w) /\ ~Dirty(w, k)
  BY <1>2 DEF Reloads, TargetsOK
<1>4. \A j \in OpenKeys(v) : v.editor[j] = w.editor[j] /\ (Dirty(v, j) <=> Dirty(w, j))
  BY DEF SameTabs, Alike, Dirty
<1>5. \A j : Dirty(v, j) => Dirty(w, j) /\ v.editor[j] = w.editor[j]
  BY <1>4 DEF Dirty
<1>6. d[k] # None /\ d[k] <= n /\ d[k] \in Versions
  BY <1>3, NoneIsNothing DEF Reloads, Owed, TextOK, DiskOK, Disks
<1>7. v.shown = k
  <2>1. v.active # None
    BY <1>1, <1>3, FileTabsAssumption
  <2> QED
    BY <1>1, <2>1, ShapeIs DEF RootShape
<1>8. /\ c \in Calls /\ c.kind = "reload" /\ c.path = k /\ c.version = d[k]
      /\ c.left = Tail(targets) /\ c.sight[1] = k /\ c.sight[2] = v.editor[k]
  <2>1. Sight(v)[1] = k /\ Sight(v)[2] = Content(v)
    BY <1>1, ContentType
  <2>2. Content(v) = v.editor[k]
    BY <1>3, <1>7, FileTabsAssumption DEF Content
  <2> QED
    BY <1>1, <2>1, <2>2 DEF IsReloadCall
<1>9. CallsOK(q, v, d, n)
  <2>1. NoNewPath(v, w)
    BY DEF NoNewPath
  <2>2. Tame(v, w, n)
    BY <1>5 DEF Tame
  <2>3. n <= n
    OBVIOUS
  <2> QED
    BY <2>1, <2>2, <2>3, KeepCalls DEF Reloads
<1>10. \A t \in DOMAIN Tail(targets) : Tail(targets)[t].key \in Paths /\ Tail(targets)[t].path = Tail(targets)[t].key
  BY TailIs DEF Reloads, TargetsOK
<1>11. ReloadOK(c, AllLive(q, v), {}, v, d, n)
  <2>1. v.editor[k].version <= n
    BY <1>3, <1>4 DEF Reloads
  <2>2. ~Dirty(v, k)
    BY <1>3, <1>5
  <2> QED
    BY <1>3, <1>6, <1>8, <1>10, <2>1, <2>2 DEF ReloadOK
<1>12. CallOK(c, AllLive(q, v), {}, FALSE, v, d, n)
  BY <1>8, <1>11 DEF CallOK
<1>13. CallsOK(Append(q, c), v, d, n)
  <2>1. ChangedBy(c, q, v, d, d)
    BY SameDisk
  <2>2. n <= n
    OBVIOUS
  <2> QED
    BY <1>8, <1>9, <1>12, <2>1, <2>2, SentCalls
<1>14. ASSUME NEW p \in Paths, p \in OpenKeys(v)
       PROVE  TextOK(Append(q, c), v, d, p)
  <2>1. CASE TextOK(q, w, d, p)
    <3>1. TextOK(q, v, d, p)
      BY <1>4, <1>14, <2>1, SameTexts
    <3> QED
      BY <1>8, <3>1, MoreTexts
  <2>2. CASE Owed(targets, p, d)
    <3>1. PICK t \in DOMAIN targets : targets[t].key = p
      BY <2>2 DEF Owed
    <3>2. CoversTab(c, p, d)
      <4>1. CASE t = 1
        BY <1>2, <1>8, <3>1, <4>1 DEF CoversTab
      <4>2. CASE t # 1
        <5>1. t - 1 \in DOMAIN Tail(targets) /\ Tail(targets)[t - 1] = targets[t]
          BY <4>2, TailIs
        <5> QED
          BY <1>8, <3>1, <5>1 DEF CoversTab
      <4> QED
        BY <4>1, <4>2
    <3>3. \E j \in DOMAIN Append(q, c) : CoversTab(Append(q, c)[j], p, d)
      <4>1. PICK m \in Nat : DOMAIN Append(q, c) = 1 .. (m + 1) /\ Append(q, c)[m + 1] = c
        BY <1>8, AppendIs
      <4>2. m + 1 \in DOMAIN Append(q, c)
        BY <4>1
      <4> QED
        BY <3>2, <4>1, <4>2
    <3> QED
      BY <2>2, <3>3 DEF TextOK, Owed
  <2> QED
    BY <1>14, <2>1, <2>2 DEF Reloads
<1>15. \A j \in OpenKeys(v) : v.editor[j].version <= n
  BY <1>4 DEF Reloads
<1> QED
  BY <1>13, <1>14, <1>15 DEF Core, TextsOK, Reloads

LEMMA ReloadNextKept ==
  ASSUME TypeInv, calls # <<>>, NEW w \in TabWindows, ShownOK(w), NEW targets \in Seq(Tabs),
         NEW back \in Perhaps, ReloadNext(w, targets, back), ~spoilt',
         Reloads(Tail(calls), w, disk, newest, targets), Return(Tail(calls), w)
  PROVE  /\ Kept(calls', window', disk, newest)
         /\ OpenKeys(window') = OpenKeys(w) /\ \A k \in OpenKeys(w) : window'.editor[k] = w.editor[k]
<1>1. PICK q \in Seq(Calls) : q = Tail(calls)
  BY TailIs DEF TypeInv
<1>2. newest \in Nat /\ newest <= newest /\ disk \in Disks /\ spoilt \in BOOLEAN
  BY NewestType DEF TypeInv
<1>3. Shape(w)
  BY DEF Reloads
<1>4. CASE targets = <<>>
  <2>1. Core(q, w, disk, newest)
    BY <1>1, <1>4 DEF Reloads, Owed, Core, TextsOK
  <2>2. CASE HasTab(w, back)
    <3>1. PICK v : v = SwitchToTab(w, back)
      OBVIOUS
    <3>2. window' = v /\ ~Spoils(v) /\ calls' = q
      BY <1>1, <1>2, <1>4, <2>2, <3>1, WindowIs DEF ReloadNext
    <3>3. /\ v \in TabWindows /\ Shape(v) /\ ~Emptied(v)
          /\ OpenKeys(v) = OpenKeys(w) /\ SameTabs(v, w, OpenKeys(w))
      <4>1. back \in OpenKeys(w)
        BY <2>2, HasTabIs
      <4>2. ~Spoils(SwitchToTab(w, back))
        BY <3>1, <3>2
      <4> QED
        BY <1>3, <3>1, <4>1, <4>2, SwitchShape
    <3>4. Gentle(v, w, newest, newest)
      BY <3>3, GentleSwitch
    <3>5. Core(q, v, disk, newest)
      BY <1>2, <2>1, <3>3, <3>4, KeepCore
    <3> QED
      BY <3>2, <3>3, <3>5 DEF Kept, Return, SameTabs
  <2>3. CASE ~HasTab(w, back)
    <3>1. window' = w /\ calls' = q
      BY <1>1, <1>2, <1>4, <2>3, WindowIs DEF ReloadNext
    <3> QED
      BY <1>1, <2>1, <3>1 DEF Kept
  <2> QED
    BY <2>2, <2>3
<1>5. CASE targets # <<>>
  <2>1. PICK k : k = Head(targets).key
    OBVIOUS
  <2>2. k \in Paths /\ k \in OpenKeys(w)
    BY <1>5, <2>1, TailIs DEF Reloads, TargetsOK
  <2>3. HasTab(w, k) /\ Entry(w, k).path = k
    <3>1. EntryOK(Entry(w, k), k) /\ k \notin Sources
      BY <1>3, <2>2, ShapeIs, FileTabsAssumption DEF TabShape
    <3> QED
      BY <2>2, <3>1, HasTabIs DEF EntryOK
  <2>4. PICK v : v = SwitchToTab(w, k)
    OBVIOUS
  <2>5. PICK x \in Versions \union {None} : x = disk[k]
    BY <1>2, <2>2 DEF Disks
  <2>6. PICK left \in Seq(Tabs) : left = Tail(targets)
    BY <1>5, TailIs
  <2>7. PICK sight : sight = Sight(v)
    OBVIOUS
  <2>8. PICK c : c = [kind |-> "reload", path |-> k, version |-> x,
                      left |-> left, back |-> back, sight |-> sight]
    OBVIOUS
  <2>9. Window(v) /\ calls' = Append(q, c)
    BY <1>1, <1>5, <2>1, <2>2, <2>3, <2>4, <2>5, <2>6, <2>7, <2>8 DEF ReloadNext
  <2>10. window' = v /\ ~Spoils(v)
    BY <1>2, <2>9, WindowIs
  <2>11. /\ v \in TabWindows /\ Shape(v) /\ ~Emptied(v) /\ v.active = k
         /\ OpenKeys(v) = OpenKeys(w) /\ SameTabs(v, w, OpenKeys(w))
    <3>1. ~Spoils(SwitchToTab(w, k))
      BY <2>4, <2>10
    <3> QED
      BY <1>3, <2>2, <2>4, <3>1, SwitchShape
  <2>12. ShownOK(v)
    BY <2>2, <2>4, SwitchType DEF Perhaps, Keys
  <2>13. sight \in Sights
    BY <2>7, <2>11, <2>12, ContentType
  <2>14. k \in Perhaps
    BY <2>2 DEF Perhaps, Keys
  <2>15. IsReloadCall(c, k, x, left, back, sight)
    BY <2>2, <2>8, <2>13, <2>14, ReloadCall
  <2>16. IsReloadCall(c, v.active, disk[v.active], Tail(targets), back, Sight(v))
    BY <2>5, <2>6, <2>7, <2>11, <2>15
  <2>17. v.active = Head(targets).key /\ Reloads(q, w, disk, newest, targets)
    BY <1>1, <2>1, <2>11
  <2>18. Core(Append(q, c), v, disk, newest)
    BY <1>2, <1>5, <2>11, <2>12, <2>16, <2>17, ReloadSent
  <2> QED
    BY <2>9, <2>10, <2>11, <2>18 DEF Kept, Return, SameTabs
<1> QED
  BY <1>4, <1>5

(* What a replacement leaves to be reloaded.                               *)
LEMMA ReplacedReloads ==
  ASSUME TypeInv, calls # <<>>, Held, NEW c \in Calls, c = Head(calls), c.kind = "replace",
         NEW targets \in Seq(Tabs),
         TargetsOf(targets, window.tabs, Len(window.tabs), c.changed)
  PROVE  Reloads(Tail(calls), window, disk, newest, targets) /\ Return(Tail(calls), window)
<1>1. /\ Core(calls, window, disk, newest) /\ Return(calls, window) /\ Shape(window)
      /\ window \in TabWindows /\ calls \in Seq(Calls) /\ disk \in Disks /\ newest \in Nat
  BY NewestType DEF Held, Kept, Core, TypeInv
<1>2. DOMAIN window.tabs = 1 .. Len(window.tabs)
  BY <1>1, WindowFacts
<1>3. TargetsOK(targets, window)
  <2>1. ASSUME NEW t \in DOMAIN targets
        PROVE  LET k == targets[t].key IN
               k \in Paths /\ k \in OpenKeys(window) /\ targets[t].path = k /\ ~Dirty(window, k)
    <3>1. PICK i \in DOMAIN window.tabs : targets[t] = window.tabs[i] /\ IsReloaded(window.tabs[i], c.changed)
      BY <1>2 DEF TargetsOf
    <3>2. PICK k : k = targets[t].key
      OBVIOUS
    <3>3. Entry(window, k) = targets[t] /\ k \in OpenKeys(window)
      BY <1>1, <3>1, <3>2, EntryIs DEF Shape
    <3>4. ~targets[t].dirty /\ ~targets[t].readonly
      BY <3>1 DEF IsReloaded
    <3>5. EntryOK(targets[t], k)
      BY <1>1, <3>3, ShapeIs DEF TabShape
    <3> QED
      BY <3>2, <3>3, <3>4, <3>5 DEF EntryOK, Dirty
  <2> QED
    BY <2>1 DEF TargetsOK
<1>4. CallsOK(Tail(calls), window, disk, newest)
  <2>1. NoNewButRead(window, window, Head(calls)) /\ Tame(window, window, newest)
    BY DEF NoNewButRead, Tame
  <2> QED
    BY <1>1, <2>1, PopCalls DEF Core
<1>5. ASSUME NEW p \in Paths, p \in OpenKeys(window)
      PROVE  TextOK(Tail(calls), window, disk, p) \/ Owed(targets, p, disk)
  <2>1. TextOK(calls, window, disk, p)
    BY <1>1, <1>5 DEF Core, TextsOK
  <2>2. CASE Dirty(window, p) \/ window.editor[p].version = disk[p]
    BY <2>1, <2>2 DEF TextOK
  <2>3. CASE ~Dirty(window, p) /\ \E j \in DOMAIN calls : CoversTab(calls[j], p, disk)
    <3>1. PICK j \in DOMAIN calls : CoversTab(calls[j], p, disk)
      BY <2>3
    <3>2. CoversTab(Head(calls), p, disk) \/ \E i \in DOMAIN Tail(calls) : CoversTab(Tail(calls)[i], p, disk)
      BY <1>1, <3>1, TailCovers
    <3>3. CASE \E i \in DOMAIN Tail(calls) : CoversTab(Tail(calls)[i], p, disk)
      BY <2>1, <3>3 DEF TextOK
    <3>4. CASE CoversTab(c, p, disk)
      <4>1. p \in c.changed
        BY <3>4 DEF CoversTab, Covers
      <4>2. PICK i \in DOMAIN window.tabs : window.tabs[i] = Entry(window, p) /\ window.tabs[i].key = p
        BY <1>1, <1>5, TabAtIs
      <4>3. EntryOK(window.tabs[i], p) /\ p \notin Sources
        BY <1>1, <1>5, <4>2, ShapeIs, FileTabsAssumption DEF TabShape
      <4>4. ~window.tabs[i].dirty
        BY <1>5, <2>3, <4>2 DEF Dirty
      <4>5. IsReloaded(window.tabs[i], c.changed)
        BY <4>1, <4>3, <4>4 DEF EntryOK, IsReloaded
      <4>6. \E t \in DOMAIN targets : targets[t] = window.tabs[i]
        BY <1>2, <4>5 DEF TargetsOf
      <4> QED
        BY <2>1, <4>2, <4>6 DEF Owed, TextOK
    <3> QED
      BY <3>2, <3>3, <3>4
  <2> QED
    BY <2>1, <2>2, <2>3 DEF TextOK
<1>6. Reloads(Tail(calls), window, disk, newest, targets)
  BY <1>1, <1>3, <1>4, <1>5 DEF Reloads, Core, TextsOK
<1>7. Return(Tail(calls), window)
  <2>1. ~Returns(Head(calls))
    BY DEF Returns
  <2> QED
    BY <1>1, <2>1, TailReturns
<1> QED
  BY <1>6, <1>7

LEMMA ReplaceRepliedStep ==
  ASSUME TypeInv, ReplaceReplied
  PROVE  StepOK
<1>1. calls # <<>> /\ Head(calls).kind = "replace" /\ UNCHANGED <<disk, newest, raced>>
  BY DEF ReplaceReplied, Reply
<1>2. PICK c \in Calls : c = Head(calls) /\ Tail(calls) \in Seq(Calls)
  BY <1>1, HeadIs
<1>3. TargetsOf(ReloadTargets(window, c.changed), window.tabs, Len(window.tabs), c.changed)
  BY ReloadTargetsIs DEF TypeInv
<1>4. PICK targets : targets = ReloadTargets(window, c.changed)
  OBVIOUS
<1>5. TargetsOf(targets, window.tabs, Len(window.tabs), c.changed) /\ targets \in Seq(Tabs)
  BY <1>3, <1>4 DEF TargetsOf
<1>6. PICK back \in Perhaps : back = window.active
  BY WindowFacts DEF TypeInv
<1>7. ReloadNext(window, targets, back)
  BY <1>2, <1>4, <1>6 DEF ReplaceReplied
<1>8. /\ window' \in TabWindows /\ ShownOK(window') /\ calls' \in Seq(Calls)
      /\ spoilt' \in BOOLEAN /\ (~spoilt' => ~spoilt)
  <2>1. window \in TabWindows /\ ShownOK(window)
    BY DEF TypeInv
  <2> QED
    BY <1>1, <1>5, <1>7, <2>1, ReloadNextTypes
<1>9. ASSUME Fine', Held
      PROVE  Kept(calls', window', disk, newest) /\ Survives(window', window, disk)
  <2>1. Reloads(Tail(calls), window, disk, newest, targets) /\ Return(Tail(calls), window)
    BY <1>1, <1>2, <1>5, <1>9, ReplacedReloads
  <2>2. window \in TabWindows /\ ShownOK(window) /\ ~spoilt'
    BY <1>9 DEF TypeInv, Fine
  <2>3. /\ Kept(calls', window', disk, newest)
        /\ OpenKeys(window') = OpenKeys(window)
        /\ \A k \in OpenKeys(window) : window'.editor[k] = window.editor[k]
    BY <1>1, <1>5, <1>7, <2>1, <2>2, ReloadNextKept
  <2> QED
    BY <2>3 DEF Survives
<1> QED
  <2>1. raced' \in BOOLEAN /\ (~raced' => ~raced)
    BY <1>1 DEF TypeInv
  <2> QED
    BY <1>1, <1>8, <1>9, <2>1, AnswerStep

(* What is put into the active tab.                                        *)
Reload(w, path, version) ==
  IF version = None THEN w ELSE SetDirty(SetContent(w, Text(path, version)), FALSE)

LEMMA ReloadType ==
  ASSUME NEW w \in TabWindows, ShownOK(w), NEW version \in Versions \union {None}, NEW path,
         version # None => path \in Paths
  PROVE  Reload(w, path, version) \in TabWindows /\ ShownOK(Reload(w, path, version))
<1>1. CASE version = None
  BY <1>1 DEF Reload
<1>2. CASE version # None
  <2>1. PICK text \in TextSet : text = Text(path, version)
    BY <1>2 DEF Text, TextSet, Keys
  <2>2. PICK x : x = SetContent(w, text)
    OBVIOUS
  <2>3. x \in TabWindows /\ ShownOK(x)
    <3>1. CASE w.shown = None
      BY <2>2, <3>1 DEF SetContent
    <3>2. CASE w.shown # None
      <4>1. w.shown \in DOMAIN w.editor
        BY <3>2 DEF ShownOK
      <4>2. Screen(x, w, w.active, WithText(w.editor, w.shown, text), w.shown)
        BY <2>2, <4>1, SetContentIs
      <4> QED
        BY <4>1, <4>2 DEF Screen, ShownOK, WithText
    <3> QED
      BY <3>1, <3>2
  <2>4. PICK no \in BOOLEAN : no = FALSE
    OBVIOUS
  <2>5. SetDirty(x, no) \in TabWindows /\ ShownOK(SetDirty(x, no))
    BY <2>3, SetDirtyType
  <2>6. Reload(w, path, version) = SetDirty(x, no)
    BY <1>2, <2>1, <2>2, <2>4 DEF Reload
  <2> QED
    BY <2>5, <2>6
<1> QED
  BY <1>1, <1>2

LEMMA ReloadedCore ==
  ASSUME NEW w \in TabWindows, ShownOK(w), NEW q \in Seq(Calls), q # <<>>, NEW d \in Disks, NEW n \in Nat,
         Core(q, w, d, n), NEW c \in Calls, c = Head(q), c.kind = "reload", Seen(w, c)
  PROVE  LET v == Reload(w, c.path, c.version) IN
         /\ v \in TabWindows /\ Reloads(Tail(q), v, d, n, c.left) /\ (Emptied(v) <=> Emptied(w))
         /\ OpenKeys(v) = OpenKeys(w)
         /\ \A j \in OpenKeys(w) : Dirty(w, j) => v.editor[j] = w.editor[j]
<1>1. PICK no \in BOOLEAN : no = FALSE
  OBVIOUS
<1>2. Shape(w) /\ DiskOK(d, n)
  BY DEF Core
<1>3. CallOK(c, Live(q, 1, w), Later(q, 1, d), ChangeLater(q, 1), w, d, n)
  BY HeadOK
<1>4. ReloadOK(c, Live(q, 1, w), Later(q, 1, d), w, d, n)
  BY <1>3 DEF CallOK
<1>5. PICK p \in Paths : p = c.path
  BY <1>4 DEF ReloadOK
<1>6. PICK x \in Versions : x = c.version
  BY <1>4, CallFacts DEF ReloadOK
<1>7. /\ w.active = p /\ w.shown = p /\ p \in OpenKeys(w) /\ c.sight[2] = w.editor[p]
  BY <1>2, <1>4, <1>5, SeenTab DEF ReloadOK
<1>8. /\ x <= n /\ ~Dirty(w, p)
      /\ p \in Live(q, 1, w) => x = d[p] \/ p \in Later(q, 1, d)
  BY <1>4, <1>5, <1>6, <1>7 DEF ReloadOK
<1>9. p \in Live(q, 1, w)
  BY <1>7, HeadOK
<1>10. PICK text \in TextSet : text = Text(p, x) /\ text.of = p /\ text.version = x
  BY OpenedTab
<1>11. PICK y : y = SetContent(w, text)
  OBVIOUS
<1>12. /\ y \in TabWindows /\ Shape(y) /\ (Emptied(y) <=> Emptied(w)) /\ y.active = p
       /\ OpenKeys(y) = OpenKeys(w) /\ Alike(y, w, OpenKeys(w))
       /\ \A j \in OpenKeys(w) : y.editor[j] = IF j = p THEN text ELSE w.editor[j]
  <2>1. w.shown \in DOMAIN w.editor /\ text.of = w.shown
    BY <1>2, <1>7, <1>10, ShapeIs DEF EditorShape
  <2> QED
    BY <1>2, <1>7, <1>11, <2>1, SetContentShape
<1>13. PICK v : v = SetDirty(y, no)
  OBVIOUS
<1>14. /\ v \in TabWindows /\ Shape(v) /\ (Emptied(v) <=> Emptied(y))
       /\ v.editor = y.editor /\ OpenKeys(v) = OpenKeys(y)
       /\ \A j \in OpenKeys(y) : Dirty(v, j) <=> IF j = p THEN no ELSE Dirty(y, j)
  BY <1>1, <1>12, <1>13, SetDirtyShape
<1>15. v = Reload(w, c.path, c.version)
  BY <1>1, <1>5, <1>6, <1>10, <1>11, <1>13, NoneIsNothing DEF Reload
<1>16. \A j \in OpenKeys(w) : Dirty(y, j) <=> Dirty(w, j)
  BY <1>12 DEF Dirty, Alike
<1>17. /\ OpenKeys(v) = OpenKeys(w)
       /\ \A j \in OpenKeys(w) : /\ v.editor[j] = IF j = p THEN text ELSE w.editor[j]
                                 /\ Dirty(v, j) <=> j # p /\ Dirty(w, j)
  BY <1>1, <1>12, <1>14, <1>16
<1>18. \A j : Dirty(v, j) => j \in OpenKeys(w) /\ j # p /\ Dirty(w, j) /\ v.editor[j] = w.editor[j]
  BY <1>17 DEF Dirty
<1>19. CallsOK(Tail(q), v, d, n)
  <2>1. NoNewButRead(v, w, Head(q))
    BY <1>17 DEF NoNewButRead
  <2>2. Tame(v, w, n)
    BY <1>18 DEF Tame
  <2> QED
    BY <1>14, <2>1, <2>2, PopCalls DEF Core
<1>20. \A j \in OpenKeys(v) : v.editor[j].version <= n
  BY <1>8, <1>10, <1>17 DEF Core, TextsOK
<1>21. TargetsOK(c.left, v)
  <2>1. ASSUME NEW t \in DOMAIN c.left
        PROVE  LET k == c.left[t].key IN
               k \in Paths /\ k \in OpenKeys(v) /\ c.left[t].path = k /\ ~Dirty(v, k)
    <3>1. PICK k : k = c.left[t].key
      OBVIOUS
    <3>2. k \in Paths /\ c.left[t].path = k
      BY <1>4, <3>1 DEF ReloadOK
    <3>3. HasTab(w, k) /\ ~Entry(w, k).dirty
      BY <3>1 DEF Seen
    <3>4. k \in OpenKeys(w) /\ ~Dirty(w, k)
      BY <3>3, HasTabIs DEF Dirty
    <3> QED
      BY <1>17, <3>1, <3>2, <3>4
  <2> QED
    BY <2>1 DEF TargetsOK
<1>22. ASSUME NEW r \in Paths, r \in OpenKeys(v)
       PROVE  TextOK(Tail(q), v, d, r) \/ Owed(c.left, r, d)
  <2>1. TextsOK(q, w, d, n) /\ r \in OpenKeys(w)
    BY <1>17, <1>22 DEF Core
  <2>2. TextOK(q, w, d, r)
    BY <2>1 DEF TextsOK
  <2>3. CASE r = p
    <3>1. CASE x = d[p]
      BY <1>10, <1>17, <2>1, <2>2, <2>3, <3>1 DEF TextOK
    <3>2. CASE p \in Later(q, 1, d)
      BY <2>2, <2>3, <3>2, TailLater DEF TextOK
    <3> QED
      BY <1>8, <1>9, <3>1, <3>2
  <2>4. CASE r # p /\ CoversTab(Head(q), r, d)
    <3>1. \E t \in DOMAIN c.left : c.left[t].key = r
      BY <1>5, <2>4 DEF CoversTab, Covers
    <3> QED
      BY <2>2, <3>1 DEF Owed, TextOK
  <2>5. CASE r # p /\ ~CoversTab(Head(q), r, d)
    <3>1. v.editor[r] = w.editor[r] /\ (Dirty(w, r) => Dirty(v, r))
      BY <1>17, <2>1, <2>5
    <3> QED
      BY <2>1, <2>5, <3>1, PopText
  <2> QED
    BY <2>3, <2>4, <2>5
<1>23. Reloads(Tail(q), v, d, n, c.left)
  BY <1>2, <1>14, <1>19, <1>20, <1>21, <1>22 DEF Reloads
<1>24. \A j \in OpenKeys(w) : Dirty(w, j) => v.editor[j] = w.editor[j]
  BY <1>8, <1>17
<1> QED
  BY <1>12, <1>14, <1>15, <1>17, <1>23, <1>24

LEMMA ReloadRepliedStep ==
  ASSUME TypeInv, ReloadReplied
  PROVE  StepOK
<1>1. /\ calls # <<>> /\ Head(calls).kind = "reload"
      /\ raced' \in BOOLEAN /\ (~raced' => ~raced /\ Seen(window, Head(calls)))
  BY ReplyForIs DEF ReloadReplied
<1>2. PICK c \in Calls : c = Head(calls) /\ Tail(calls) \in Seq(Calls)
  BY <1>1, HeadIs
<1>3. /\ c.version \in Versions \union {None} /\ (c.version # None => c.path \in Paths)
      /\ c.left \in Seq(Tabs) /\ c.back \in Perhaps
  BY <1>1, <1>2, CallFacts
<1>4. PICK v : v = Reload(window, c.path, c.version)
  OBVIOUS
<1>5. ReloadNext(v, c.left, c.back) /\ UNCHANGED <<disk, newest>>
  BY <1>2, <1>4 DEF ReloadReplied, Reload
<1>6. v \in TabWindows /\ ShownOK(v)
  BY <1>3, <1>4, ReloadType DEF TypeInv
<1>7. /\ window' \in TabWindows /\ ShownOK(window') /\ calls' \in Seq(Calls)
      /\ spoilt' \in BOOLEAN /\ (~spoilt' => ~spoilt)
  BY <1>1, <1>3, <1>5, <1>6, ReloadNextTypes
<1>8. ASSUME Fine, Fine', Held
      PROVE  Kept(calls', window', disk, newest) /\ Survives(window', window, disk)
  <2>1. /\ Core(calls, window, disk, newest) /\ Return(calls, window)
        /\ newest \in Nat /\ Seen(window, c) /\ window \in TabWindows /\ ShownOK(window)
        /\ disk \in Disks /\ calls \in Seq(Calls)
    BY <1>1, <1>2, <1>8, NewestType DEF Held, Kept, Fine, TypeInv
  <2>2. /\ Reloads(Tail(calls), v, disk, newest, c.left) /\ (Emptied(v) <=> Emptied(window))
        /\ OpenKeys(v) = OpenKeys(window)
        /\ \A j \in OpenKeys(window) : Dirty(window, j) => v.editor[j] = window.editor[j]
    BY <1>1, <1>2, <1>4, <2>1, ReloadedCore
  <2>3. Return(Tail(calls), v)
    <3>1. ~Returns(Head(calls))
      BY <1>1 DEF Returns
    <3> QED
      BY <1>1, <2>1, <2>2, <3>1, TailReturns
  <2>4. ~spoilt'
    BY <1>8 DEF Fine
  <2>5. /\ Kept(calls', window', disk, newest)
        /\ OpenKeys(window') = OpenKeys(v) /\ \A k \in OpenKeys(v) : window'.editor[k] = v.editor[k]
    BY <1>1, <1>3, <1>5, <1>6, <2>2, <2>3, <2>4, ReloadNextKept
  <2> QED
    BY <2>2, <2>5 DEF Survives
<1> QED
  BY <1>1, <1>5, <1>7, <1>8, AnswerStep

-----------------------------------------------------------------------------
(* The invariant.                                                          *)
LEMMA TabsInvInit ==
  ASSUME TabsInit
  PROVE  TabsInv
<1>1. PICK one \in {1, 2} : one = 1
  OBVIOUS
<1>2. PICK w : w = NoFiles(one)
  OBVIOUS
<1>3. window = w /\ disk = NewProject /\ calls = <<>> /\ raced = FALSE /\ spoilt = FALSE
  BY <1>1, <1>2 DEF TabsInit
<1>4. w \in TabWindows /\ ShownOK(w) /\ Shape(w) /\ ~Emptied(w) /\ OpenKeys(w) = {}
  BY <1>2, NoFilesIs
<1>5. newest \in Nat /\ newest \in Versions
  BY FileTabsAssumption DEF TabsInit, Versions
<1>6. calls \in Seq(Calls)
  BY <1>3
<1>7. TypeInv
  BY <1>3, <1>4, <1>5, <1>6, NewProjectIs DEF TypeInv
<1>8. Core(<<>>, w, NewProject, newest)
  BY <1>4, <1>5, NoTabsCore
<1>9. Held
  BY <1>3, <1>4, <1>8 DEF Held, Kept, Return
<1> QED
  BY <1>7, <1>9 DEF TabsInv

(* The user gives up the changes of k alone.                               *)
LEMMA DiscardStep ==
  ASSUME TypeInv, NEW k \in Keys, DiscardAndCloseTab(k)
  PROVE  /\ TypeInv'
         /\ Fine' => Fine /\ (Held => Held' /\ \A j \in OpenKeys(window) \ {k} :
                                j \in OpenKeys(window') /\ window'.editor[j] = window.editor[j])
<1>1. PICK yes \in BOOLEAN : yes = TRUE
  OBVIOUS
<1>2. CloseIf(k, yes)
  BY <1>1 DEF DiscardAndCloseTab
<1> QED
  BY <1>2, CloseIfStep

(* A step of another kind keeps every text that is not saved.              *)
LosesText == Type \/ OpenOtherProject \/ \E k \in Keys : DiscardAndCloseTab(k)

LEMMA QuietStep ==
  ASSUME TypeInv, TabsNext, ~LosesText
  PROVE  StepOK
<1>1. CASE \E p \in Paths : UserSelectsFile(p) \/ CreateFile(p) \/ DeleteFile(p)
  BY <1>1, UserSelectsFileStep, CreateFileStep, DeleteFileStep
<1>2. CASE \E p, q \in Paths : RenameFile(p, q)
  BY <1>2, RenameFileStep
<1>3. CASE \E s \in Sources : GoToSource(s)
  BY <1>3, GoToSourceStep
<1>4. CASE \E k \in Keys : UserSwitchesTab(k) \/ CloseTab(k) \/ SaveAndCloseTab(k)
  BY <1>4, UserSwitchesTabStep, CloseTabStep, SaveAndCloseTabStep
<1>5. CASE SaveCurrentFile \/ RefreshProject
  BY <1>5, SaveCurrentFileStep, RefreshProjectStep
<1>6. CASE \E changed \in SUBSET {p \in Paths : disk[p] # None} : ReplaceProjectMatches(changed)
  BY <1>6, ReplaceStep
<1>7. CASE OpenReplied \/ SourceReplied \/ FileSaveReplied
  BY <1>7, OpenRepliedStep, SourceRepliedStep, FileSaveRepliedStep
<1>8. CASE ChangeReplied \/ ScanReplied \/ ReplaceReplied \/ ReloadReplied
  BY <1>8, ChangeRepliedStep, ScanRepliedStep, ReplaceRepliedStep, ReloadRepliedStep
<1> QED
  BY <1>1, <1>2, <1>3, <1>4, <1>5, <1>6, <1>7, <1>8, Zenon DEF TabsNext, TabsUser, LosesText

LEMMA TabsInvNext ==
  ASSUME TabsInv, [TabsNext]_tabsVars
  PROVE  TabsInv'
<1>1. CASE UNCHANGED tabsVars
  BY <1>1 DEF tabsVars, TabsInv, TypeInv, Held
<1>2. CASE TabsNext
  <2>1. TypeInv
    BY DEF TabsInv
  <2>2. TypeInv' /\ (Fine' => Fine /\ (Held => Held'))
    <3>1. CASE Type
      BY <2>1, <3>1, TypeStep
    <3>2. CASE OpenOtherProject
      BY <2>1, <3>2, OpenOtherProjectStep
    <3>3. CASE \E k \in Keys : DiscardAndCloseTab(k)
      BY <2>1, <3>3, DiscardStep
    <3>4. CASE ~LosesText
      BY <1>2, <2>1, <3>4, QuietStep DEF StepOK
    <3> QED
      BY <3>1, <3>2, <3>3, <3>4 DEF LosesText
  <2> QED
    BY <2>2 DEF TabsInv, Fine
<1> QED
  BY <1>1, <1>2

LEMMA TabsInvHolds == TabsSpec => []TabsInv
<1>1. TabsInit => TabsInv
  BY TabsInvInit
<1>2. TabsInv /\ [TabsNext]_tabsVars => TabsInv'
  BY TabsInvNext
<1> QED
  BY <1>1, <1>2, PTL DEF TabsSpec

-----------------------------------------------------------------------------
(* What the invariant says of the tabs.                                    *)
LEMMA TabsTypes ==
  ASSUME TypeInv
  PROVE  TabsTypeOK
<1>1. window \in TabWindows
  BY DEF TypeInv
<1>2. /\ window.project \in {1, 2} /\ window.tabs \in Seq(Tabs)
      /\ window.active \in Perhaps /\ window.file \in Perhaps /\ window.shown \in Perhaps
      /\ window.dirty \in BOOLEAN /\ window.readonly \in BOOLEAN /\ window.editor \in Editors
  BY <1>1, WindowFacts
<1>3. /\ DOMAIN window.editor \subseteq Keys
      /\ \A k \in DOMAIN window.editor : window.editor[k] \in [of : Keys, version : Versions]
  BY <1>2, EditorFacts DEF TextSet
<1> QED
  BY <1>2, <1>3 DEF TabsTypeOK, TypeInv, Disks, Perhaps

LEMMA HeldShown ==
  ASSUME TypeInv, Held
  PROVE  ShownIsActive
<1>1. Shape(window) /\ Return(calls, window) /\ window \in TabWindows
  BY DEF Held, Kept, Core, TypeInv
<1>2. window.active # None => window.shown = window.active
  BY <1>1, ShapeIs DEF RootShape
<1>3. DOMAIN window.editor = {window.tabs[i].key : i \in DOMAIN window.tabs}
  BY <1>1, ShapeIs DEF EditorShape, OpenKeys
<1>4. ASSUME HasTab(window, window.active), calls = <<>>
      PROVE  LET tab == Entry(window, window.active) IN
             /\ window.dirty = tab.dirty /\ window.readonly = tab.readonly
             /\ window.file = tab.path \/ tab.readonly
  <2>1. PICK k \in Keys : k = window.active /\ k \in OpenKeys(window)
    BY <1>1, <1>4, HasTabIs, TabsFacts
  <2>2. k # None
    BY NoneIsNothing
  <2>3. PICK tab \in Tabs : tab = Entry(window, k)
    BY <1>1, <2>1, TabAtIs
  <2>4. EntryOK(tab, k) /\ RootIs(window, tab)
    BY <1>1, <2>1, <2>2, <2>3, ShapeIs DEF TabShape, RootShape
  <2>5. ~Emptied(window)
    BY <1>1, <1>4 DEF Return
  <2>6. window.dirty \in BOOLEAN /\ tab.dirty \in BOOLEAN
    BY <1>1, WindowFacts DEF Tabs
  <2>7. CASE tab.readonly
    BY <2>1, <2>3, <2>4, <2>6, <2>7 DEF EntryOK, RootIs
  <2>8. CASE ~tab.readonly
    BY <2>1, <2>2, <2>3, <2>4, <2>5, <2>8 DEF EntryOK, RootIs, Emptied
  <2> QED
    BY <2>7, <2>8
<1> QED
  BY <1>2, <1>3, <1>4 DEF ShownIsActive

LEMMA HeldClean ==
  ASSUME TypeInv, Held
  PROVE  CleanShowsDisk
<1>1. /\ Shape(window) /\ Core(calls, window, disk, newest) /\ window \in TabWindows
  BY DEF Held, Kept, Core, TypeInv
<1>2. ASSUME calls = <<>>, NEW i \in DOMAIN window.tabs, ~window.tabs[i].dirty, ~window.tabs[i].readonly
      PROVE  window.editor[window.tabs[i].key] = Text(window.tabs[i].path, disk[window.tabs[i].path])
  <2>1. PICK k : k = window.tabs[i].key
    OBVIOUS
  <2>2. Entry(window, k) = window.tabs[i] /\ k \in OpenKeys(window)
    BY <1>1, <1>2, <2>1, EntryIs DEF Shape
  <2>3. k \in Paths /\ window.tabs[i].path = k
    BY <1>1, <1>2, <2>2, ShapeIs DEF TabShape, EntryOK
  <2>4. TextOK(calls, window, disk, k) /\ ~Dirty(window, k)
    BY <1>1, <1>2, <2>2, <2>3 DEF Core, TextsOK, Dirty
  <2>5. window.editor[k].version = disk[k]
    BY <1>2, <2>4 DEF TextOK
  <2> QED
    BY <1>1, <2>1, <2>2, <2>3, <2>5, EditorTexts
<1> QED
  BY <1>2 DEF CleanShowsDisk

LEMMA TabsInvTells == TabsInv => TabsTellTruth
<1> SUFFICES ASSUME TabsInv
             PROVE  TabsTellTruth
  OBVIOUS
<1>1. TypeInv
  BY DEF TabsInv
<1>2. CASE Held
  BY <1>1, <1>2, TabsTypes, HeldShown, HeldClean DEF TabsTellTruth
<1>3. CASE spoilt \/ raced
  BY <1>1, <1>3, TabsTypes DEF TabsTellTruth, ShownIsActive, CleanShowsDisk
<1> QED
  BY <1>2, <1>3 DEF TabsInv

(* What a click, a save or a run acts on is what the tabs show, and a tab  *)
(* without a mark holds what is on the disk, whatever replies of           *)
(* fileController.js were on their way: unless the replies raced or a tab  *)
(* has lost its file.                                                      *)
THEOREM TabsAlwaysTellTruth == TabsSpec => []TabsTellTruth
  BY TabsInvHolds, TabsInvTells, PTL

LEMMA SaveOwn ==
  ASSUME TabsInv, SaveCurrentFile, ~spoilt, ~raced
  PROVE  HoldsOwnText(window)
<1>1. Held /\ window \in TabWindows
  BY DEF TabsInv, TypeInv
<1>2. Shape(window)
  BY <1>1 DEF Held, Kept, Core
<1>3. CanSave(window)
  BY DEF SaveCurrentFile, Save
<1> QED
  BY <1>1, <1>2, <1>3, SaveRoot DEF HoldsOwnText

LEMMA SaveOwnToClose ==
  ASSUME TabsInv, NEW k \in Keys, SaveAndCloseTab(k), ~spoilt, ~raced, ~spoilt'
  PROVE  HoldsOwnText(BringToFront(window, k))
<1>1. Held /\ window \in TabWindows /\ spoilt \in BOOLEAN
  BY DEF TabsInv, TypeInv
<1>2. Shape(window)
  BY <1>1 DEF Held, Kept, Core
<1>3. PICK v : v = BringToFront(window, k)
  OBVIOUS
<1>4. CanSave(v) /\ Window(v) /\ k \in OpenKeys(window)
  BY <1>3, HasTabIs DEF SaveAndCloseTab, Save
<1>5. ~Spoils(BringToFront(window, k))
  BY <1>1, <1>3, <1>4, WindowIs
<1>6. v \in TabWindows /\ Shape(v)
  BY <1>1, <1>2, <1>3, <1>4, <1>5, FrontShape
<1>7. Content(v).of = v.file
  BY <1>4, <1>6, SaveRoot
<1> QED
  BY <1>3, <1>7 DEF HoldsOwnText

LEMMA EditsKept ==
  ASSUME TabsInv, TabsInv', TabsNext, ~spoilt', ~raced', NEW i \in DOMAIN window.tabs,
         window.tabs[i].dirty, window.editor[window.tabs[i].key].version # disk[window.tabs[i].path]
  PROVE  LET k == window.tabs[i].key IN
         \/ k \in DOMAIN window'.editor /\ window'.editor[k] = window.editor[k]
         \/ Type \/ DiscardAndCloseTab(k) \/ OpenOtherProject
<1>1. PICK k : k = window.tabs[i].key
  OBVIOUS
<1>2. TypeInv /\ Fine' /\ Held' /\ window \in TabWindows
  BY DEF TabsInv, Fine, TypeInv
<1>3. CASE Type \/ OpenOtherProject
  BY <1>3
<1>4. CASE ~(Type \/ OpenOtherProject)
  <2>1. Fine
    <3>1. CASE LosesText
      <4>1. PICK j \in Keys : DiscardAndCloseTab(j)
        BY <1>4, <3>1 DEF LosesText
      <4> QED
        BY <1>2, <4>1, DiscardStep
    <3>2. CASE ~LosesText
      BY <1>2, <3>2, QuietStep DEF StepOK
    <3> QED
      BY <3>1, <3>2
  <2>2. Held /\ Shape(window)
    BY <2>1 DEF TabsInv, Fine, Held, Kept, Core
  <2>3. Entry(window, k) = window.tabs[i] /\ k \in OpenKeys(window)
    BY <1>1, <1>2, <2>2, EntryIs DEF Shape
  <2>4. EntryOK(window.tabs[i], k)
    BY <2>2, <2>3, ShapeIs DEF TabShape
  <2>5. Dirty(window, k) /\ window.editor[k].version # disk[k]
    BY <1>1, <2>3, <2>4 DEF EntryOK, Dirty
  <2>6. DOMAIN window'.editor = OpenKeys(window')
    BY <1>2 DEF Held, Kept, Core, Shape, EditorShape, OpenKeys
  <2>7. CASE LosesText
    <3>1. PICK j \in Keys : DiscardAndCloseTab(j)
      BY <1>4, <2>7 DEF LosesText
    <3>2. \A x \in OpenKeys(window) \ {j} :
            x \in OpenKeys(window') /\ window'.editor[x] = window.editor[x]
      BY <1>2, <2>2, <3>1, DiscardStep
    <3> QED
      BY <1>1, <2>3, <2>6, <3>1, <3>2
  <2>8. CASE ~LosesText
    <3>1. Survives(window', window, disk)
      BY <1>2, <2>2, <2>8, QuietStep DEF StepOK
    <3> QED
      BY <1>1, <2>3, <2>5, <2>6, <3>1 DEF Survives
  <2> QED
    BY <2>7, <2>8
<1> QED
  BY <1>3, <1>4

(* No text is lost and none is written into another's file: a save writes  *)
(* the text of the file itself, and a text that differs from the disk's    *)
(* stays in its instance until the user types on, gives it up with its     *)
(* tab (closeTab), or opens another project, which asks nothing.           *)
THEOREM TextIsAlwaysKept == TabsSpec => TextIsKept
<1>1. TabsInv =>
        (~spoilt /\ ~raced =>
           /\ SaveCurrentFile => HoldsOwnText(window)
           /\ \A k \in Keys : SaveAndCloseTab(k) /\ ~spoilt' => HoldsOwnText(BringToFront(window, k)))
  BY SaveOwn, SaveOwnToClose
<1>2. TabsInv /\ TabsInv' /\ TabsNext =>
        (~spoilt' /\ ~raced' =>
           \A i \in DOMAIN window.tabs :
             LET tab == window.tabs[i]
                 text == window.editor[tab.key]
             IN tab.dirty /\ text.version # disk[tab.path] =>
                  \/ tab.key \in DOMAIN window'.editor /\ window'.editor[tab.key] = text
                  \/ Type \/ DiscardAndCloseTab(tab.key) \/ OpenOtherProject)
  BY EditsKept
<1>3. TabsSpec => SavesOwnText
  BY <1>1, TabsInvHolds, PTL DEF SavesOwnText
<1>4. TabsSpec => EditsSurvive
  BY <1>2, TabsInvHolds, PTL DEF EditsSurvive, TabsSpec
<1> QED
  BY <1>3, <1>4 DEF TextIsKept
=============================================================================
