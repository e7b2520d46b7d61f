----------------------------- MODULE BuildReport -----------------------------
(***************************************************************************)
(* The report frame and the history of the build page:                     *)
(* electron-gui/src/renderer/buildReportController.js, with the events of  *)
(* a build (handleBuildEvent of executionController.js), the change of the *)
(* page (workspaceController.js) and of the project.  A frame that appears *)
(* is revealed one animation frame and one timer later, and its page is    *)
(* loaded again 500 ms and 1500 ms after it was set.                       *)
(***************************************************************************)
EXTENDS Naturals, Sequences, FiniteSets

CONSTANTS
  MaxBuilds,   \* bound: builds started
  MaxHistory,  \* entries the history keeps
  NoBuild      \* no build, no report, about:blank

ASSUME ReportAssumption ==
  MaxBuilds \in Nat /\ MaxHistory \in Nat \ {0} /\ NoBuild \notin 1 .. MaxBuilds

VARIABLES
  view,        \* activeView
  started,     \* history: builds started so far
  busy,        \* currentTaskId is a build
  current,     \* currentBuildId
  report,      \* currentBuildReportUrl: the build it is the report of
  frame,       \* buildReportFrame: its page and whether it is hidden
  reveal,      \* "none", or what buildReportReveal... waits for
  reload,      \* the reload timer: what it was set for
  builds,      \* of a build: the events that still come
  past         \* buildHistory, the newest first

reportVars ==
  <<view, started, busy, current, report, frame, reveal, reload, builds, past>>

NoTimer == [on |-> FALSE]
HiddenFrame == [page |-> NoBuild, token |-> NoBuild, reloads |-> 0, hidden |-> TRUE]

ReportInit ==
  /\ view = "debug" /\ started = 0 /\ busy = FALSE
  /\ current = NoBuild /\ report = NoBuild
  /\ frame = HiddenFrame /\ reveal = "none" /\ reload = NoTimer
  /\ builds = [b \in 1 .. MaxBuilds |-> {}]
  /\ past = <<>>

-----------------------------------------------------------------------------
ResetBuildReport ==
  /\ report' = NoBuild
  /\ frame' = HiddenFrame /\ reveal' = "none" /\ reload' = NoTimer

(* syncBuildReportFrameVisibility: the frame, and what its reveal waits    *)
(* for.                                                                    *)
Visibility(f, url, where, defer) ==
  IF url = NoBuild \/ where # "build" THEN <<[f EXCEPT !.hidden = TRUE], "none">>
  ELSE IF defer THEN <<[f EXCEPT !.hidden = TRUE], "frame">>
  ELSE <<[f EXCEPT !.hidden = FALSE], "none">>

(* setBuildReportUrl                                                       *)
SetBuildReportUrl(url) ==
  LET shown == Visibility([frame EXCEPT !.page = url, !.token = current, !.reloads = 0],
                          url, view, view = "build")
  IN  /\ report' = url
      /\ frame' = shown[1] /\ reveal' = shown[2]
      /\ reload' = [on |-> TRUE, attempt |-> 1, build |-> current, url |-> url]

KeepReport == UNCHANGED <<report, frame, reveal, reload>>

(* The animation frame, then the timer of deferBuildReportFrameReveal.     *)
RevealStep ==
  /\ \/ reveal = "frame" /\ reveal' = "timer" /\ UNCHANGED frame
     \/ /\ reveal = "timer" /\ reveal' = "none"
        /\ frame' = IF report # NoBuild /\ view = "build"
                    THEN [frame EXCEPT !.hidden = FALSE] ELSE frame
  /\ UNCHANGED <<view, started, busy, current, report, reload, builds, past>>

(* What scheduleBuildReportReloadAttempt(attempt + 1) sets.                *)
AfterReload == IF reload.attempt = 1 THEN [reload EXCEPT !.attempt = 2] ELSE NoTimer

ReloadIsDue == current = reload.build /\ report = reload.url

(* scheduleBuildReportReloadAttempt when its timer fires                   *)
ReloadFires ==
  /\ reload.on
  /\ IF ReloadIsDue
     THEN /\ frame' = [frame EXCEPT !.page = reload.url, !.token = reload.build,
                                    !.reloads = @ + 1]
          /\ reload' = AfterReload
     ELSE reload' = NoTimer /\ UNCHANGED frame
  /\ UNCHANGED <<view, started, busy, current, report, reveal, builds, past>>

-----------------------------------------------------------------------------
(* switchWorkspaceView, once unsaved files were confirmed                  *)
SwitchView ==
  LET next == IF view = "build" THEN "debug" ELSE "build"
      shown == Visibility(frame, report, next, next = "build")
  IN  /\ view' = next
      /\ frame' = shown[1] /\ reveal' = shown[2]
      /\ UNCHANGED <<started, busy, current, report, reload, builds, past>>

(* runBuildExecution; its awaits are in ExecutionWindow.                   *)
StartBuild ==
  /\ ~busy /\ started < MaxBuilds
  /\ started' = started + 1
  /\ busy' = TRUE /\ current' = started + 1
  /\ ResetBuildReport
  /\ builds' = [builds EXCEPT ![started + 1] = {"report-ready", "build-completed"}]
  /\ UNCHANGED <<view, past>>

(* applySnapshot of another project                                        *)
OpenOtherBuilds ==
  /\ current # NoBuild
  /\ current' = NoBuild /\ past' = <<>>
  /\ ResetBuildReport
  /\ UNCHANGED <<view, started, busy, builds>>

-----------------------------------------------------------------------------
(* The events of a build; the report may be ready after the end.           *)

(* A mutant of IsCurrentBuild: every build's events are taken.             *)
IsAnyBuild(b) == TRUE

IsCurrentBuild(b) == b = current

Heard(b, event) ==
  /\ event \in builds[b]
  /\ builds' = [builds EXCEPT ![b] = @ \ {event}]
  /\ UNCHANGED <<view, started>>

ReportReady(b) ==
  /\ Heard(b, "report-ready")
  /\ IF IsCurrentBuild(b) THEN SetBuildReportUrl(b) ELSE KeepReport
  /\ UNCHANGED <<busy, current, past>>

(* The j-th smallest element of a set of positions.                        *)
NthOf(S, j) == CHOOSE i \in S : Cardinality({k \in S : k < i}) = j - 1

(* recordBuildHistory: the first entry of each build, the newest in front. *)
RecordBuildHistory(entry) ==
  LET list == <<entry>> \o past
      first == {i \in 1 .. Len(list) : \A j \in 1 .. i - 1 : list[j].build # list[i].build}
      length == IF Cardinality(first) < MaxHistory THEN Cardinality(first) ELSE MaxHistory
  IN  [j \in 1 .. length |-> list[NthOf(first, j)]]

(* The event names the report when the build has one.                      *)
BuildCompleted(b) ==
  \E named \in {NoBuild} \cup (IF "report-ready" \in builds[b] THEN {} ELSE {b}) :
    /\ Heard(b, "build-completed")
    /\ IF IsCurrentBuild(b)
       THEN /\ busy' = FALSE
            /\ IF named # NoBuild /\ report = NoBuild
               THEN SetBuildReportUrl(named) ELSE KeepReport
            /\ past' = RecordBuildHistory(
                 [build |-> b, report |-> IF named # NoBuild THEN named ELSE report'])
       ELSE KeepReport /\ UNCHANGED <<busy, past>>
    /\ UNCHANGED current

ReportNext ==
  \/ RevealStep \/ ReloadFires \/ SwitchView \/ StartBuild \/ OpenOtherBuilds
  \/ \E b \in 1 .. MaxBuilds : ReportReady(b) \/ BuildCompleted(b)

ReportSpec == ReportInit /\ [][ReportNext]_reportVars

-----------------------------------------------------------------------------
(* The variables have their types.                                         *)
ReportTypeOK ==
  /\ view \in {"debug", "build"} /\ started \in 0 .. MaxBuilds /\ busy \in BOOLEAN
  /\ current \in 0 .. MaxBuilds \cup {NoBuild} /\ report \in 0 .. MaxBuilds \cup {NoBuild}
  /\ reveal \in {"none", "frame", "timer"}
  /\ frame.reloads \in 0 .. 2 /\ frame.hidden \in BOOLEAN

(* The frame is seen only on the build page and only with a report in it,  *)
(* a reveal that is under way is one the page still wants, and a report    *)
(* the page has is seen or about to be.                                    *)
FrameOnlyWithReport ==
  /\ ~frame.hidden => view = "build" /\ report # NoBuild
  /\ view = "build" /\ report # NoBuild /\ frame.hidden => reveal # "none"
  /\ reveal # "none" => view = "build" /\ report # NoBuild /\ frame.hidden

(* Whatever timers are left over from earlier builds, the frame holds the  *)
(* report of the current build, under that build's token, or nothing.      *)
FrameHoldsCurrentReport ==
  /\ frame.page = report
  /\ report # NoBuild => report = current /\ frame.token = current

(* The history lists the last builds of this project, each once, and names *)
(* no other build's report for any of them.                                *)
HistoryIsOwn ==
  /\ Len(past) <= MaxHistory
  /\ \A i, j \in 1 .. Len(past) : i < j => past[i].build > past[j].build
  /\ \A i \in 1 .. Len(past) : past[i].report \in {NoBuild, past[i].build}

(* The build page shows the report of the current build and the history of *)
(* this project's.                                                         *)
ReportTellsTruth ==
  ReportTypeOK /\ FrameOnlyWithReport /\ FrameHoldsCurrentReport /\ HistoryIsOwn
=============================================================================
