------------------------------ MODULE BuildTask ------------------------------
(***************************************************************************)
(* One build of the GUI: startBuildTask and stopBuildTask of               *)
(* electron-gui/src/services/buildService.js.  The main process runs       *)
(* pytest and `allure watch` as children, publishes the address of the     *)
(* report, and falls back to `allure awesome` for a static report.         *)
(*                                                                         *)
(* A step is what the event loop runs to completion: an event handler, a   *)
(* timer or the code up to the next await.  "await" is the promise that    *)
(* startBuildTask, or the close handler that finalizes it, waits for.      *)
(* Time is abstracted: a timer may fire whenever it is armed.              *)
(***************************************************************************)
VARIABLES
  task,      \* the task object, see NewTask
  manifest,  \* status and report address in build.json
  await,     \* the promise the build's control flow waits for
  probe,     \* of publishAllureReportReady: "none", "waiting", "done"
  killed,    \* children that were sent SIGKILL
  export,    \* the process of runAllureReportExport: "none", "running", "left"
  result     \* the build-completed event, "none" before it

vars == <<task, manifest, await, probe, killed, export, result>>

(* A child is "none" while its field is null, "exited" between its exit    *)
(* and its close event.                                                    *)
NewTask ==
  [ registered |-> FALSE,       \* runningBuilds has it
    build |-> "none",           \* buildChild
    report |-> "none",          \* reportChild
    reportUrl |-> "none",       \* "watch" or "static" when published
    stopped |-> FALSE,
    killTimer |-> "none",
    readyResolved |-> FALSE,    \* reportReadyResolved
    finished |-> FALSE,         \* buildFinished
    exit |-> "none",            \* buildExitCode: "zero" or "other"
    finalizing |-> FALSE,       \* finalizingBuild
    settled |-> FALSE ]         \* completionSettled

Init ==
  /\ task = NewTask
  /\ manifest = [status |-> "none", reportUrl |-> "none"]
  /\ await = "start" /\ probe = "none" /\ killed = {} /\ export = "none"
  /\ result = "none"

-----------------------------------------------------------------------------
(* The functions of the task object.                                       *)
DeleteBuildIfIdle(t) ==
  IF t.settled /\ t.build = "none" /\ t.report = "none"
  THEN [t EXCEPT !.registered = FALSE, !.killTimer = "none"] ELSE t

Settles(t, childrenLeft) ==
  /\ ~t.settled /\ t.finished /\ ~t.finalizing
  /\ ~(t.stopped /\ childrenLeft)

ChildrenLeft(t) == t.build # "none" \/ t.report # "none"

StatusWhen(t, stopped) ==
  IF stopped THEN "stopped" ELSE IF t.exit = "zero" THEN "passed" ELSE "failed"

StatusOfExit(t) == StatusWhen(t, FALSE)                        \* faulty: not of the stop

Status(t) == StatusWhen(t, t.stopped)

(* settleBuildCompletion: t is the task the handler has left behind.       *)
SettleWhen(t, condition) ==
  IF condition
  THEN /\ task' = DeleteBuildIfIdle([t EXCEPT !.settled = TRUE])
       /\ manifest' = [status |-> Status(t), reportUrl |-> t.reportUrl]
       /\ result' = Status(t)
  ELSE /\ task' = t
       /\ UNCHANGED <<manifest, result>>

SettleBuildCompletion(t) == SettleWhen(t, Settles(t, ChildrenLeft(t)))

(* What a report being published leaves in the task, and patchManifest,    *)
(* which reads build.json and writes it back with the address.             *)
Published(t, url) == [t EXCEPT !.reportUrl = url, !.readyResolved = TRUE]

PatchFromScratch(url) == [status |-> "running", reportUrl |-> url]  \* faulty: does not read

PatchManifest(url) == [manifest EXCEPT !.reportUrl = url]

-----------------------------------------------------------------------------
(* startBuildTask, up to the await of maybeStartAllureWatch: the task is   *)
(* registered and its manifest says "running".                             *)
StartBuildTask ==
  /\ await = "start"
  /\ await' = "watch runtime"
  /\ task' = [task EXCEPT !.registered = TRUE]
  /\ manifest' = [status |-> "running", reportUrl |-> "none"]
  /\ UNCHANGED <<probe, killed, export, result>>

(* The build cannot go on: it is finished without a pytest process.        *)
GiveUp(t, exit) ==
  /\ await' = "nothing"
  /\ SettleBuildCompletion([t EXCEPT !.finished = TRUE, !.exit = exit])

(* spawn of pytest, which may throw.                                       *)
SpawnBuild(t) ==
  \/ /\ task' = [t EXCEPT !.build = "alive"]
     /\ await' = "pytest"
     /\ UNCHANGED <<manifest, result>>
  \/ GiveUp(t, "other")

(* The Allure runtime was looked up: it is there, is not, or the look-up   *)
(* or the spawn of the watch process fails.                                *)
WatchRuntimeResolved ==
  /\ await = "watch runtime"
  /\ \/ task.stopped /\ GiveUp([task EXCEPT !.readyResolved = TRUE], task.exit)
     \/ ~task.stopped /\ SpawnBuild([task EXCEPT !.report = "alive"])
     \/ ~task.stopped /\ SpawnBuild([task EXCEPT !.readyResolved = TRUE])
     \/ GiveUp(task, "other")
  /\ UNCHANGED <<probe, killed, export>>

-----------------------------------------------------------------------------
(* The report process prints the address of its server; the task probes it *)
(* (resolveAllureReportUrl) until it answers, or a deadline passes, and    *)
(* publishes it in both cases, unless there is a reason not to any more.   *)
PrintUrl ==
  /\ task.report # "none" /\ probe = "none" /\ task.reportUrl = "none"
  /\ probe' = "waiting"
  /\ UNCHANGED <<task, manifest, await, killed, export, result>>

PublishIf(condition) ==
  /\ probe = "waiting" /\ probe' = "done"
  /\ IF condition
     THEN /\ task' = Published(task, "watch")
          /\ manifest' = PatchManifest("watch")
     ELSE UNCHANGED <<task, manifest>>
  /\ UNCHANGED <<await, killed, export, result>>

PublishAnyway == PublishIf(TRUE)  \* faulty: no check after the await

PublishAllureReportReady == PublishIf(~task.stopped /\ task.reportUrl = "none")

ReportExits ==
  /\ task.report = "alive"
  /\ \E spawnFailed \in BOOLEAN :
       task' = [task EXCEPT !.report = "exited",
                            !.readyResolved = task.readyResolved \/ spawnFailed]
  /\ UNCHANGED <<manifest, await, probe, killed, export, result>>

(* The close handler settles and then looks whether the entry can go.      *)
ReportClosed(t) == [t EXCEPT !.report = "none", !.readyResolved = TRUE]

ReportCloseKeepsEntry ==  \* faulty: deleteBuildIfIdle is not called
  /\ task.report = "exited"
  /\ SettleBuildCompletion(ReportClosed(task))
  /\ UNCHANGED <<await, probe, killed, export>>

ReportCloses ==
  /\ task.report = "exited"
  /\ SettleBuildCompletion(DeleteBuildIfIdle(ReportClosed(task)))
  /\ UNCHANGED <<await, probe, killed, export>>

-----------------------------------------------------------------------------
(* The end of the close handler of pytest.                                 *)
Finalized(t) ==
  /\ await' = "nothing"
  /\ SettleBuildCompletion([t EXCEPT !.finalizing = FALSE])

(* maybePublishStaticAllureReport, first part: nothing to do, a report the *)
(* watch process already wrote, or an export, for which a watch process    *)
(* that is still alive is stopped.                                         *)
PublishStatic(t) ==
  \/ Finalized(t)
  \/ ~t.stopped /\ t.reportUrl = "none" /\ Finalized(Published(t, "static"))
  \/ /\ ~t.stopped /\ t.reportUrl = "none"
     /\ await' = IF t.report = "alive" THEN "watch end" ELSE "export runtime"
     /\ task' = t
     /\ UNCHANGED <<manifest, result>>

(* pytest ends, by itself or by a signal; its close handler runs.          *)
BuildCloses ==
  /\ task.build = "alive"
  /\ \E exit \in {"zero", "other"} :
       LET t == [task EXCEPT !.build = "none", !.finished = TRUE, !.exit = exit,
                             !.finalizing = ~task.stopped] IN
       IF t.stopped
       THEN await' = "nothing" /\ SettleBuildCompletion(t)
       ELSE IF t.readyResolved \/ t.report = "none"
       THEN PublishStatic(t)
       ELSE await' = "report" /\ task' = t /\ UNCHANGED <<manifest, result>>
  /\ UNCHANGED <<probe, killed, export>>

(* waitForReportReadyBeforeCompletion: the report is ready, or a timeout.  *)
ReportWaitEnds ==
  /\ await = "report"
  /\ PublishStatic(task)
  /\ UNCHANGED <<probe, killed, export>>

(* stopReportChildForStaticFallback: SIGKILL after a while, and an end of  *)
(* the wait in any case.                                                   *)
FallbackKill ==
  /\ await = "watch end" /\ task.report = "alive"
  /\ killed' = killed \cup {"report"}
  /\ UNCHANGED <<task, manifest, await, probe, export, result>>

WatchEnded ==
  /\ await = "watch end"
  /\ IF task.stopped \/ task.reportUrl # "none"
     THEN Finalized(task)
     ELSE await' = "export runtime" /\ UNCHANGED <<task, manifest, result>>
  /\ UNCHANGED <<probe, killed, export>>

(* The runtime for the export was looked up; a stop since is not noticed.  *)
ExportRuntimeResolved ==
  /\ await = "export runtime"
  /\ \/ Finalized(task) /\ UNCHANGED export
     \/ /\ export' = "running" /\ await' = "export"
        /\ UNCHANGED <<task, manifest, result>>
  /\ UNCHANGED <<probe, killed>>

(* The export ends with a report or without one, or times out; the         *)
(* publication checks again.                                               *)
ExportEndsInto(failed) ==
  /\ await = "export"
  /\ \/ /\ export' = "none"
        /\ Finalized(IF task.stopped \/ task.reportUrl # "none"
                     THEN task ELSE Published(task, "static"))
     \/ export' \in {"none", "left"} /\ failed
  /\ UNCHANGED <<probe, killed>>

ExportFailureEscapes ==  \* faulty: finalizingBuild is not reset in a finally
  ExportEndsInto(await' = "nothing" /\ UNCHANGED <<task, manifest, result>>)

ExportEnds == ExportEndsInto(Finalized(task))

-----------------------------------------------------------------------------
(* stopBuildTask: SIGTERM, which a child may ignore, and a timer.          *)
StopBuildTask ==
  /\ task.registered
  /\ SettleBuildCompletion(
       [task EXCEPT !.stopped = TRUE,
                    !.killTimer = IF task.killTimer = "none" THEN "armed" ELSE @])
  /\ UNCHANGED <<await, probe, killed, export>>

Alive(t) == (IF t.build = "alive" THEN {"build"} ELSE {})
              \cup (IF t.report = "alive" THEN {"report"} ELSE {})

KillWhenFired(children) ==
  /\ task.killTimer = "armed"
  /\ task' = [task EXCEPT !.killTimer = "fired"]
  /\ killed' = killed \cup children
  /\ UNCHANGED <<manifest, await, probe, export, result>>

KillTimerKillsBuild == KillWhenFired(Alive(task) \cap {"build"})  \* faulty: not the report

KillTimerFires == KillWhenFired(Alive(task))

Ended == ~task.registered /\ result # "none" /\ UNCHANGED vars

Next ==
  \/ StartBuildTask \/ WatchRuntimeResolved
  \/ PrintUrl \/ PublishAllureReportReady \/ ReportExits \/ ReportCloses
  \/ BuildCloses \/ ReportWaitEnds \/ FallbackKill \/ WatchEnded
  \/ ExportRuntimeResolved \/ ExportEnds
  \/ StopBuildTask \/ KillTimerFires
  \/ Ended

Spec == Init /\ [][Next]_vars

(* Every await, timer and close event comes; a process ends when it was    *)
(* killed, but pytest and the watch process need not end by themselves.    *)
Fairness ==
  /\ WF_vars(WatchRuntimeResolved) /\ WF_vars(PublishAllureReportReady)
  /\ WF_vars(ReportWaitEnds) /\ WF_vars(WatchEnded)
  /\ WF_vars(ExportRuntimeResolved) /\ WF_vars(ExportEnds)
  /\ WF_vars(KillTimerFires)
  /\ WF_vars("build" \in killed /\ BuildCloses)
  /\ WF_vars("report" \in killed /\ ReportExits) /\ WF_vars(ReportCloses)

FairSpec == Spec /\ Fairness

-----------------------------------------------------------------------------
(* Properties.                                                             *)
Urls == {"none", "watch", "static"}
Children == {"none", "alive", "exited"}
Statuses == {"none", "passed", "failed", "stopped"}

Tasks ==
  [ registered : BOOLEAN, build : Children \ {"exited"}, report : Children,
    reportUrl : Urls, stopped : BOOLEAN, killTimer : {"none", "armed", "fired"},
    readyResolved : BOOLEAN, finished : BOOLEAN, exit : {"none", "zero", "other"},
    finalizing : BOOLEAN, settled : BOOLEAN ]

Manifests == [status : Statuses \cup {"running"}, reportUrl : Urls]

(* Types of the build's state.                                             *)
TypeOK ==
  /\ task \in Tasks
  /\ manifest \in Manifests
  /\ await \in { "start", "watch runtime", "pytest", "report", "watch end",
                 "export runtime", "export", "nothing" }
  /\ probe \in {"none", "waiting", "done"}
  /\ killed \subseteq {"build", "report"}
  /\ export \in {"none", "running", "left"}
  /\ result \in Statuses

(* build.json tells what the window was told, whichever of the writers     *)
(* comes last: the status of the completion, and the published address.    *)
ManifestAgrees ==
  /\ manifest.reportUrl = task.reportUrl
  /\ task.settled => manifest.status = result

(* A build reported as stopped has no pytest and no watch process left.    *)
StoppedMeansDead ==
  result = "stopped" => task.build = "none" /\ task.report = "none"

(* The entry in runningBuilds lasts exactly as long as there is something  *)
(* to stop or to complete: its children can be reached until they end, and *)
(* none is left behind.                                                    *)
EntryWhileNeeded ==
  await # "start" =>
    (task.registered <=> ~task.settled \/ ChildrenLeft(task))

(* The entry of a build is there while something needs it, and nothing     *)
(* outlives a stop.                                                        *)
EntryIsSafe == TypeOK /\ StoppedMeansDead /\ EntryWhileNeeded

(* Two asynchronous publishers and a stop race: an address that was        *)
(* published is never replaced, and none is published after a stop.        *)
PublishedOnce ==
  [][task'.reportUrl # task.reportUrl
       => task.reportUrl = "none" /\ ~task.stopped]_vars

(* The build keeps the promise of a GUI task.                              *)
Promise == INSTANCE TaskPromise WITH
  phase <- IF await = "start" THEN "new"
           ELSE IF ~task.settled THEN "running"
           ELSE IF task.registered THEN "completed" ELSE "forgotten",
  cancelled <- task.stopped,
  outcome <- result

KeepsPromise == Promise!Spec

(* A stop ends the build, children that ignore SIGTERM included, and its   *)
(* entry goes.                                                             *)
StopEnds == []<>(task.stopped => ~task.registered)

(* Once pytest has ended the build completes, whatever the watch process   *)
(* and the export do.                                                      *)
FinishedCompletes == []<>(task.finished => task.settled)

(* test/buildService.test.js, "cancellation during delayed Allure          *)
(* resolution never starts report or build children": no child is started  *)
(* for a build that is stopped.                                            *)
NoChildAfterStop ==
  [][task.stopped =>
       /\ task.build = "none" => task'.build = "none"
       /\ task.report = "none" => task'.report = "none"
       /\ export' = "running" => export = "running"]_vars
=============================================================================
