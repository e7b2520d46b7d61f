-------------------------- MODULE BuildProofs --------------------------
(***************************************************************************)
(* Proofs about a build and about the frame that shows its report.         *)
(*                                                                         *)
(* BuildTask: the invariants of a build, and that it keeps the promise of  *)
(* a task.                                                                 *)
(*                                                                         *)
(* Most of what a handler does ends in settleBuildCompletion, so the       *)
(* inductive invariant says where in its control flow a build can be       *)
(* (Flow), and that a build that could settle has settled (Settled).       *)
(*                                                                         *)
(* BuildReport, for any number of builds.                                  *)
(*                                                                         *)
(* The argument: the report is never that of another build than the        *)
(* current one, because whatever changes the current build also clears the *)
(* report; and a reload timer that is still due names what the frame holds *)
(* already.  The current build is the last one started, so a build that is *)
(* recorded is newer than all of the history.                              *)
(***************************************************************************)
EXTENDS BuildTask, BuildReport, FiniteSetTheorems, TLAPS

Finalizing == {"report", "watch end", "export runtime", "export"}

Flow ==
  /\ await = "start" =>
       /\ ~task.registered /\ ~task.stopped /\ task.report = "none"
       /\ task.reportUrl = "none" /\ ~task.settled /\ task.killTimer = "none"
       /\ probe = "none"
  /\ await = "watch runtime" => task.report = "none"
  /\ task.build = "alive" <=> await = "pytest"
  /\ task.finalizing <=> await \in Finalizing
  /\ task.finished <=> await \in Finalizing \cup {"nothing"}

Settled ==
  /\ result = "none" <=> ~task.settled
  /\ task.settled => task.finished /\ ~task.finalizing
  /\ task.finished /\ ~task.finalizing /\ ~task.settled => task.stopped /\ ChildrenLeft(task)
  /\ result = "stopped" => task.stopped

BuildInv == TypeOK /\ Flow /\ Settled /\ ManifestAgrees /\ StoppedMeansDead /\ EntryWhileNeeded

(* What a step of a build that was started may do: publish once and not    *)
(* after a stop, stop without doing more, complete with the right outcome. *)
Progress ==
  /\ await # "start" /\ await' # "start"
  /\ task'.reportUrl = task.reportUrl \/ (task.reportUrl = "none" /\ ~task.stopped)
  /\ task'.registered => task.registered
  /\ \/ task'.stopped = task.stopped
     \/ /\ task'.stopped /\ task'.registered /\ task.registered
        /\ task'.settled = task.settled /\ result' = result
  /\ \/ task'.settled = task.settled /\ result' = result
     \/ /\ ~task.settled /\ task'.settled
        /\ result' \in IF task.stopped THEN {"stopped"} ELSE {"passed", "failed"}

LEMMA BuildInit == Init => BuildInv
  BY DEF Init, NewTask, Tasks, Manifests, BuildInv, TypeOK, Flow, Settled, Finalizing,
         ManifestAgrees, StoppedMeansDead, EntryWhileNeeded, Urls, Children, Statuses, ChildrenLeft

(* What the invariant and the types say of the fields of the task. *)
LEMMA TaskFields ==
  ASSUME BuildInv
  PROVE  /\ task.build \in {"none", "alive"} /\ task.report \in Children
         /\ {task.stopped, task.finished, task.finalizing, task.settled,
             task.registered, task.readyResolved} \subseteq BOOLEAN
         /\ task \in Tasks
  BY DEF BuildInv, TypeOK, Tasks, Children

-----------------------------------------------------------------------------
(* Settling a task.                                                        *)

LEMMA IdleType == ASSUME NEW t \in Tasks PROVE DeleteBuildIfIdle(t) \in Tasks
  BY DEF Tasks, DeleteBuildIfIdle

LEMMA SettledTypes ==
  ASSUME NEW t \in Tasks
  PROVE  /\ DeleteBuildIfIdle([t EXCEPT !.settled = TRUE]) \in Tasks
         /\ Status(t) \in Statuses \ {"none"}
         /\ t.reportUrl \in Urls
<1>1. [t EXCEPT !.settled = TRUE] \in Tasks
  BY DEF Tasks
<1>2. DeleteBuildIfIdle([t EXCEPT !.settled = TRUE]) \in Tasks
  BY <1>1, IdleType
<1>3. Status(t) \in Statuses \ {"none"} /\ t.reportUrl \in Urls
  BY DEF Tasks, Status, StatusWhen, Statuses
<1> QED
  BY <1>2, <1>3

(* What settleBuildCompletion leaves of the task it was given. *)
LEMMA SettledFields ==
  ASSUME NEW t \in Tasks, SettleBuildCompletion(t)
  PROVE  /\ task'.build = t.build /\ task'.report = t.report /\ task'.stopped = t.stopped
         /\ task'.finished = t.finished /\ task'.finalizing = t.finalizing
         /\ task'.reportUrl = t.reportUrl
         /\ task'.settled = (t.settled \/ Settles(t, ChildrenLeft(t)))
         /\ task'.registered =
              (t.registered /\ ~(Settles(t, ChildrenLeft(t)) /\ ~ChildrenLeft(t)))
  BY DEF Tasks, SettleBuildCompletion, SettleWhen, DeleteBuildIfIdle, ChildrenLeft

LEMMA SettledResult ==
  ASSUME TypeOK, NEW t \in Tasks, SettleBuildCompletion(t)
  PROVE  /\ task' \in Tasks /\ manifest' \in Manifests /\ result' \in Statuses
         /\ IF Settles(t, ChildrenLeft(t))
            THEN /\ result' = Status(t) /\ result' # "none"
                 /\ manifest'.status = result' /\ manifest'.reportUrl = t.reportUrl
                 /\ result' = "stopped" <=> t.stopped
                 /\ result' \in IF t.stopped THEN {"stopped"} ELSE {"passed", "failed"}
            ELSE result' = result /\ manifest' = manifest
<1>1. task' \in Tasks /\ result' \in Statuses
  BY SettledTypes DEF TypeOK, SettleBuildCompletion, SettleWhen
<1>2. CASE Settles(t, ChildrenLeft(t))
  <2>1. manifest' = [status |-> Status(t), reportUrl |-> t.reportUrl] /\ result' = Status(t)
    BY <1>2 DEF SettleBuildCompletion, SettleWhen
  <2>2. Status(t) \in Statuses \cup {"running"} /\ t.reportUrl \in Urls /\ Status(t) # "none"
    BY SettledTypes
  <2>3. manifest' \in Manifests
    BY <2>1, <2>2 DEF Manifests
  <2>4. /\ Status(t) = "stopped" <=> t.stopped
        /\ Status(t) \in IF t.stopped THEN {"stopped"} ELSE {"passed", "failed"}
    BY DEF Status, StatusWhen, Tasks
  <2> QED
    BY <1>1, <1>2, <2>1, <2>2, <2>3, <2>4
<1>3. CASE ~Settles(t, ChildrenLeft(t))
  BY <1>1, <1>3 DEF TypeOK, SettleBuildCompletion, SettleWhen
<1> QED
  BY <1>2, <1>3

(* A handler keeps the invariant when it leaves behind a task like this:   *)
(* in step with the await it goes to, stopped if it was, settled only if   *)
(* it was, and with the address of the manifest unless it now settles.     *)
InStep(t) ==
  /\ t.build = "alive" <=> await' = "pytest"
  /\ t.finalizing <=> await' \in Finalizing
  /\ t.finished <=> await' \in Finalizing \cup {"nothing"}
  /\ await' # "start" /\ (await' = "watch runtime" => t.report = "none")

Continues(t) ==
  /\ t.settled = task.settled
  /\ task.settled => task.finished /\ t.finished /\ ~t.finalizing
  /\ t.registered => task.registered
  /\ \/ t.stopped = task.stopped
     \/ t.stopped /\ t.registered /\ task.registered /\ ~Settles(t, ChildrenLeft(t))
  /\ t.registered <=> ~t.settled \/ ChildrenLeft(t)
  /\ result = "stopped" => ~ChildrenLeft(t)
  /\ \/ t.reportUrl = task.reportUrl
     \/ /\ Settles(t, ChildrenLeft(t))
        /\ task.reportUrl = "none" /\ ~task.stopped

LEMMA SettleKeeps ==
  ASSUME BuildInv, NEW t \in Tasks, SettleBuildCompletion(t), InStep(t), Continues(t),
         await # "start", await' \in {"watch runtime", "pytest", "nothing"} \cup Finalizing,
         UNCHANGED <<probe, killed>>, export' \in {"none", "running", "left"}
  PROVE  BuildInv' /\ Progress
<1> USE DEF BuildInv
<1>1. TypeOK'
  BY SettledResult DEF TypeOK, Finalizing
<1>2. Flow'
  BY SettledFields DEF Flow, InStep
<1>3. ManifestAgrees'
  BY SettledFields, SettledResult DEF ManifestAgrees, Continues
<1>4. Settled'
  BY SettledFields, SettledResult DEF Settled, Settles, ChildrenLeft, Continues
<1>5. StoppedMeansDead'
  BY SettledFields, SettledResult DEF StoppedMeansDead, Settles, ChildrenLeft, Continues, Settled
<1>6. EntryWhileNeeded'
  BY SettledFields DEF EntryWhileNeeded, Settles, ChildrenLeft, Continues
<1>7. Progress
  BY SettledFields, SettledResult, TaskFields DEF Progress, Continues, Settles, Finalizing
<1> QED
  BY <1>1, <1>2, <1>3, <1>4, <1>5, <1>6, <1>7

-----------------------------------------------------------------------------
(* One lemma per way in which the handlers settle.                         *)

LEMMA FinalizedKeeps ==
  ASSUME BuildInv, NEW t \in Tasks, Finalized(t),
         t.finished, t.build = "none", ~t.settled, ~task.settled, t.registered,
         t.stopped = task.stopped, await # "start",
         t.reportUrl = task.reportUrl \/ (~t.stopped /\ task.reportUrl = "none"),
         UNCHANGED <<probe, killed>>, export' \in {"none", "running", "left"}
  PROVE  BuildInv' /\ Progress
<1> DEFINE u == [t EXCEPT !.finalizing = FALSE]
<1>1. /\ u \in Tasks /\ u.finished = t.finished /\ u.build = t.build /\ ~u.finalizing
      /\ u.settled = t.settled /\ u.registered = t.registered /\ u.stopped = t.stopped
      /\ u.reportUrl = t.reportUrl
  BY DEF Tasks
<1>2. SettleBuildCompletion(u) /\ await' = "nothing"
  BY DEF Finalized
<1>3. result = "none" /\ u.settled = task.settled /\ task.registered
  <2>1. u.settled \in BOOLEAN /\ task.settled \in BOOLEAN
    BY <1>1, TaskFields DEF Tasks
  <2> QED
    BY <1>1, <2>1 DEF BuildInv, Settled, EntryWhileNeeded
<1> HIDE DEF u
<1>4. InStep(u)
  BY <1>1, <1>2 DEF InStep, Finalizing
<1>5. Continues(u)
  BY <1>1, <1>3 DEF Continues, Settles
<1> QED
  BY <1>1, <1>2, <1>4, <1>5, SettleKeeps

LEMMA GiveUpKeeps ==
  ASSUME BuildInv, NEW t \in Tasks, NEW exit \in {"none", "zero", "other"}, GiveUp(t, exit),
         await = "watch runtime", t.build = "none", ~t.finalizing,
         t.settled = task.settled, t.registered = task.registered,
         t.stopped = task.stopped, t.reportUrl = task.reportUrl,
         UNCHANGED <<probe, killed, export>>
  PROVE  BuildInv' /\ Progress
<1> DEFINE u == [t EXCEPT !.finished = TRUE, !.exit = exit]
<1>1. /\ u \in Tasks /\ u.finished /\ u.build = t.build /\ u.finalizing = t.finalizing
      /\ u.settled = t.settled /\ u.registered = t.registered /\ u.stopped = t.stopped
      /\ u.reportUrl = t.reportUrl
  BY DEF Tasks
<1>2. SettleBuildCompletion(u) /\ await' = "nothing"
  BY DEF GiveUp
<1> HIDE DEF u
<1>3. ~task.settled /\ result = "none" /\ task.registered
  BY DEF BuildInv, Flow, Settled, EntryWhileNeeded, Finalizing
<1>4. InStep(u)
  BY <1>1, <1>2 DEF InStep, Finalizing
<1>5. Continues(u)
  BY <1>1, <1>3 DEF Continues, ChildrenLeft
<1> QED
  BY <1>1, <1>2, <1>4, <1>5, SettleKeeps DEF BuildInv, TypeOK

(* A static report is tried, for a task t whose pytest has just closed. *)
LEMMA PublishStaticKeeps ==
  ASSUME BuildInv, NEW t \in Tasks, PublishStatic(t),
         t.finished, t.finalizing, t.build = "none", ~t.settled, ~task.settled,
         t.registered, task.registered, await # "start", t.stopped = task.stopped, t.reportUrl = task.reportUrl,
         t.report = task.report, UNCHANGED <<probe, killed, export>>
  PROVE  BuildInv' /\ Progress
<1>0. export' \in {"none", "running", "left"}
  BY DEF BuildInv, TypeOK
<1>1. CASE Finalized(t)
  BY <1>0, <1>1, FinalizedKeeps
<1>2. CASE ~t.stopped /\ t.reportUrl = "none" /\ Finalized(Published(t, "static"))
  <2> DEFINE u == Published(t, "static")
  <2>1. /\ u \in Tasks /\ u.finished = t.finished /\ u.build = t.build
        /\ u.settled = t.settled /\ u.registered = t.registered /\ u.stopped = t.stopped
    BY DEF Tasks, Published, Urls
  <2> HIDE DEF u
  <2>2. Finalized(u)
    BY <1>2 DEF u
  <2> QED
    BY <1>0, <1>2, <2>1, <2>2, FinalizedKeeps
<1>3. CASE task' = t /\ UNCHANGED <<manifest, result>>
           /\ await' = IF t.report = "alive" THEN "watch end" ELSE "export runtime"
  <2>1. TypeOK'
    BY <1>3 DEF BuildInv, TypeOK
  <2>2. Flow' /\ Settled'
    BY <1>3 DEF BuildInv, Flow, Settled, Finalizing
  <2>3. ManifestAgrees' /\ StoppedMeansDead' /\ EntryWhileNeeded'
    BY <1>3 DEF BuildInv, Settled, ManifestAgrees, StoppedMeansDead, EntryWhileNeeded
  <2>4. Progress
    BY <1>3, TaskFields DEF Progress, Tasks
  <2> QED
    BY <2>1, <2>2, <2>3, <2>4 DEF BuildInv
<1> QED
  BY <1>1, <1>2, <1>3 DEF PublishStatic

-----------------------------------------------------------------------------
(* The actions.                                                            *)

LEMMA StartKeeps == ASSUME BuildInv, StartBuildTask PROVE BuildInv'
<1>1. /\ task' \in Tasks /\ task'.registered
      /\ task'.build = task.build /\ task'.report = task.report
      /\ task'.reportUrl = task.reportUrl /\ task'.stopped = task.stopped
      /\ task'.finished = task.finished /\ task'.finalizing = task.finalizing
      /\ task'.settled = task.settled
  BY TaskFields DEF StartBuildTask, Tasks
<1>2. manifest' \in Manifests
  BY DEF StartBuildTask, Manifests, Urls
<1>3. TypeOK'
  BY <1>1, <1>2 DEF BuildInv, TypeOK, StartBuildTask
<1>4. Flow' /\ Settled'
  BY <1>1, TaskFields DEF BuildInv, Flow, Settled, Finalizing, ChildrenLeft, StartBuildTask
<1>5. ManifestAgrees' /\ StoppedMeansDead' /\ EntryWhileNeeded'
  BY <1>1 DEF BuildInv, Flow, ManifestAgrees, StoppedMeansDead, EntryWhileNeeded, StartBuildTask
<1> QED
  BY <1>3, <1>4, <1>5 DEF BuildInv

LEMMA SpawnKeeps ==
  ASSUME BuildInv, await = "watch runtime", ~task.stopped, NEW t \in Tasks, SpawnBuild(t),
         t.build = task.build, t.settled = task.settled, t.registered = task.registered,
         t.stopped = task.stopped, t.reportUrl = task.reportUrl,
         t.finished = task.finished, t.finalizing = task.finalizing,
         UNCHANGED <<probe, killed, export>>
  PROVE  BuildInv' /\ Progress
<1>1. /\ task.build = "none" /\ ~task.finished /\ ~task.finalizing /\ ~task.settled
      /\ result = "none" /\ task.registered
  BY TaskFields DEF BuildInv, Flow, Settled, Finalizing, EntryWhileNeeded
<1>2. CASE GiveUp(t, "other")
  BY <1>1, <1>2, GiveUpKeeps
<1>3. CASE /\ task' = [t EXCEPT !.build = "alive"] /\ await' = "pytest"
           /\ UNCHANGED <<manifest, result>>
  <2>1. /\ task' \in Tasks /\ task'.build = "alive" /\ task'.settled = t.settled
        /\ task'.registered = t.registered /\ task'.stopped = t.stopped
        /\ task'.reportUrl = t.reportUrl /\ task'.finished = t.finished
        /\ task'.finalizing = t.finalizing
    BY <1>3 DEF Tasks, Children
  <2>2. TypeOK'
    BY <1>3, <2>1 DEF BuildInv, TypeOK
  <2>3. Flow' /\ Settled'
    BY <1>1, <1>3, <2>1 DEF BuildInv, Flow, Settled, Finalizing
  <2>4. ManifestAgrees' /\ StoppedMeansDead' /\ EntryWhileNeeded'
    BY <1>1, <1>3, <2>1 DEF BuildInv, ManifestAgrees, StoppedMeansDead, EntryWhileNeeded
  <2>5. Progress
    BY <1>1, <1>3, <2>1 DEF Progress
  <2> QED
    BY <2>2, <2>3, <2>4, <2>5 DEF BuildInv
<1> QED
  BY <1>2, <1>3 DEF SpawnBuild

LEMMA WatchRuntimeKeeps == ASSUME BuildInv, WatchRuntimeResolved PROVE BuildInv' /\ Progress
<1> USE DEF WatchRuntimeResolved
<1>1. task.build = "none" /\ ~task.finalizing /\ task.report = "none"
  BY TaskFields DEF BuildInv, Flow, Finalizing
<1>2. CASE task.stopped /\ GiveUp([task EXCEPT !.readyResolved = TRUE], task.exit)
  <2> DEFINE t == [task EXCEPT !.readyResolved = TRUE]
  <2>1. /\ t \in Tasks /\ t.build = task.build /\ t.finalizing = task.finalizing
        /\ t.settled = task.settled /\ t.registered = task.registered
        /\ t.stopped = task.stopped /\ t.reportUrl = task.reportUrl
        /\ t.report = task.report /\ task.exit \in {"none", "zero", "other"}
    BY TaskFields DEF Tasks
  <2>2. GiveUp(t, task.exit)
    BY <1>2
  <2> HIDE DEF t
  <2> QED
    BY <1>1, <2>1, <2>2, GiveUpKeeps
<1>3. ASSUME ~task.stopped, NEW t \in Tasks, SpawnBuild(t),
             \/ t = [task EXCEPT !.report = "alive"]
             \/ t = [task EXCEPT !.readyResolved = TRUE]
      PROVE  BuildInv' /\ Progress
  <2>1. /\ t.build = task.build /\ t.finalizing = task.finalizing
        /\ t.settled = task.settled /\ t.registered = task.registered
        /\ t.stopped = task.stopped /\ t.reportUrl = task.reportUrl
        /\ t.finished = task.finished
    BY <1>3, TaskFields DEF Tasks
  <2> QED
    BY <1>3, <2>1, SpawnKeeps
<1>4. /\ [task EXCEPT !.report = "alive"] \in Tasks
      /\ [task EXCEPT !.readyResolved = TRUE] \in Tasks
  BY TaskFields DEF Tasks, Children
<1>5. CASE GiveUp(task, "other")
  BY <1>1, <1>5, TaskFields, GiveUpKeeps
<1> QED
  BY <1>2, <1>3, <1>4, <1>5

(* An action that changes the task in no field the invariant relates.      *)
LEMMA OtherFieldsKeep ==
  ASSUME BuildInv, task' \in Tasks, task'.registered = task.registered,
         task'.build = task.build, (task'.report = "none") = (task.report = "none"),
         task'.reportUrl = task.reportUrl, task'.stopped = task.stopped,
         task'.finished = task.finished, task'.finalizing = task.finalizing,
         task'.settled = task.settled,
         UNCHANGED <<manifest, result>>, await' = await,
         probe' \in {"none", "waiting", "done"}, await # "start",
         killed' \subseteq {"build", "report"}, export' = export
  PROVE  BuildInv' /\ Progress
<1>1. TypeOK'
  BY DEF BuildInv, TypeOK
<1>2. Flow' /\ Settled'
  BY DEF BuildInv, Flow, Settled, ChildrenLeft
<1>3. ManifestAgrees' /\ StoppedMeansDead' /\ EntryWhileNeeded'
  BY DEF BuildInv, ManifestAgrees, StoppedMeansDead, EntryWhileNeeded, ChildrenLeft
<1>4. Progress
  BY DEF Progress
<1> QED
  BY <1>1, <1>2, <1>3, <1>4 DEF BuildInv

LEMMA PublishKeeps == ASSUME BuildInv, PublishAllureReportReady PROVE BuildInv' /\ Progress
<1> USE DEF PublishAllureReportReady, PublishIf
<1>0. await # "start"
  BY DEF BuildInv, Flow
<1>1. CASE UNCHANGED <<task, manifest>>
  BY <1>0, <1>1, TaskFields, OtherFieldsKeep DEF BuildInv, TypeOK
<1>2. CASE task' = Published(task, "watch") /\ manifest' = PatchManifest("watch")
  <2>1. /\ task' \in Tasks /\ task'.reportUrl = "watch" /\ task'.registered = task.registered
        /\ task'.build = task.build /\ task'.report = task.report
        /\ task'.stopped = task.stopped /\ task'.finished = task.finished
        /\ task'.finalizing = task.finalizing /\ task'.settled = task.settled
    BY <1>2, TaskFields DEF Published, Tasks, Urls
  <2>2. manifest' \in Manifests /\ manifest'.reportUrl = "watch"
        /\ manifest'.status = manifest.status
    BY <1>2 DEF BuildInv, TypeOK, PatchManifest, Manifests, Urls
  <2>3. TypeOK'
    BY <2>1, <2>2 DEF BuildInv, TypeOK
  <2>4. Flow' /\ Settled'
    BY <2>1 DEF BuildInv, Flow, Settled, ChildrenLeft
  <2>5. ManifestAgrees' /\ StoppedMeansDead' /\ EntryWhileNeeded'
    BY <2>1, <2>2 DEF BuildInv, ManifestAgrees, StoppedMeansDead, EntryWhileNeeded, ChildrenLeft
  <2>6. Progress
    BY <1>0, <2>1 DEF Progress, BuildInv, TypeOK
  <2> QED
    BY <2>3, <2>4, <2>5, <2>6 DEF BuildInv
<1> QED
  BY <1>1, <1>2

LEMMA PrintUrlKeeps == ASSUME BuildInv, PrintUrl PROVE BuildInv' /\ Progress
<1>1. await # "start"
  BY DEF BuildInv, Flow, PrintUrl
<1> QED
  BY <1>1, TaskFields, OtherFieldsKeep DEF PrintUrl, BuildInv, TypeOK

LEMMA ReportExitsKeeps == ASSUME BuildInv, ReportExits PROVE BuildInv' /\ Progress
<1>1. /\ task' \in Tasks /\ task'.registered = task.registered
      /\ task'.build = task.build /\ (task'.report = "none") = (task.report = "none")
      /\ task'.reportUrl = task.reportUrl /\ task'.stopped = task.stopped
      /\ task'.finished = task.finished /\ task'.finalizing = task.finalizing
      /\ task'.settled = task.settled
  BY TaskFields DEF ReportExits, Tasks, Children
<1> QED
  BY <1>1, OtherFieldsKeep DEF ReportExits, BuildInv, TypeOK, Flow

LEMMA KillsKeep == ASSUME BuildInv, FallbackKill \/ KillTimerFires PROVE BuildInv' /\ Progress
<1>1. CASE FallbackKill
  BY <1>1, TaskFields, OtherFieldsKeep DEF FallbackKill, BuildInv, TypeOK
<1>2. CASE KillTimerFires
  <2>1. /\ task' \in Tasks /\ task'.registered = task.registered
        /\ task'.build = task.build /\ task'.report = task.report
        /\ task'.reportUrl = task.reportUrl /\ task'.stopped = task.stopped
        /\ task'.finished = task.finished /\ task'.finalizing = task.finalizing
        /\ task'.settled = task.settled
    BY <1>2, TaskFields DEF KillTimerFires, KillWhenFired, Tasks
  <2>2. killed' \subseteq {"build", "report"}
    BY <1>2 DEF KillTimerFires, KillWhenFired, Alive, BuildInv, TypeOK
  <2> QED
    BY <1>2, <2>1, <2>2, OtherFieldsKeep DEF KillTimerFires, KillWhenFired, BuildInv, TypeOK, Flow
<1> QED
  BY <1>1, <1>2

(* While the end of a build is being prepared. *)
LEMMA InFinalizing ==
  ASSUME BuildInv, await \in Finalizing
  PROVE  /\ task.finished /\ task.finalizing /\ task.build = "none" /\ ~task.settled
         /\ task.registered /\ result = "none" /\ task \in Tasks
  BY TaskFields DEF BuildInv, Flow, Settled, EntryWhileNeeded, Finalizing

LEMMA ReportClosesKeeps == ASSUME BuildInv, ReportCloses PROVE BuildInv' /\ Progress
<1> DEFINE c == ReportClosed(task)
           t == DeleteBuildIfIdle(c)
<1>1. /\ c \in Tasks /\ c.registered = task.registered /\ c.build = task.build
      /\ c.report = "none" /\ c.reportUrl = task.reportUrl /\ c.stopped = task.stopped
      /\ c.finished = task.finished /\ c.finalizing = task.finalizing
      /\ c.settled = task.settled
  BY TaskFields DEF ReportClosed, Tasks, Children
<1> HIDE DEF c
<1>2. /\ t \in Tasks /\ t.build = c.build /\ t.report = c.report
      /\ t.reportUrl = c.reportUrl /\ t.stopped = c.stopped
      /\ t.finished = c.finished /\ t.finalizing = c.finalizing /\ t.settled = c.settled
      /\ t.registered = (c.registered /\ ~(c.settled /\ c.build = "none" /\ c.report = "none"))
  <2>1. t \in Tasks
    BY <1>1, IdleType
  <2> QED
    BY <1>1, <2>1 DEF DeleteBuildIfIdle, Tasks
<1> HIDE DEF t
<1>3. SettleBuildCompletion(t)
  BY DEF ReportCloses, t, c
<1>4. task.report = "exited" /\ UNCHANGED <<await, probe, killed, export>>
  BY DEF ReportCloses
<1>5. await # "start" /\ (task.registered <=> ~task.settled \/ ChildrenLeft(task))
  BY <1>4 DEF BuildInv, Flow, EntryWhileNeeded
<1>6. InStep(t)
  BY <1>1, <1>2, <1>4, <1>5 DEF BuildInv, Flow, InStep
<1>7. Continues(t)
  BY <1>1, <1>2, <1>4, <1>5, TaskFields
     DEF BuildInv, Settled, StoppedMeansDead, Continues, ChildrenLeft
<1> QED
  BY <1>2, <1>3, <1>4, <1>5, <1>6, <1>7, SettleKeeps DEF BuildInv, TypeOK, Finalizing

LEMMA StopKeeps == ASSUME BuildInv, StopBuildTask PROVE BuildInv' /\ Progress
<1> DEFINE t == [task EXCEPT !.stopped = TRUE,
                             !.killTimer = IF task.killTimer = "none" THEN "armed" ELSE @]
<1>1. /\ t \in Tasks /\ t.registered = task.registered /\ t.build = task.build
      /\ t.report = task.report /\ t.reportUrl = task.reportUrl /\ t.stopped = TRUE
      /\ t.finished = task.finished /\ t.finalizing = task.finalizing
      /\ t.settled = task.settled
  BY TaskFields DEF Tasks
<1>2. SettleBuildCompletion(t) /\ task.registered /\ UNCHANGED <<await, probe, killed, export>>
  BY DEF StopBuildTask
<1> HIDE DEF t
<1>3. await # "start" /\ (task.registered <=> ~task.settled \/ ChildrenLeft(task))
  BY <1>2 DEF BuildInv, Flow, EntryWhileNeeded
<1>4. InStep(t)
  BY <1>1, <1>2, <1>3 DEF BuildInv, Flow, InStep
<1>5. Continues(t)
  <2>1. t.stopped = task.stopped \/ ~Settles(t, ChildrenLeft(t))
    BY <1>1, TaskFields DEF BuildInv, Settled, Settles, ChildrenLeft
  <2> QED
    BY <1>1, <1>2, <1>3, <2>1 DEF BuildInv, Settled, StoppedMeansDead, Continues, ChildrenLeft
<1> QED
  BY <1>1, <1>2, <1>3, <1>4, <1>5, SettleKeeps DEF BuildInv, TypeOK, Finalizing

LEMMA BuildClosesKeeps == ASSUME BuildInv, BuildCloses PROVE BuildInv' /\ Progress
<1>1. PICK exit \in {"zero", "other"} :
        LET t == [task EXCEPT !.build = "none", !.finished = TRUE, !.exit = exit,
                              !.finalizing = ~task.stopped] IN
        IF t.stopped
        THEN await' = "nothing" /\ SettleBuildCompletion(t)
        ELSE IF t.readyResolved \/ t.report = "none"
        THEN PublishStatic(t)
        ELSE await' = "report" /\ task' = t /\ UNCHANGED <<manifest, result>>
  BY DEF BuildCloses
<1> DEFINE t == [task EXCEPT !.build = "none", !.finished = TRUE, !.exit = exit,
                             !.finalizing = ~task.stopped]
<1>2. /\ t \in Tasks /\ t.registered = task.registered /\ t.build = "none"
      /\ t.report = task.report /\ t.reportUrl = task.reportUrl /\ t.stopped = task.stopped
      /\ t.finished /\ t.finalizing = ~task.stopped /\ t.settled = task.settled
  BY TaskFields DEF Tasks, Children
<1>3. \/ t.stopped /\ await' = "nothing" /\ SettleBuildCompletion(t)
      \/ ~t.stopped /\ PublishStatic(t)
      \/ ~t.stopped /\ await' = "report" /\ task' = t /\ UNCHANGED <<manifest, result>>
  BY <1>1
<1> HIDE DEF t
<1>4. /\ task.build = "alive" /\ await = "pytest" /\ UNCHANGED <<probe, killed, export>>
      /\ ~task.finished /\ ~task.finalizing /\ ~task.settled /\ task.registered
      /\ result = "none"
  BY DEF BuildCloses, BuildInv, Flow, Settled, EntryWhileNeeded, Finalizing
<1>5. CASE t.stopped /\ await' = "nothing" /\ SettleBuildCompletion(t)
  <2>1. InStep(t)
    BY <1>2, <1>5 DEF InStep, Finalizing
  <2>2. Continues(t)
    BY <1>2, <1>4, <1>5 DEF Continues
  <2> QED
    BY <1>2, <1>4, <1>5, <2>1, <2>2, SettleKeeps DEF BuildInv, TypeOK
<1>6. CASE ~t.stopped /\ PublishStatic(t)
  BY <1>2, <1>4, <1>6, PublishStaticKeeps
<1>7. CASE ~t.stopped /\ await' = "report" /\ task' = t /\ UNCHANGED <<manifest, result>>
  <2>1. TypeOK'
    BY <1>2, <1>4, <1>7 DEF BuildInv, TypeOK
  <2>2. Flow' /\ Settled'
    BY <1>2, <1>4, <1>7 DEF BuildInv, Flow, Settled, Finalizing
  <2>3. ManifestAgrees' /\ StoppedMeansDead' /\ EntryWhileNeeded'
    BY <1>2, <1>4, <1>7 DEF BuildInv, ManifestAgrees, StoppedMeansDead, EntryWhileNeeded
  <2>4. Progress
    BY <1>2, <1>4, <1>7 DEF Progress
  <2> QED
    BY <2>1, <2>2, <2>3, <2>4 DEF BuildInv
<1> QED
  BY <1>3, <1>5, <1>6, <1>7

(* The control flow goes on to another await of the finalization. *)
LEMMA AwaitKeeps ==
  ASSUME BuildInv, await \in Finalizing, await' \in Finalizing,
         UNCHANGED <<task, manifest, result, probe, killed>>,
         export' \in {"none", "running", "left"}
  PROVE  BuildInv' /\ Progress
<1>1. TypeOK'
  BY DEF BuildInv, TypeOK, Finalizing
<1>2. Flow' /\ Settled'
  BY DEF BuildInv, Flow, Settled, Finalizing, ChildrenLeft
<1>3. ManifestAgrees' /\ StoppedMeansDead' /\ EntryWhileNeeded'
  BY DEF BuildInv, ManifestAgrees, StoppedMeansDead, EntryWhileNeeded, ChildrenLeft, Finalizing
<1>4. Progress
  BY DEF Progress, Finalizing
<1> QED
  BY <1>1, <1>2, <1>3, <1>4 DEF BuildInv

LEMMA FinalizationKeeps ==
  ASSUME BuildInv, ReportWaitEnds \/ WatchEnded \/ ExportRuntimeResolved \/ ExportEnds
  PROVE  BuildInv' /\ Progress
<1> USE DEF Finalizing
<1>1. CASE ReportWaitEnds
  BY <1>1, InFinalizing, PublishStaticKeeps DEF ReportWaitEnds
<1>2. ASSUME Finalized(task), await \in Finalizing, UNCHANGED <<probe, killed>>,
             export' \in {"none", "running", "left"}
      PROVE  BuildInv' /\ Progress
  BY <1>2, InFinalizing, FinalizedKeeps
<1>3. CASE WatchEnded
  BY <1>2, <1>3, AwaitKeeps DEF WatchEnded, BuildInv, TypeOK
<1>4. CASE ExportRuntimeResolved
  BY <1>2, <1>4, AwaitKeeps DEF ExportRuntimeResolved, BuildInv, TypeOK
<1>5. CASE ExportEnds
  <2> DEFINE t == Published(task, "static")
  <2>1. await = "export" /\ UNCHANGED <<probe, killed>> /\ export' \in {"none", "running", "left"}
    BY <1>5 DEF ExportEnds, ExportEndsInto
  <2>2. Finalized(task) \/ (~task.stopped /\ task.reportUrl = "none" /\ Finalized(t))
    BY <1>5 DEF ExportEnds, ExportEndsInto
  <2>3. /\ t \in Tasks /\ t.finished = task.finished /\ t.build = task.build
        /\ t.settled = task.settled /\ t.registered = task.registered
        /\ t.stopped = task.stopped
    BY TaskFields DEF Tasks, Published, Urls
  <2> HIDE DEF t
  <2> QED
    BY <1>2, <2>1, <2>2, <2>3, InFinalizing, FinalizedKeeps
<1> QED
  BY <1>1, <1>3, <1>4, <1>5

LEMMA BuildStep ==
  ASSUME BuildInv, [Next]_vars
  PROVE  BuildInv' /\ (StartBuildTask \/ Progress \/ UNCHANGED vars)
<1>1. CASE UNCHANGED vars
  BY <1>1 DEF vars, BuildInv, TypeOK, Flow, Settled, ManifestAgrees, StoppedMeansDead,
              EntryWhileNeeded, ChildrenLeft
<1> QED
  BY <1>1, StartKeeps, WatchRuntimeKeeps, PrintUrlKeeps, PublishKeeps, ReportExitsKeeps,
     ReportClosesKeeps, BuildClosesKeeps, FinalizationKeeps, StopKeeps, KillsKeep
     DEF Next, Ended

-----------------------------------------------------------------------------
(* The theorems.                                                           *)

(* The inductive invariant holds in every state a build reaches.           *)
THEOREM BuildInvariant == Spec => []BuildInv
  BY BuildInit, BuildStep, PTL DEF Spec

(* The manifest and the runningBuilds entry agree with the task, and a     *)
(* stopped build is dead, in every state a build reaches.                  *)
THEOREM BuildSafe ==
  Spec => [](TypeOK /\ ManifestAgrees /\ StoppedMeansDead /\ EntryWhileNeeded)
<1>1. BuildInv => TypeOK /\ ManifestAgrees /\ StoppedMeansDead /\ EntryWhileNeeded
  BY DEF BuildInv
<1> QED
  BY <1>1, BuildInvariant, PTL

(* The entry of a build lasts as long as it is needed and no child outlives*)
(* a reported stop.                                                        *)
THEOREM BuildEntryIsSafe == Spec => []EntryIsSafe
<1>1. BuildInv => EntryIsSafe
  BY DEF BuildInv, EntryIsSafe
<1> QED
  BY <1>1, BuildInvariant, PTL

(* The watch server's address and the static report's are published by     *)
(* independent continuations: the second never replaces the first, and     *)
(* neither comes after a stop.                                             *)
THEOREM BuildPublishesOnce == Spec => PublishedOnce
<1>1. BuildInv /\ [Next]_vars => [task'.reportUrl # task.reportUrl
                                   => task.reportUrl = "none" /\ ~task.stopped]_vars
  <2> SUFFICES ASSUME BuildInv, [Next]_vars
               PROVE  task'.reportUrl # task.reportUrl
                        => task.reportUrl = "none" /\ ~task.stopped
    OBVIOUS
  <2>1. CASE StartBuildTask
    BY <2>1, TaskFields DEF StartBuildTask, Tasks
  <2>2. CASE Progress
    BY <2>2 DEF Progress
  <2>3. CASE UNCHANGED vars
    BY <2>3 DEF vars
  <2> QED
    BY <2>1, <2>2, <2>3, BuildStep
<1> QED
  BY <1>1, BuildInvariant, PTL DEF Spec, PublishedOnce

LEMMA BuildStepKeepsPromise ==
  ASSUME BuildInv, [Next]_vars
  PROVE  [Promise!Next]_(Promise!promise)
<1> USE DEF Promise!Next, Promise!promise
<1>1. CASE StartBuildTask
  <2>1. /\ task' = [task EXCEPT !.registered = TRUE] /\ await = "start" /\ await' # "start"
        /\ result' = result
    BY <1>1 DEF StartBuildTask
  <2>2. task'.stopped = task.stopped /\ task'.settled = task.settled /\ ~task.settled
    BY <2>1, TaskFields DEF Tasks, BuildInv, Flow
  <2> QED
    BY <2>1, <2>2 DEF Promise!Start
<1>2. CASE Progress
  <2>1. BuildInv'
    BY BuildStep
  <2>2. CASE task'.settled = task.settled /\ result' = result /\ task'.stopped = task.stopped
    BY <1>2, <2>1, <2>2, TaskFields
       DEF Progress, Promise!Forget, BuildInv, EntryWhileNeeded
  <2>3. CASE /\ task'.stopped /\ task'.registered /\ task.registered
             /\ task'.settled = task.settled /\ result' = result
    BY <1>2, <2>1, <2>3, TaskFields DEF Progress, Promise!Cancel, BuildInv, Settled
  <2>4. CASE /\ ~task.settled /\ task'.settled /\ task'.stopped = task.stopped
             /\ result' \in IF task.stopped THEN {"stopped"} ELSE {"passed", "failed"}
    BY <1>2, <2>4 DEF Progress, Promise!Complete
  <2> QED
    BY <1>2, <2>2, <2>3, <2>4, TaskFields DEF Progress
<1>3. CASE UNCHANGED vars
  BY <1>3 DEF vars
<1> QED
  BY <1>1, <1>2, <1>3, BuildStep

(* A build implements the promise of a GUI task.                           *)
THEOREM BuildKeepsPromise == Spec => KeepsPromise
<1>1. Init => Promise!Init
  BY DEF Init, NewTask, Promise!Init
<1>2. BuildInv /\ [Next]_vars => [Promise!Next]_(Promise!promise)
  BY BuildStepKeepsPromise
<1> QED
  BY <1>1, <1>2, BuildInvariant, PTL DEF Spec, KeepsPromise, Promise!Spec

-----------------------------------------------------------------------------
(* BuildReport                                                             *)

Builds == 1 .. MaxBuilds
Frames == [page : Builds \cup {NoBuild}, token : Builds \cup {NoBuild}, reloads : Int, hidden : BOOLEAN]

(* The inductive form of the two properties of the frame.                  *)
FrameInv ==
  /\ view \in {"debug", "build"} /\ started \in 0 .. MaxBuilds
  /\ current \in Builds \cup {NoBuild} /\ report \in Builds \cup {NoBuild}
  /\ frame \in Frames
  /\ reload.on => reload.url \in Builds /\ reload.build \in Builds \cup {NoBuild}
  /\ FrameOnlyWithReport
  /\ FrameHoldsCurrentReport

(* The page without a report, whatever build is current.                   *)
LEMMA NoReport ==
  ASSUME FrameInv, ResetBuildReport, UNCHANGED view, started' \in 0 .. MaxBuilds,
         current' \in Builds \cup {NoBuild}
  PROVE  FrameInv'
<1>1. frame' \in Frames /\ frame'.hidden = TRUE /\ frame'.page = NoBuild
  BY DEF ResetBuildReport, HiddenFrame, Frames
<1> QED
  BY <1>1 DEF FrameInv, ResetBuildReport, NoTimer, FrameOnlyWithReport, FrameHoldsCurrentReport

(* The report of the current build arrives.                                *)
LEMMA ReportIsSet ==
  ASSUME FrameInv, NEW b \in Builds, b = current, SetBuildReportUrl(b),
         UNCHANGED <<view, started, current>>
  PROVE  FrameInv'
<1> DEFINE f == [frame EXCEPT !.page = b, !.token = b, !.reloads = 0]
<1>1. f \in Frames /\ f.page = b /\ f.token = b
  <2>1. frame \in Frames /\ b \in Builds \cup {NoBuild}
    BY DEF FrameInv
  <2>2. PICK n \in Int : n = 0
    OBVIOUS
  <2>3. f = [frame EXCEPT !.page = b, !.token = b, !.reloads = n]
    BY <2>2
  <2> HIDE DEF f
  <2> DEFINE h == [frame EXCEPT !.page = b, !.token = b, !.reloads = n]
  <2>4. h \in Frames /\ h.page = b /\ h.token = b
    BY <2>1 DEF Frames
  <2> HIDE DEF h
  <2>5. f = h
    BY <2>3 DEF h
  <2> QED
    BY <2>4, <2>5
<1>2. b # NoBuild
  BY ReportAssumption DEF Builds
<1>3. /\ report' = b
      /\ frame' = Visibility(f, b, view, view = "build")[1]
      /\ reveal' = Visibility(f, b, view, view = "build")[2]
      /\ reload' = [on |-> TRUE, attempt |-> 1, build |-> current, url |-> b]
  BY DEF SetBuildReportUrl
<1> HIDE DEF f
<1>4. /\ frame' = [f EXCEPT !.hidden = TRUE]
      /\ reveal' = IF view = "build" THEN "frame" ELSE "none"
  BY <1>2, <1>3 DEF Visibility
<1>5. frame' \in Frames /\ frame'.page = b /\ frame'.token = b /\ frame'.hidden = TRUE
  BY <1>1, <1>4 DEF Frames
<1> QED
  BY <1>2, <1>3, <1>4, <1>5 DEF FrameInv, FrameOnlyWithReport, FrameHoldsCurrentReport

LEMMA SwitchViewKeeps ==
  ASSUME FrameInv, SwitchView
  PROVE  FrameInv'
<1> DEFINE next == IF view = "build" THEN "debug" ELSE "build"
<1>1. /\ view' = next
      /\ frame' = Visibility(frame, report, next, next = "build")[1]
      /\ reveal' = Visibility(frame, report, next, next = "build")[2]
      /\ UNCHANGED <<started, current, report, reload>>
  BY DEF SwitchView
<1>2. frame' = [frame EXCEPT !.hidden = TRUE]
      /\ reveal' = IF report = NoBuild \/ next # "build" THEN "none" ELSE "frame"
  BY <1>1 DEF Visibility
<1>3. /\ frame' \in Frames /\ frame'.page = frame.page /\ frame'.token = frame.token
      /\ frame'.hidden = TRUE
  BY <1>2 DEF FrameInv, Frames
<1> QED
  BY <1>1, <1>2, <1>3 DEF FrameInv, FrameOnlyWithReport, FrameHoldsCurrentReport

LEMMA RevealStepKeeps ==
  ASSUME FrameInv, RevealStep
  PROVE  FrameInv'
<1>1. UNCHANGED <<view, started, current, report, reload>>
  BY DEF RevealStep
<1>2. CASE reveal = "frame" /\ reveal' = "timer" /\ UNCHANGED frame
  BY <1>1, <1>2 DEF FrameInv, FrameOnlyWithReport, FrameHoldsCurrentReport
<1>3. CASE reveal = "timer" /\ reveal' = "none"
           /\ frame' = IF report # NoBuild /\ view = "build"
                       THEN [frame EXCEPT !.hidden = FALSE] ELSE frame
  <2>1. report # NoBuild /\ view = "build"
    BY <1>3 DEF FrameInv, FrameOnlyWithReport
  <2>2. /\ frame' \in Frames /\ frame'.page = frame.page /\ frame'.token = frame.token
        /\ frame'.hidden = FALSE
    BY <1>3, <2>1 DEF FrameInv, Frames
  <2> QED
    BY <1>1, <1>3, <2>1, <2>2 DEF FrameInv, FrameOnlyWithReport, FrameHoldsCurrentReport
<1> QED
  BY <1>2, <1>3 DEF RevealStep

LEMMA ReloadFiresKeeps ==
  ASSUME FrameInv, ReloadFires
  PROVE  FrameInv'
<1>1. UNCHANGED <<view, started, current, report, reveal>> /\ reload.on
  BY DEF ReloadFires
<1>2. reload.url \in Builds /\ reload.build \in Builds \cup {NoBuild} /\ reload.url # NoBuild
  BY <1>1, ReportAssumption DEF FrameInv, Builds
<1>3. CASE ReloadIsDue
  <2>1. /\ frame' = [frame EXCEPT !.page = reload.url, !.token = reload.build,
                                  !.reloads = @ + 1]
        /\ reload' = AfterReload
    BY <1>3 DEF ReloadFires
  <2>2. current = reload.build /\ report = reload.url
    BY <1>3 DEF ReloadIsDue
  <2>3. /\ frame' \in Frames /\ frame'.page = reload.url /\ frame'.token = reload.build
        /\ frame'.hidden = frame.hidden
    <3>1. frame \in Frames
      BY DEF FrameInv
    <3>2. frame.reloads + 1 \in Int
      BY <3>1 DEF Frames
    <3> QED
      BY <1>2, <2>1, <3>1, <3>2 DEF Frames
  <2>4. reload'.on => reload'.url = reload.url /\ reload'.build = reload.build
    BY <2>1 DEF AfterReload, NoTimer
  <2> QED
    BY <1>1, <1>2, <2>2, <2>3, <2>4
       DEF FrameInv, FrameOnlyWithReport, FrameHoldsCurrentReport
<1>4. CASE ~ReloadIsDue
  <2>1. reload' = NoTimer /\ UNCHANGED frame
    BY <1>4 DEF ReloadFires
  <2> QED
    BY <1>1, <2>1 DEF FrameInv, NoTimer, FrameOnlyWithReport, FrameHoldsCurrentReport
<1> QED
  BY <1>3, <1>4

LEMMA FrameUntouched ==
  ASSUME FrameInv, UNCHANGED <<view, started, current, report, frame, reveal, reload>>
  PROVE  FrameInv'
  BY DEF FrameInv, FrameOnlyWithReport, FrameHoldsCurrentReport

LEMMA FrameStep ==
  ASSUME FrameInv, [ReportNext]_reportVars
  PROVE  FrameInv'
<1>1. CASE StartBuild
  <2>1. /\ started' = started + 1 /\ current' = started + 1 /\ started < MaxBuilds
        /\ ResetBuildReport /\ UNCHANGED view
    BY <1>1 DEF StartBuild
  <2>2. started' \in 0 .. MaxBuilds /\ current' \in Builds
    BY <2>1, ReportAssumption DEF FrameInv, Builds
  <2> QED
    BY <2>1, <2>2, NoReport
<1>2. CASE OpenOtherBuilds
  BY <1>2, NoReport DEF OpenOtherBuilds, FrameInv
<1>3. ASSUME NEW b \in Builds, ReportReady(b) PROVE FrameInv'
  BY <1>3, ReportIsSet, FrameUntouched DEF ReportReady, Heard, IsCurrentBuild, KeepReport
<1>4. ASSUME NEW b \in Builds, BuildCompleted(b) PROVE FrameInv'
  <2>1. PICK named \in {NoBuild} \cup (IF "report-ready" \in builds[b] THEN {} ELSE {b}) :
          /\ Heard(b, "build-completed")
          /\ IF IsCurrentBuild(b)
             THEN IF named # NoBuild /\ report = NoBuild
                  THEN SetBuildReportUrl(named) ELSE KeepReport
             ELSE KeepReport
          /\ UNCHANGED current
    BY <1>4 DEF BuildCompleted
  <2>2. CASE KeepReport
    BY <2>1, <2>2, FrameUntouched DEF Heard, KeepReport
  <2>3. CASE IsCurrentBuild(b) /\ named # NoBuild /\ SetBuildReportUrl(named)
    <3>1. named = b
      BY <2>1, <2>3
    <3> QED
      BY <2>1, <2>3, <3>1, ReportIsSet DEF Heard, IsCurrentBuild
  <2> QED
    BY <2>1, <2>2, <2>3
<1>5. CASE UNCHANGED reportVars
  BY <1>5, FrameUntouched DEF reportVars
<1> QED
  BY <1>1, <1>2, <1>3, <1>4, <1>5, SwitchViewKeeps, RevealStepKeeps, ReloadFiresKeeps
     DEF ReportNext, Builds

LEMMA FrameStarts ==
  ASSUME ReportInit PROVE FrameInv
<1>1. frame \in Frames /\ frame.hidden = TRUE /\ frame.page = NoBuild
  BY DEF ReportInit, HiddenFrame, Frames
<1> QED
  BY <1>1, ReportAssumption
     DEF ReportInit, FrameInv, NoTimer, FrameOnlyWithReport, FrameHoldsCurrentReport

-----------------------------------------------------------------------------
(* The timers' counters and the history                                    *)

Entries == [build : Builds, report : Builds \cup {NoBuild}]
BuildEvents == {"report-ready", "build-completed"}

(* A page is loaded again at most once per attempt of the timer.           *)
ReloadInv ==
  /\ reveal \in {"none", "frame", "timer"}
  /\ frame.reloads \in 0 .. 2
  /\ reload.on => reload.attempt \in {1, 2} /\ frame.reloads < reload.attempt

(* Only the last build can be the current one, and what is in the history  *)
(* has ended: so a build that ends is newer than all that is there.        *)
HistoryInv ==
  /\ busy \in BOOLEAN
  /\ current # NoBuild => current = started
  /\ builds \in [Builds -> SUBSET BuildEvents]
  /\ past \in Seq(Entries)
  /\ \A i \in 1 .. Len(past) :
       past[i].build <= started /\ "build-completed" \notin builds[past[i].build]
  /\ HistoryIsOwn

(* What the handlers of the frame leave of the timers' counters.           *)
LEMMA ResetReloads ==
  ASSUME ResetBuildReport PROVE ReloadInv'
<1>1. frame'.reloads = 0 /\ reveal' = "none" /\ reload'.on = FALSE
  BY DEF ResetBuildReport, HiddenFrame, NoTimer
<1> QED
  BY <1>1 DEF ReloadInv

LEMMA SetReloads ==
  ASSUME FrameInv, NEW b \in Builds, SetBuildReportUrl(b) PROVE ReloadInv'
<1>1. PICK f : f = [frame EXCEPT !.page = b, !.token = current, !.reloads = 0]
  OBVIOUS
<1>2. f.reloads = 0
  BY <1>1 DEF FrameInv, Frames
<1>3. f = [page |-> f.page, token |-> f.token, reloads |-> f.reloads, hidden |-> f.hidden]
  BY <1>1 DEF FrameInv, Frames
<1>4. /\ frame' = Visibility(f, b, view, view = "build")[1]
      /\ reveal' = Visibility(f, b, view, view = "build")[2]
      /\ reload' = [on |-> TRUE, attempt |-> 1, build |-> current, url |-> b]
  BY <1>1 DEF SetBuildReportUrl
<1>5. PICK h \in BOOLEAN : frame' = [f EXCEPT !.hidden = h]
  BY <1>4 DEF Visibility
<1>6. frame'.reloads = 0
  BY <1>2, <1>3, <1>5
<1>7. reveal' \in {"none", "frame"}
  BY <1>4 DEF Visibility
<1>8. reload'.on /\ reload'.attempt = 1
  BY <1>4
<1> QED
  BY <1>6, <1>7, <1>8 DEF ReloadInv

LEMMA RevealReloads ==
  ASSUME FrameInv, ReloadInv, RevealStep \/ SwitchView PROVE ReloadInv'
<1>1. reload' = reload /\ reveal' \in {"none", "frame", "timer"}
  BY DEF RevealStep, SwitchView, Visibility
<1>2. frame' = frame \/ \E h \in BOOLEAN : frame' = [frame EXCEPT !.hidden = h]
  BY DEF RevealStep, SwitchView, Visibility
<1>3. frame'.reloads = frame.reloads
  BY <1>2 DEF FrameInv, Frames
<1> QED
  BY <1>1, <1>3 DEF ReloadInv

LEMMA FiresReloads ==
  ASSUME FrameInv, ReloadInv, ReloadFires PROVE ReloadInv'
<1>1. PICK n : n = frame.reloads
  OBVIOUS
<1>2. reload.on /\ reload.attempt \in {1, 2} /\ n < reload.attempt /\ n \in 0 .. 2
  BY <1>1 DEF ReloadInv, ReloadFires
<1>3. reveal' = reveal
  BY DEF ReloadFires
<1>4. CASE ReloadIsDue
  <2>1. PICK m \in 0 .. 2 : m = n + 1
    BY <1>2
  <2>2. /\ frame' = [frame EXCEPT !.page = reload.url, !.token = reload.build,
                                  !.reloads = frame.reloads + 1]
        /\ reload' = IF reload.attempt = 1 THEN [reload EXCEPT !.attempt = 2] ELSE NoTimer
    BY <1>4 DEF ReloadFires, AfterReload
  <2>3. frame'.reloads = m
    BY <1>1, <2>1, <2>2 DEF FrameInv, Frames
  <2>4. CASE reload.attempt = 1
    <3>1. m < 2
      BY <1>2, <2>1, <2>4
    <3>2. reload'.attempt = 2 \/ ~reload'.on
      BY <2>2, <2>4
    <3> QED
      BY <1>3, <2>3, <3>1, <3>2 DEF ReloadInv
  <2>5. CASE reload.attempt # 1
    BY <1>3, <2>2, <2>3, <2>5 DEF ReloadInv, NoTimer
  <2> QED
    BY <2>4, <2>5
<1>5. CASE ~ReloadIsDue
  BY <1>3, <1>5 DEF ReloadFires, NoTimer, ReloadInv
<1> QED
  BY <1>4, <1>5

(* In an interval from 1 on, the j-th smallest element is j.               *)
LEMMA NthOfInterval ==
  ASSUME NEW n \in Nat, NEW j \in 1 .. n PROVE NthOf(1 .. n, j) = j
<1>1. ASSUME NEW i \in 1 .. n PROVE Cardinality({k \in 1 .. n : k < i}) = i - 1
  <2>1. {k \in 1 .. n : k < i} = 1 .. i - 1
    OBVIOUS
  <2>2. PICK h \in Nat : h = i - 1
    OBVIOUS
  <2>3. Cardinality(1 .. h) = IF 1 > h THEN 0 ELSE h - 1 + 1
    BY FS_Interval
  <2>4. Cardinality(1 .. h) = h
    BY <2>3
  <2> QED
    BY <2>1, <2>2, <2>4
<1>2. \A i \in 1 .. n : Cardinality({k \in 1 .. n : k < i}) = j - 1 <=> i = j
  BY <1>1
<1> QED
  BY <1>2 DEF NthOf

(* The new entry in front of a history of older builds: nothing is a       *)
(* repetition, and the oldest is dropped when the history is full.         *)
LEMMA HistoryRecorded ==
  ASSUME NEW e \in Entries, past \in Seq(Entries),
         \A i, j \in 1 .. Len(past) : i < j => past[i].build > past[j].build,
         \A i \in 1 .. Len(past) : past[i].build < e.build
  PROVE  \E m \in 1 .. Len(past) + 1 :
           /\ m <= MaxHistory
           /\ RecordBuildHistory(e) = [j \in 1 .. m |-> IF j = 1 THEN e ELSE past[j - 1]]
<1> DEFINE n == Len(past) + 1
           list == <<e>> \o past
           first == {i \in 1 .. Len(list) : \A j \in 1 .. i - 1 : list[j].build # list[i].build}
           length == IF Cardinality(first) < MaxHistory THEN Cardinality(first) ELSE MaxHistory
<1>1. n \in Nat /\ MaxHistory \in Nat \ {0}
  BY ReportAssumption
<1>2. Len(list) = n /\ \A i \in 1 .. n : list[i] = IF i = 1 THEN e ELSE past[i - 1]
  OBVIOUS
<1>3. (\A i \in 1 .. Len(past) : past[i] \in Entries /\ past[i].build \in Int) /\ e.build \in Int
  <2>1. \A i \in 1 .. Len(past) : past[i] \in Entries
    OBVIOUS
  <2> QED
    BY <2>1, ReportAssumption DEF Entries, Builds
<1>4. ASSUME NEW i \in 1 .. n, NEW j \in 1 .. i - 1 PROVE list[j].build # list[i].build
  <2>1. i # 1 /\ i - 1 \in 1 .. Len(past) /\ j \in 1 .. n /\ list[i] = past[i - 1]
    BY <1>1, <1>2
  <2>2. CASE j = 1
    <3>1. list[j] = e
      BY <1>2, <2>1, <2>2
    <3> HIDE DEF list
    <3>2. past[i - 1].build < e.build /\ past[i - 1].build \in Int
      BY <1>3, <2>1
    <3> QED
      BY <1>3, <2>1, <3>1, <3>2
  <2>3. CASE j # 1
    <3>1. j - 1 \in 1 .. Len(past) /\ j - 1 < i - 1 /\ list[j] = past[j - 1]
      BY <1>1, <1>2, <2>1, <2>3
    <3> HIDE DEF list
    <3>2. past[j - 1].build > past[i - 1].build
      BY <2>1, <3>1
    <3> QED
      BY <1>3, <2>1, <3>1, <3>2
  <2> QED
    BY <2>2, <2>3
<1>5. first = 1 .. n
  <2> HIDE DEF list
  <2> QED
    BY <1>2, <1>4
<1>6. Cardinality(first) = n
  <2>1. PICK k \in Nat \ {0} : k = n
    OBVIOUS
  <2>2. Cardinality(1 .. k) = IF 1 > k THEN 0 ELSE k - 1 + 1
    BY FS_Interval
  <2>3. Cardinality(1 .. k) = k
    BY <2>2
  <2> QED
    BY <1>5, <2>1, <2>3
<1>7. length \in 1 .. n /\ length <= MaxHistory
  <2> HIDE DEF first
  <2> QED
    BY <1>1, <1>6
<1>8. RecordBuildHistory(e) = [j \in 1 .. length |-> list[NthOf(first, j)]]
  BY DEF RecordBuildHistory
<1> HIDE DEF first, length, list
<1>9. \A j \in 1 .. length : list[NthOf(first, j)] = IF j = 1 THEN e ELSE past[j - 1]
  <2> TAKE j \in 1 .. length
  <2>1. j \in 1 .. n
    BY <1>1, <1>7
  <2> QED
    BY <1>1, <1>2, <1>5, <2>1, NthOfInterval
<1>10. RecordBuildHistory(e) = [j \in 1 .. length |-> IF j = 1 THEN e ELSE past[j - 1]]
  BY <1>8, <1>9
<1> QED
  BY <1>7, <1>10

(* An event leaves the others: what has ended stays ended.                 *)
LEMMA EventHeard ==
  ASSUME HistoryInv, NEW b \in Builds, NEW event, Heard(b, event)
  PROVE  /\ builds' \in [Builds -> SUBSET BuildEvents]
         /\ \A c \in Builds : builds'[c] = IF c = b THEN builds[c] \ {event} ELSE builds[c]
  BY DEF HistoryInv, Heard

LEMMA HistoryGrows ==
  ASSUME HistoryInv, FrameInv, NEW b \in Builds, b = current,
         Heard(b, "build-completed"), NEW r \in {NoBuild, b}, busy' = FALSE,
         past' = RecordBuildHistory([build |-> b, report |-> r]), UNCHANGED current
  PROVE  HistoryInv'
<1>1. PICK e \in Entries : e = [build |-> b, report |-> r] /\ e.build = b /\ e.report = r
  BY DEF Entries
<1>2. /\ started' = started /\ b = started /\ started \in Nat
      /\ "build-completed" \in builds[b] /\ b \in Int
  BY ReportAssumption DEF Heard, HistoryInv, FrameInv, Builds
<1>3. /\ builds' \in [Builds -> SUBSET BuildEvents]
      /\ \A c \in Builds : builds'[c] = IF c = b THEN builds[c] \ {"build-completed"} ELSE builds[c]
  BY EventHeard
<1>4. /\ past \in Seq(Entries) /\ HistoryIsOwn
      /\ \A i \in 1 .. Len(past) :
           past[i].build <= started /\ "build-completed" \notin builds[past[i].build]
  BY DEF HistoryInv
<1>5. \A i \in 1 .. Len(past) : past[i] \in Entries /\ past[i].build \in Builds
  <2>1. \A i \in 1 .. Len(past) : past[i] \in Entries
    BY <1>4
  <2> QED
    BY <2>1 DEF Entries
<1>6. \A i \in 1 .. Len(past) : past[i].build < b
  <2> TAKE i \in 1 .. Len(past)
  <2>1. past[i].build # b /\ past[i].build <= b /\ past[i].build \in Int
    BY <1>2, <1>4, <1>5 DEF Builds
  <2> QED
    BY <1>2, <2>1
<1>7. PICK m \in 1 .. Len(past) + 1 :
        /\ m <= MaxHistory
        /\ past' = [j \in 1 .. m |-> IF j = 1 THEN e ELSE past[j - 1]]
  BY <1>1, <1>4, <1>6, HistoryRecorded DEF HistoryIsOwn
<1>8. m \in Nat /\ Len(past) \in Nat /\ (\A j \in 2 .. m : j - 1 \in 1 .. Len(past))
  BY <1>4, <1>7
<1>9. \A j \in 1 .. m : past'[j] = (IF j = 1 THEN e ELSE past[j - 1]) /\ past'[j] \in Entries
  BY <1>1, <1>5, <1>7, <1>8
<1>10. past' \in Seq(Entries) /\ Len(past') = m
  BY <1>7, <1>8, <1>9
<1>11. \A i \in 1 .. m :
         past'[i].build <= started' /\ "build-completed" \notin builds'[past'[i].build]
  <2> TAKE i \in 1 .. m
  <2>1. CASE i = 1
    BY <1>1, <1>2, <1>3, <1>9, <2>1
  <2>2. CASE i # 1
    <3>1. i - 1 \in 1 .. Len(past) /\ past'[i] = past[i - 1]
      BY <1>8, <1>9, <2>2
    <3> QED
      BY <1>2, <1>3, <1>4, <1>5, <3>1
  <2> QED
    BY <2>1, <2>2
<1>12. \A i, j \in 1 .. m : i < j => past'[i].build > past'[j].build
  <2> SUFFICES ASSUME NEW i \in 1 .. m, NEW j \in 1 .. m, i < j
               PROVE  past'[i].build > past'[j].build
    OBVIOUS
  <2>1. j - 1 \in 1 .. Len(past) /\ past'[j] = past[j - 1]
    BY <1>8, <1>9
  <2>2. CASE i = 1
    BY <1>1, <1>2, <1>5, <1>6, <1>9, <2>1, <2>2 DEF Builds
  <2>3. CASE i # 1
    <3>1. i - 1 \in 1 .. Len(past) /\ past'[i] = past[i - 1] /\ i - 1 < j - 1
      BY <1>8, <1>9, <2>3
    <3> QED
      BY <1>4, <2>1, <3>1 DEF HistoryIsOwn
  <2> QED
    BY <2>2, <2>3
<1>13. \A i \in 1 .. m : past'[i].report \in {NoBuild, past'[i].build}
  <2> TAKE i \in 1 .. m
  <2>1. CASE i = 1
    BY <1>1, <1>9, <2>1
  <2>2. CASE i # 1
    <3>1. i - 1 \in 1 .. Len(past) /\ past'[i] = past[i - 1]
      BY <1>8, <1>9, <2>2
    <3> QED
      BY <1>4, <3>1 DEF HistoryIsOwn
  <2> QED
    BY <2>1, <2>2
<1>14. HistoryIsOwn'
  BY <1>7, <1>10, <1>12, <1>13 DEF HistoryIsOwn
<1>15. current' # NoBuild => current' = started'
  BY <1>2
<1> QED
  BY <1>3, <1>10, <1>11, <1>14, <1>15 DEF HistoryInv

(* Every other step leaves the history or empties it.                      *)
LEMMA HistoryKept ==
  ASSUME HistoryInv, UNCHANGED <<started, busy, current, builds, past>> PROVE HistoryInv'
  BY DEF HistoryInv, HistoryIsOwn

LEMMA HistoryOfNone ==
  ASSUME past = <<>>, busy \in BOOLEAN, current = NoBuild,
         builds \in [Builds -> SUBSET BuildEvents]
  PROVE  HistoryInv
<1>1. past \in Seq(Entries) /\ Len(past) = 0 /\ (\A i \in 1 .. Len(past) : FALSE)
  OBVIOUS
<1>2. HistoryIsOwn
  BY <1>1, ReportAssumption DEF HistoryIsOwn
<1> QED
  BY <1>1, <1>2 DEF HistoryInv

LEMMA HistoryOfStart ==
  ASSUME HistoryInv, FrameInv, StartBuild PROVE HistoryInv'
<1>1. PICK b : b = started + 1
  OBVIOUS
<1>2. /\ started' = b /\ busy' = TRUE /\ current' = b /\ past' = past
      /\ builds' = [builds EXCEPT ![b] = BuildEvents] /\ b \in Builds /\ started < b
  BY <1>1, ReportAssumption DEF StartBuild, FrameInv, Builds, BuildEvents
<1>3. /\ builds' \in [Builds -> SUBSET BuildEvents]
      /\ \A c \in Builds : c # b => builds'[c] = builds[c]
  BY <1>2 DEF HistoryInv
<1>4. past \in Seq(Entries) /\ (\A i \in 1 .. Len(past) : past[i] \in Entries)
  BY DEF HistoryInv
<1>5. \A i \in 1 .. Len(past') :
        past'[i].build <= started' /\ "build-completed" \notin builds'[past'[i].build]
  <2> TAKE i \in 1 .. Len(past')
  <2>1. past'[i] = past[i] /\ past[i].build \in Builds /\ past[i].build <= started
    BY <1>2, <1>4 DEF HistoryInv, Entries
  <2>2. past[i].build # b /\ past[i].build <= b
    BY <1>2, <2>1, ReportAssumption DEF FrameInv, Builds
  <2> QED
    BY <1>2, <1>3, <2>1, <2>2 DEF HistoryInv
<1> QED
  BY <1>2, <1>3, <1>4, <1>5 DEF HistoryInv, HistoryIsOwn

LEMMA HistoryOfEvent ==
  ASSUME HistoryInv, NEW b \in Builds, NEW event, Heard(b, event),
         UNCHANGED <<current, past>>, busy' \in BOOLEAN
  PROVE  HistoryInv'
<1>1. /\ builds' \in [Builds -> SUBSET BuildEvents]
      /\ \A c \in Builds : builds'[c] \subseteq builds[c]
  BY EventHeard
<1>2. started' = started
  BY DEF Heard
<1>3. \A i \in 1 .. Len(past) : past[i].build \in Builds
  <2>1. \A i \in 1 .. Len(past) : past[i] \in Entries
    BY DEF HistoryInv
  <2> QED
    BY <2>1 DEF Entries
<1> QED
  BY <1>1, <1>2, <1>3 DEF HistoryInv, HistoryIsOwn

LEMMA CompletedHistory ==
  ASSUME HistoryInv, FrameInv, NEW b \in Builds, BuildCompleted(b) PROVE HistoryInv'
<1>1. PICK named \in {NoBuild} \cup (IF "report-ready" \in builds[b] THEN {} ELSE {b}) :
        /\ Heard(b, "build-completed")
        /\ IF IsCurrentBuild(b)
           THEN /\ busy' = FALSE
                /\ IF named # NoBuild /\ report = NoBuild
                   THEN SetBuildReportUrl(named) ELSE KeepReport
                /\ past' = RecordBuildHistory(
                     [build |-> b, report |-> IF named # NoBuild THEN named ELSE report'])
           ELSE KeepReport /\ UNCHANGED <<busy, past>>
        /\ UNCHANGED current
  BY DEF BuildCompleted
<1>2. CASE IsCurrentBuild(b)
  <2>1. PICK r : r = IF named # NoBuild THEN named ELSE report'
    OBVIOUS
  <2>2. r \in {NoBuild, b}
    <3>1. named \in {NoBuild, b} /\ report \in {NoBuild, b} /\ b = current
      BY <1>1, <1>2 DEF FrameInv, FrameHoldsCurrentReport, IsCurrentBuild
    <3>2. named = NoBuild => report' = report
      BY <1>1, <1>2 DEF KeepReport
    <3> QED
      BY <2>1, <3>1, <3>2
  <2> QED
    BY <1>1, <1>2, <2>1, <2>2, HistoryGrows DEF IsCurrentBuild
<1>3. CASE ~IsCurrentBuild(b)
  BY <1>1, <1>3, HistoryOfEvent DEF HistoryInv
<1> QED
  BY <1>2, <1>3

(* What the build page shows stays true.                                   *)
ReportInv == FrameInv /\ ReloadInv /\ HistoryInv

LEMMA ReportStep ==
  ASSUME ReportInv, [ReportNext]_reportVars PROVE ReportInv'
<1>1. FrameInv'
  BY FrameStep DEF ReportInv
<1>2. ReloadInv'
  <2>1. CASE StartBuild \/ OpenOtherBuilds
    BY <2>1, ResetReloads DEF StartBuild, OpenOtherBuilds
  <2>2. ASSUME NEW b \in Builds, ReportReady(b) \/ BuildCompleted(b) PROVE ReloadInv'
    <3>1. CASE KeepReport
      BY <3>1 DEF KeepReport, ReportInv, ReloadInv
    <3>2. CASE SetBuildReportUrl(b)
      BY <3>2, SetReloads DEF ReportInv
    <3> QED
      BY <2>2, <3>1, <3>2 DEF ReportReady, BuildCompleted
  <2>3. CASE UNCHANGED reportVars
    BY <2>3 DEF reportVars, ReportInv, ReloadInv
  <2> QED
    BY <2>1, <2>2, <2>3, RevealReloads, FiresReloads DEF ReportInv, ReportNext, Builds
<1>3. HistoryInv'
  <2>1. CASE StartBuild
    BY <2>1, HistoryOfStart DEF ReportInv
  <2>2. CASE OpenOtherBuilds
    <3>1. past' = <<>> /\ busy' \in BOOLEAN /\ current' = NoBuild
          /\ builds' \in [Builds -> SUBSET BuildEvents]
      BY <2>2 DEF OpenOtherBuilds, ReportInv, HistoryInv
    <3>2. past' \in Seq(Entries) /\ Len(past') = 0 /\ (\A i \in 1 .. Len(past') : FALSE)
      BY <3>1
    <3>3. HistoryIsOwn'
      BY <3>2, ReportAssumption DEF HistoryIsOwn
    <3> QED
      BY <3>1, <3>2, <3>3 DEF HistoryInv
  <2>3. ASSUME NEW b \in Builds, ReportReady(b) PROVE HistoryInv'
    BY <2>3, HistoryOfEvent DEF ReportReady, ReportInv, HistoryInv
  <2>4. ASSUME NEW b \in Builds, BuildCompleted(b) PROVE HistoryInv'
    BY <2>4, CompletedHistory DEF ReportInv
  <2>5. CASE RevealStep \/ ReloadFires \/ SwitchView \/ UNCHANGED reportVars
    BY <2>5, HistoryKept DEF ReportInv, RevealStep, ReloadFires, SwitchView, reportVars
  <2> QED
    BY <2>1, <2>2, <2>3, <2>4, <2>5 DEF ReportNext, Builds
<1> QED
  BY <1>1, <1>2, <1>3 DEF ReportInv

LEMMA ReportStarts == ASSUME ReportInit PROVE ReportInv
<1>1. FrameInv
  BY FrameStarts
<1>2. ReloadInv
  BY DEF ReportInit, ReloadInv, HiddenFrame, NoTimer
<1>3. builds \in [Builds -> SUBSET BuildEvents]
  BY DEF ReportInit, Builds
<1>4. HistoryInv
  BY <1>3, HistoryOfNone DEF ReportInit
<1> QED
  BY <1>1, <1>2, <1>4 DEF ReportInv

(* The page of builds shows the report of the current build or none, and   *)
(* its history lists the last builds of the project, each once, the newest *)
(* first, with no other build's report (recordBuildHistory).               *)
THEOREM ReportAlwaysTellsTruth == ReportSpec => []ReportTellsTruth
<1>1. ReportInv => ReportTellsTruth
  <2> SUFFICES ASSUME ReportInv PROVE ReportTellsTruth
    OBVIOUS
  <2>1. frame.hidden \in BOOLEAN
    BY DEF ReportInv, FrameInv, Frames
  <2> QED
    BY <2>1 DEF ReportInv, FrameInv, ReloadInv, HistoryInv, ReportTellsTruth, ReportTypeOK, Builds
<1> QED
  BY <1>1, ReportStarts, ReportStep, PTL DEF ReportSpec

=============================================================================
