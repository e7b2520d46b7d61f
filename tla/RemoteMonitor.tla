---------------------------- MODULE RemoteMonitor ----------------------------
(***************************************************************************)
(* The monitor of remote keyword servers in the window:                    *)
(* electron-gui/src/renderer/remoteStatusController.js with the selection  *)
(* of configuration files of configController.js.  A timer fires every     *)
(* REMOTE_MONITOR_INTERVAL_MS; a tick reads the project's configuration    *)
(* again, then probes the servers the selected files name.  A file names   *)
(* one server, so a set of files stands for the set of their servers.      *)
(***************************************************************************)
EXTENDS Naturals, FiniteSets

CONSTANTS
  Projects,      \* project roots
  NoProject,     \* none is open
  Configs,       \* configuration files
  Ticks,         \* bound: ticks under way at once
  MaxActs        \* bound: changes by the user, on disk or in the window

ASSUME MonitorAssumption ==
  NoProject \notin Projects /\ MaxActs \in Nat /\ IsFiniteSet(Ticks)

VARIABLES
  configDir,  \* of a project: the configuration files on disk
  project,    \* snapshot.project.rootPath
  config,     \* snapshot.config.sources, and the signature of configSignature
  chosen,     \* selectedConfigPaths
  monitoring, \* remoteMonitorRunning
  tick,       \* of a tick: where it is, see Idle
  probes,     \* calls of checkRemoteServers without an answer
  status,     \* remoteStatus
  acts        \* history: changes so far

monitorVars ==
  <<configDir, project, config, chosen, monitoring, tick, probes, status, acts>>

NoTick == "none"
Idle == [at |-> "idle", root |-> NoProject, read |-> {}]

MonitorInit ==
  /\ configDir \in [Projects -> (SUBSET Configs) \ {{}}]
  /\ project = NoProject /\ config = {} /\ chosen = {}
  /\ monitoring = FALSE
  /\ tick = [t \in Ticks |-> Idle]
  /\ probes = {}
  /\ status = [servers |-> {}, loading |-> FALSE]
  /\ acts = 0

-----------------------------------------------------------------------------
(* selectedMergedConfig, extractRemoteServers                              *)
Servers(paths, sources) == paths \cap sources

(* initializeConfigSelection with the selection of before: keep what is    *)
(* still there.                                                            *)
KeepSelection(sources) == chosen \cap sources

(* refreshRemoteStatuses up to its await.  remoteProbeSeq only tells the   *)
(* last call from the others.  It returns whether there is an answer to    *)
(* wait for; "asker" is the tick that waits, if any.                       *)
RefreshRemoteStatuses(servers, asker) ==
  /\ status' = [servers |-> servers, loading |-> servers # {}]
  /\ probes' = {[p EXCEPT !.last = FALSE] : p \in probes} \cup
               (IF servers = {} THEN {}
                ELSE {[servers |-> servers, last |-> TRUE, asker |-> asker]})

-----------------------------------------------------------------------------
(* A tick.                                                                 *)
TimerFires(t) ==
  /\ tick[t].at = "idle"
  /\ project # NoProject /\ ~monitoring /\ ~status.loading
  /\ monitoring' = TRUE
  /\ tick' = [tick EXCEPT ![t] = [at |-> "asked", root |-> project, read |-> {}]]
  /\ UNCHANGED <<configDir, project, config, chosen, probes, status, acts>>

(* getProjectConfigSnapshot in the main process                            *)
ReadConfig(t) ==
  /\ tick[t].at = "asked"
  /\ tick' = [tick EXCEPT ![t].at = "read", ![t].read = configDir[tick[t].root]]
  /\ UNCHANGED <<configDir, project, config, chosen, monitoring, probes, status, acts>>

(* The finally clause.                                                     *)
EndTick(t) ==
  /\ tick' = [tick EXCEPT ![t] = Idle]
  /\ monitoring' = FALSE

(* A mutant of ApplyConfig: the snapshot keeps the files it had.           *)
ApplySelection(sources) ==
  /\ UNCHANGED config
  /\ chosen' = IF sources = config THEN chosen ELSE KeepSelection(sources)

(* refreshProjectConfigIfChanged after its await: what was read is stored  *)
(* unless its signature is the known one.                                  *)
ApplyConfig(sources) ==
  /\ config' = sources
  /\ chosen' = IF sources = config THEN chosen ELSE KeepSelection(sources)

ConfigReply(t) ==
  /\ tick[t].at = "read"
  /\ ApplyConfig(tick[t].read)
  /\ RefreshRemoteStatuses(Servers(chosen', config'), t)
  /\ IF Servers(chosen', config') = {}
     THEN EndTick(t)
     ELSE /\ tick' = [tick EXCEPT ![t] = [Idle EXCEPT !.at = "probing"]]
          /\ UNCHANGED monitoring
  /\ UNCHANGED <<configDir, project, acts>>

(* The project could not be read: the catch clause.                        *)
ConfigFails(t) ==
  /\ tick[t].at = "asked"
  /\ EndTick(t)
  /\ UNCHANGED <<configDir, project, config, chosen, probes, status, acts>>

(* A mutant of Latest: every answer is shown.                              *)
AnyProbe(p) == TRUE

Latest(p) == p.last

(* The answer of checkRemoteServers, or the catch clause for it.           *)
ProbeReply(p) ==
  /\ probes' = probes \ {p}
  /\ status' = IF Latest(p) THEN [servers |-> p.servers, loading |-> FALSE] ELSE status
  /\ IF p.asker \in Ticks THEN EndTick(p.asker) ELSE UNCHANGED <<tick, monitoring>>
  /\ UNCHANGED <<configDir, project, config, chosen, acts>>

-----------------------------------------------------------------------------
(* The user, and the disk.                                                 *)
Act == acts < MaxActs /\ acts' = acts + 1

(* handleConfigSelectionChange                                             *)
ChooseConfigs ==
  \E paths \in SUBSET config :
    /\ Act
    /\ chosen' = paths
    /\ RefreshRemoteStatuses(Servers(paths, config), NoTick)
    /\ UNCHANGED <<configDir, project, config, monitoring, tick>>

(* applySnapshot, with startDynamicRemoteMonitoring: a project that was    *)
(* not open starts with its own defaults.                                  *)
OpenForMonitoring(root) ==
  /\ IF project = NoProject THEN UNCHANGED acts ELSE Act
  /\ project' = root
  /\ config' = configDir[root]
  /\ chosen' = IF root = project THEN KeepSelection(configDir[root]) ELSE configDir[root]
  /\ RefreshRemoteStatuses(Servers(chosen', config'), NoTick)
  /\ monitoring' = FALSE
  /\ UNCHANGED <<configDir, tick>>

EditConfigs(root) ==
  \E files \in SUBSET Configs :
    /\ Act
    /\ configDir' = [configDir EXCEPT ![root] = files]
    /\ UNCHANGED <<project, config, chosen, monitoring, tick, probes, status>>

MonitorNext ==
  \/ \E t \in Ticks : TimerFires(t) \/ ReadConfig(t) \/ ConfigReply(t) \/ ConfigFails(t)
  \/ \E p \in probes : ProbeReply(p)
  \/ ChooseConfigs
  \/ \E r \in Projects : OpenForMonitoring(r) \/ EditConfigs(r)

MonitorSpec == MonitorInit /\ [][MonitorNext]_monitorVars

(* The timer keeps firing, the main process answers, it can read the       *)
(* project again and again, and every probe ends.                          *)
MonitorFairness ==
  /\ WF_monitorVars(\E t \in Ticks : TimerFires(t))
  /\ \A t \in Ticks : WF_monitorVars(ReadConfig(t) \/ ConfigFails(t))
                      /\ SF_monitorVars(ReadConfig(t)) /\ WF_monitorVars(ConfigReply(t))
  /\ WF_monitorVars(\E p \in probes : ProbeReply(p))

MonitorFairSpec == MonitorSpec /\ MonitorFairness

-----------------------------------------------------------------------------
(* The variables have their types.                                         *)
MonitorTypeOK ==
  /\ configDir \in [Projects -> SUBSET Configs]
  /\ project \in Projects \cup {NoProject} /\ config \subseteq Configs /\ chosen \subseteq config
  /\ monitoring \in BOOLEAN
  /\ \A t \in Ticks : tick[t].at \in {"idle", "asked", "read", "probing"}
  /\ \A p \in probes : p.servers \subseteq Configs /\ p.asker \in Ticks \cup {NoTick}
  /\ status.servers \subseteq Configs /\ status.loading \in BOOLEAN
  /\ acts \in 0 .. MaxActs

(* However the answers are ordered, the panel is about the servers the     *)
(* selection names now, and while it says "checking" an answer to the last *)
(* question is on its way.                                                 *)
PanelIsOfSelection ==
  /\ status.servers = Servers(chosen, config)
  /\ status.loading <=> \E p \in probes : p.last /\ p.servers = status.servers

(* Again and again the window shows the configuration that is on disk and  *)
(* an answer for its servers, whatever the user and the disk did before.   *)
MonitorCatchesUp ==
  []<>(/\ ~status.loading
       /\ project # NoProject => config = configDir[project])

(* The panel tells about the selection, and is never left checking.        *)
MonitorTellsTruth == MonitorTypeOK /\ PanelIsOfSelection
=============================================================================
