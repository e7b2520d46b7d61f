--------------------------- MODULE ServicesProofs ----------------------------
(***************************************************************************)
(* Proofs about ProjectSearch and RemoteMonitor, for every tree, set of    *)
(* projects, queries and configurations, batch size and number of ticks.   *)
(*                                                                         *)
(* The search: a search has a number that nothing of an earlier one bears, *)
(* and what the panel shows and what is on its way to it are together the  *)
(* end of what the scan has found (Whole), which is whole, holds no file   *)
(* twice and has no more matches than a scan may find.  The recursive      *)
(* functions of the model are reasoned about by the induction FromZero.    *)
(*                                                                         *)
(* The monitor: every change of the selection goes through                 *)
(* refreshRemoteStatuses, which takes the right to answer from every       *)
(* earlier probe: at most one probe is the last, and it asks for the       *)
(* servers on the panel.                                                   *)
(***************************************************************************)
EXTENDS RemoteMonitor, ProjectSearch, SequenceTheorems, WellFoundedInduction, TLAPS

Probes == [servers : SUBSET Configs, last : BOOLEAN, asker : Ticks \cup {NoTick}]
TickStates == [ at : {"idle", "asked", "read", "probing"},
                root : Projects \cup {NoProject}, read : SUBSET Configs ]

(* The panel and the questions under way.                                  *)
AskedLast ==
  /\ probes \in SUBSET Probes
  /\ status \in [servers : SUBSET Configs, loading : BOOLEAN]
  /\ \A p, q \in probes : p.last /\ q.last => p = q
  /\ \A p \in probes : p.last => p.servers = status.servers
  /\ PanelIsOfSelection

(* The project, the selection and the ticks.                               *)
SelectionInv ==
  /\ configDir \in [Projects -> SUBSET Configs]
  /\ project \in Projects \cup {NoProject}
  /\ config \subseteq Configs /\ chosen \subseteq config
  /\ monitoring \in BOOLEAN /\ acts \in 0 .. MaxActs
  /\ tick \in [Ticks -> TickStates]
  /\ \A t \in Ticks : tick[t].at = "asked" => tick[t].root \in Projects

(* The inductive form of MonitorTellsTruth.                                *)
MonitorInv == SelectionInv /\ AskedLast

(* Asking again leaves exactly the new question as the last one.           *)
LEMMA RefreshAsksLast ==
  ASSUME probes \in SUBSET Probes, NEW servers \in SUBSET Configs,
         NEW asker \in Ticks \cup {NoTick},
         RefreshRemoteStatuses(servers, asker),
         servers = Servers(chosen', config')
  PROVE  AskedLast'
<1> DEFINE demoted == {[p EXCEPT !.last = FALSE] : p \in probes}
           new == [servers |-> servers, last |-> TRUE, asker |-> asker]
<1>1. demoted \in SUBSET Probes /\ \A p \in demoted : ~p.last
  BY DEF Probes
<1>2. new \in Probes /\ new.last /\ new.servers = servers
  BY DEF Probes
<1>3. /\ status' = [servers |-> servers, loading |-> servers # {}]
      /\ probes' = demoted \cup (IF servers = {} THEN {} ELSE {new})
  BY DEF RefreshRemoteStatuses
<1> HIDE DEF demoted, new
<1> QED
  BY <1>1, <1>2, <1>3 DEF AskedLast, PanelIsOfSelection

(* Whoever does not touch the panel, its questions or the selection.       *)
LEMMA PanelUntouched ==
  ASSUME AskedLast, UNCHANGED <<probes, status, chosen, config>>
  PROVE  AskedLast'
  BY DEF AskedLast, PanelIsOfSelection, Servers

(* An answer: only the last one changes what the panel says.               *)
LEMMA AnswerKeepsPanel ==
  ASSUME AskedLast, NEW p \in probes, ProbeReply(p)
  PROVE  AskedLast'
<1>1. /\ probes' = probes \ {p} /\ UNCHANGED <<chosen, config>>
      /\ status' = IF p.last THEN [servers |-> p.servers, loading |-> FALSE] ELSE status
  BY DEF ProbeReply, Latest
<1>2. p \in Probes /\ p.servers \in SUBSET Configs /\ p.last \in BOOLEAN
  BY DEF AskedLast, Probes
<1>3. CASE p.last
  BY <1>1, <1>2, <1>3 DEF AskedLast, PanelIsOfSelection, Servers
<1>4. CASE ~p.last
  BY <1>1, <1>2, <1>4 DEF AskedLast, PanelIsOfSelection, Servers
<1> QED
  BY <1>2, <1>3, <1>4

LEMMA EndTickKeeps ==
  ASSUME SelectionInv, NEW t \in Ticks, EndTick(t)
  PROVE  /\ tick' \in [Ticks -> TickStates] /\ monitoring' \in BOOLEAN
         /\ \A u \in Ticks : tick'[u].at = "asked" => tick'[u].root \in Projects
  BY DEF SelectionInv, EndTick, Idle, TickStates

LEMMA MonitorStep ==
  ASSUME MonitorInv, [MonitorNext]_monitorVars
  PROVE  MonitorInv'
<1>1. SelectionInv /\ AskedLast /\ probes \in SUBSET Probes
  BY DEF MonitorInv, AskedLast
<1>2. ASSUME NEW t \in Ticks, TimerFires(t) PROVE MonitorInv'
  <2>1. AskedLast'
    BY <1>1, <1>2, PanelUntouched DEF TimerFires
  <2>2. SelectionInv'
    BY <1>1, <1>2, MonitorAssumption DEF TimerFires, SelectionInv, TickStates
  <2> QED
    BY <2>1, <2>2 DEF MonitorInv
<1>3. ASSUME NEW t \in Ticks, ReadConfig(t) PROVE MonitorInv'
  <2>1. AskedLast'
    BY <1>1, <1>3, PanelUntouched DEF ReadConfig
  <2>2. SelectionInv'
    <3>1. tick[t] \in TickStates /\ configDir[tick[t].root] \in SUBSET Configs
      BY <1>1, <1>3 DEF ReadConfig, SelectionInv
    <3>2. [tick[t] EXCEPT !.at = "read", !.read = configDir[tick[t].root]] \in TickStates
      BY <3>1 DEF TickStates
    <3> QED
      BY <1>1, <1>3, <3>1, <3>2 DEF ReadConfig, SelectionInv
  <2> QED
    BY <2>1, <2>2 DEF MonitorInv
<1>4. ASSUME NEW t \in Ticks, ConfigReply(t) PROVE MonitorInv'
  <2>1. /\ config' = tick[t].read /\ config' \subseteq Configs
        /\ chosen' = IF config' = config THEN chosen ELSE chosen \cap config'
        /\ UNCHANGED <<configDir, project, acts>>
    BY <1>1, <1>4 DEF ConfigReply, ApplyConfig, KeepSelection, SelectionInv, TickStates
  <2>2. chosen' \subseteq config'
    BY <1>1, <2>1 DEF SelectionInv
  <2>3. AskedLast'
    <3>1. Servers(chosen', config') \in SUBSET Configs
      BY <2>1, <2>2 DEF Servers
    <3>2. RefreshRemoteStatuses(Servers(chosen', config'), t)
      BY <1>4 DEF ConfigReply
    <3> QED
      BY <1>1, <3>1, <3>2, RefreshAsksLast
  <2>4. /\ tick' \in [Ticks -> TickStates] /\ monitoring' \in BOOLEAN
        /\ \A u \in Ticks : tick'[u].at = "asked" => tick'[u].root \in Projects
    <3>1. CASE EndTick(t)
      BY <1>1, <3>1, EndTickKeeps
    <3>2. CASE tick' = [tick EXCEPT ![t] = [Idle EXCEPT !.at = "probing"]]
               /\ UNCHANGED monitoring
      BY <1>1, <3>2 DEF SelectionInv, Idle, TickStates
    <3> QED
      BY <1>4, <3>1, <3>2 DEF ConfigReply
  <2>5. SelectionInv'
    BY <1>1, <2>1, <2>2, <2>4 DEF SelectionInv
  <2> QED
    BY <2>3, <2>5 DEF MonitorInv
<1>5. ASSUME NEW t \in Ticks, ConfigFails(t) PROVE MonitorInv'
  <2>1. AskedLast'
    BY <1>1, <1>5, PanelUntouched DEF ConfigFails
  <2>2. SelectionInv'
    BY <1>1, <1>5, EndTickKeeps DEF ConfigFails, SelectionInv
  <2> QED
    BY <2>1, <2>2 DEF MonitorInv
<1>6. ASSUME NEW p \in probes, ProbeReply(p) PROVE MonitorInv'
  <2>1. AskedLast'
    BY <1>1, <1>6, AnswerKeepsPanel
  <2>2. SelectionInv'
    BY <1>1, <1>6, EndTickKeeps DEF ProbeReply, SelectionInv
  <2> QED
    BY <2>1, <2>2 DEF MonitorInv
<1>7. CASE ChooseConfigs
  <2>1. PICK paths \in SUBSET config :
          /\ Act /\ chosen' = paths
          /\ RefreshRemoteStatuses(Servers(paths, config), NoTick)
          /\ UNCHANGED <<configDir, project, config, monitoring, tick>>
    BY <1>7 DEF ChooseConfigs
  <2>2. AskedLast'
    <3>1. Servers(paths, config) \in SUBSET Configs
          /\ Servers(paths, config) = Servers(chosen', config')
      BY <1>1, <2>1 DEF Servers, SelectionInv
    <3> QED
      BY <1>1, <2>1, <3>1, RefreshAsksLast
  <2>3. SelectionInv'
    BY <1>1, <2>1, MonitorAssumption DEF SelectionInv, Act
  <2> QED
    BY <2>2, <2>3 DEF MonitorInv
<1>8. ASSUME NEW r \in Projects, OpenForMonitoring(r) PROVE MonitorInv'
  <2>1. /\ project' = r /\ config' = configDir[r] /\ monitoring' = FALSE
        /\ chosen' = IF r = project THEN chosen \cap configDir[r] ELSE configDir[r]
        /\ UNCHANGED <<configDir, tick>> /\ (UNCHANGED acts \/ Act)
    BY <1>8 DEF OpenForMonitoring, KeepSelection
  <2>2. config' \subseteq Configs /\ chosen' \subseteq config'
    BY <1>1, <2>1 DEF SelectionInv
  <2>3. AskedLast'
    <3>1. Servers(chosen', config') \in SUBSET Configs
      BY <2>2 DEF Servers
    <3>2. RefreshRemoteStatuses(Servers(chosen', config'), NoTick)
      BY <1>8 DEF OpenForMonitoring
    <3> QED
      BY <1>1, <3>1, <3>2, RefreshAsksLast
  <2>4. SelectionInv'
    <3>1. acts' \in 0 .. MaxActs
      BY <1>1, <2>1, MonitorAssumption DEF SelectionInv, Act
    <3>2. project' \in Projects \cup {NoProject} /\ monitoring' \in BOOLEAN
      BY <2>1
    <3> QED
      BY <1>1, <2>1, <2>2, <3>1, <3>2 DEF SelectionInv
  <2> QED
    BY <2>3, <2>4 DEF MonitorInv
<1>9. ASSUME NEW r \in Projects, EditConfigs(r) PROVE MonitorInv'
  <2>1. AskedLast'
    BY <1>1, <1>9, PanelUntouched DEF EditConfigs
  <2>2. SelectionInv'
    BY <1>1, <1>9, MonitorAssumption DEF EditConfigs, SelectionInv, Act
  <2> QED
    BY <2>1, <2>2 DEF MonitorInv
<1>10. CASE UNCHANGED monitorVars
  <2>1. AskedLast'
    BY <1>1, <1>10, PanelUntouched DEF monitorVars
  <2>2. SelectionInv'
    BY <1>1, <1>10 DEF monitorVars, SelectionInv
  <2> QED
    BY <2>1, <2>2 DEF MonitorInv
<1> QED
  BY <1>2, <1>3, <1>4, <1>5, <1>6, <1>7, <1>8, <1>9, <1>10 DEF MonitorNext

LEMMA MonitorStarts ==
  ASSUME MonitorInit PROVE MonitorInv
<1>1. SelectionInv
  <2>1. tick \in [Ticks -> TickStates] /\ \A t \in Ticks : tick[t].at # "asked"
    BY DEF MonitorInit, TickStates, Idle
  <2>2. configDir \in [Projects -> SUBSET Configs]
    BY DEF MonitorInit
  <2>3. acts \in 0 .. MaxActs
    BY MonitorAssumption DEF MonitorInit
  <2>4. /\ config = {} /\ chosen = {} /\ monitoring = FALSE /\ project = NoProject
    BY DEF MonitorInit
  <2> QED
    BY <2>1, <2>2, <2>3, <2>4 DEF SelectionInv
<1>2. AskedLast
  BY DEF MonitorInit, AskedLast, PanelIsOfSelection, Servers
<1> QED
  BY <1>1, <1>2 DEF MonitorInv

LEMMA MonitorInvariant == MonitorSpec => []MonitorInv
  BY MonitorStarts, MonitorStep, PTL DEF MonitorSpec

(* The panel tells about the servers of the selection, whatever order the  *)
(* answers of checkRemoteServers come in, and says "checking" exactly      *)
(* while the answer to the last question is on its way.                    *)
THEOREM PanelTellsTruth == MonitorSpec => []MonitorTellsTruth
<1>1. MonitorInv => MonitorTellsTruth
  BY DEF MonitorInv, SelectionInv, AskedLast, MonitorTellsTruth, MonitorTypeOK, Probes,
         TickStates
<1> QED
  BY <1>1, MonitorInvariant, PTL

-----------------------------------------------------------------------------
(* Induction from zero, over a set instead of a predicate.                 *)
LEMMA FromZero ==
  ASSUME NEW S, 0 \in S, \A n \in Nat : n \in S => n + 1 \in S
  PROVE  \A n \in Nat : n \in S
<1> DEFINE missing == Nat \ S
<1>1. ASSUME missing # {} PROVE FALSE
  <2>1. PICK m \in missing : \A n \in missing : <<n, m>> \notin OpToRel(<, Nat)
    BY <1>1, NatLessThanWellFounded, WFMin
  <2>2. m # 0 /\ m - 1 \in Nat /\ m - 1 < m /\ m = (m - 1) + 1
    OBVIOUS
  <2>3. m - 1 \notin missing
    BY <2>1, <2>2 DEF OpToRel
  <2> QED
    BY <2>2, <2>3
<1> QED
  BY <1>1

FoundFiles == [path : TreePaths, text : [Queries -> Nat], n : Nat]

LEMMA FilesAssociative ==
  \A s, t, u \in Seq(FoundFiles) : (s \o t) \o u = s \o (t \o u)
BY ConcatAssociative

-----------------------------------------------------------------------------
(* What counts the matches of a list of files.                             *)
Sums(f, files, k) == f = [i \in 0..k |-> IF i = 0 THEN 0 ELSE f[i - 1] + files[i].n]

LEMMA SumsExist ==
  ASSUME NEW files, NEW k \in Nat
  PROVE  \E f : Sums(f, files, k)
<1> DEFINE S == {n \in Nat : \E f : Sums(f, files, n)}
<1>1. 0 \in S
  <2> DEFINE f == [i \in 0..0 |-> 0]
  <2>1. Sums(f, files, 0)
    BY DEF Sums
  <2> QED
    BY <2>1
<1>2. ASSUME NEW n \in Nat, n \in S PROVE n + 1 \in S
  <2>1. PICK f : Sums(f, files, n)
    BY <1>2
  <2> DEFINE g == [i \in 0..(n + 1) |-> IF i = n + 1 THEN f[n] + files[n + 1].n ELSE f[i]]
  <2>2. ASSUME NEW i \in 0..(n + 1)
        PROVE  g[i] = IF i = 0 THEN 0 ELSE g[i - 1] + files[i].n
    <3>1. CASE i = n + 1
      BY <3>1
    <3>2. CASE i \in 0..n
      <4>1. f[i] = IF i = 0 THEN 0 ELSE f[i - 1] + files[i].n
        BY <2>1, <3>2 DEF Sums
      <4> QED
        BY <3>2, <4>1
    <3> QED
      BY <3>1, <3>2
  <2>3. Sums(g, files, n + 1)
    <3> HIDE DEF g
    <3>1. DOMAIN g = 0..(n + 1) /\ g = [i \in DOMAIN g |-> g[i]]
      BY DEF g
    <3> QED
      BY <2>2, <3>1 DEF Sums
  <2> QED
    BY <2>3
<1> HIDE DEF S
<1>3. k \in S
  BY <1>1, <1>2, FromZero
<1> QED
  BY <1>3 DEF S

LEMMA SumsOf ==
  ASSUME NEW files \in Seq(FoundFiles)
  PROVE  \E f : Sums(f, files, Len(files)) /\ MatchesIn(files) = f[Len(files)]
<1> DEFINE g == CHOOSE f : Sums(f, files, Len(files))
<1>1. Sums(g, files, Len(files))
  <2>1. Len(files) \in Nat
    OBVIOUS
  <2>2. \E f : Sums(f, files, Len(files))
    BY <2>1, SumsExist
  <2> QED
    BY <2>2
<1>2. MatchesIn(files) = g[Len(files)]
  BY DEF MatchesIn, Sums
<1> QED
  BY <1>1, <1>2

LEMMA SumsAt ==
  ASSUME NEW files \in Seq(FoundFiles), NEW f, Sums(f, files, Len(files))
  PROVE  /\ f[0] = 0
         /\ \A i \in 1..Len(files) : f[i] = f[i - 1] + files[i].n
         /\ \A i \in 0..Len(files) : f[i] \in Nat
<1>1. f[0] = 0 /\ \A i \in 1..Len(files) : f[i] = f[i - 1] + files[i].n
  BY DEF Sums
<1> DEFINE S == {n \in Nat : n <= Len(files) => f[n] \in Nat}
<1>2. 0 \in S
  BY <1>1
<1>3. ASSUME NEW n \in Nat, n \in S PROVE n + 1 \in S
  <2>1. CASE n + 1 <= Len(files)
    <3>1. f[n] \in Nat /\ n + 1 \in 1..Len(files)
      BY <1>3, <2>1
    <3>2. files[n + 1] \in FoundFiles
      BY <3>1
    <3>3. f[n + 1] = f[n] + files[n + 1].n /\ files[n + 1].n \in Nat
      BY <1>1, <3>1, <3>2 DEF FoundFiles
    <3> QED
      BY <3>1, <3>3
  <2> QED
    BY <2>1
<1> HIDE DEF S
<1>4. \A n \in Nat : n \in S
  BY <1>2, <1>3, FromZero
<1> QED
  BY <1>1, <1>4 DEF S

LEMMA MatchesConcat ==
  ASSUME NEW s \in Seq(FoundFiles), NEW t \in Seq(FoundFiles)
  PROVE  /\ MatchesIn(s) \in Nat /\ MatchesIn(t) \in Nat
         /\ MatchesIn(s \o t) = MatchesIn(s) + MatchesIn(t)
<1>1. PICK f : Sums(f, s, Len(s)) /\ MatchesIn(s) = f[Len(s)]
  BY SumsOf
<1>2. PICK g : Sums(g, t, Len(t)) /\ MatchesIn(t) = g[Len(t)]
  BY SumsOf
<1> DEFINE st == s \o t
<1>3. st \in Seq(FoundFiles) /\ Len(st) = Len(s) + Len(t)
  OBVIOUS
<1>4. PICK h : Sums(h, st, Len(st)) /\ MatchesIn(st) = h[Len(st)]
  BY <1>3, SumsOf
<1>5. /\ \A i \in 1..Len(s) : st[i] = s[i]
      /\ \A j \in 1..Len(t) : st[Len(s) + j] = t[j]
  OBVIOUS
<1> HIDE DEF st
<1> DEFINE S == {n \in Nat : n <= Len(s) => h[n] = f[n]}
           T == {n \in Nat : n <= Len(t) => h[Len(s) + n] = f[Len(s)] + g[n]}
<1>6. /\ f[0] = 0 /\ \A i \in 0..Len(s) : f[i] \in Nat
      /\ \A i \in 1..Len(s) : f[i] = f[i - 1] + s[i].n
  BY <1>1, SumsAt
<1>7. /\ g[0] = 0 /\ \A i \in 0..Len(t) : g[i] \in Nat
      /\ \A i \in 1..Len(t) : g[i] = g[i - 1] + t[i].n
  BY <1>2, SumsAt
<1>8. /\ h[0] = 0 /\ \A i \in 0..Len(st) : h[i] \in Nat
      /\ \A i \in 1..Len(st) : h[i] = h[i - 1] + st[i].n
  BY <1>3, <1>4, SumsAt
<1>9. Len(s) \in Nat /\ Len(t) \in Nat
  OBVIOUS
<1>10. \A n \in Nat : n \in S
  <2>1. 0 \in S
    BY <1>6, <1>8
  <2>2. ASSUME NEW n \in Nat, n \in S PROVE n + 1 \in S
    <3>1. CASE n + 1 <= Len(s)
      <4>1. n + 1 \in 1..Len(s) /\ n + 1 \in 1..Len(st) /\ (n + 1) - 1 = n
        BY <1>3, <1>9, <3>1
      <4>2. h[n + 1] = h[n] + s[n + 1].n /\ f[n + 1] = f[n] + s[n + 1].n
        BY <1>5, <1>6, <1>8, <4>1
      <4>3. h[n] = f[n]
        BY <2>2, <3>1, <1>9
      <4> QED
        BY <4>2, <4>3
    <3> QED
      BY <3>1
  <2> HIDE DEF S
  <2> QED
    BY <2>1, <2>2, FromZero
<1>11. h[Len(s)] = f[Len(s)]
  BY <1>9, <1>10
<1>12. \A n \in Nat : n \in T
  <2>1. 0 \in T
    BY <1>6, <1>7, <1>9, <1>11
  <2>2. ASSUME NEW n \in Nat, n \in T PROVE n + 1 \in T
    <3>1. CASE n + 1 <= Len(t)
      <4>1. /\ n + 1 \in 1..Len(t) /\ (n + 1) - 1 = n
            /\ Len(s) + (n + 1) \in 1..Len(st) /\ Len(s) + (n + 1) - 1 = Len(s) + n
        BY <1>3, <1>9, <3>1
      <4>2. /\ h[Len(s) + (n + 1)] = h[Len(s) + n] + t[n + 1].n
            /\ g[n + 1] = g[n] + t[n + 1].n
        BY <1>5, <1>7, <1>8, <4>1
      <4>3. h[Len(s) + n] = f[Len(s)] + g[n] /\ n \in 0..Len(t)
        BY <2>2, <3>1, <1>9
      <4>4. f[Len(s)] \in Nat /\ g[n] \in Nat /\ t[n + 1].n \in Nat
        <5>1. t[n + 1] \in FoundFiles
          BY <4>1
        <5> QED
          BY <1>6, <1>7, <1>9, <4>3, <5>1 DEF FoundFiles
      <4> QED
        BY <4>2, <4>3, <4>4
    <3> QED
      BY <3>1
  <2> HIDE DEF T
  <2> QED
    BY <2>1, <2>2, FromZero
<1>13. h[Len(s) + Len(t)] = f[Len(s)] + g[Len(t)]
  BY <1>9, <1>12
<1> QED
  BY <1>1, <1>2, <1>3, <1>4, <1>6, <1>7, <1>9, <1>13 DEF st

LEMMA MatchesOfNone == MatchesIn(<<>>) = 0
<1>1. <<>> \in Seq(FoundFiles) /\ Len(<<>>) = 0
  OBVIOUS
<1>2. PICK f : Sums(f, <<>>, 0) /\ MatchesIn(<<>>) = f[0]
  BY <1>1, SumsOf
<1> QED
  BY <1>2 DEF Sums

LEMMA MatchesOfOne ==
  ASSUME NEW file \in FoundFiles
  PROVE  MatchesIn(<<file>>) = file.n
<1> DEFINE one == <<file>>
<1>1. one \in Seq(FoundFiles) /\ Len(one) = 1 /\ one[1] = file
  OBVIOUS
<1> HIDE DEF one
<1>2. PICK f : Sums(f, one, 1) /\ MatchesIn(one) = f[1]
  BY <1>1, SumsOf
<1>3. f[0] = 0 /\ f[1] = f[0] + one[1].n
  BY <1>2 DEF Sums
<1>4. file.n \in Nat
  BY DEF FoundFiles
<1> QED
  BY <1>1, <1>2, <1>3, <1>4 DEF one

-----------------------------------------------------------------------------
(* The batches of a search, in the order they were sent.                   *)
Joins(f, id, sent, k) ==
  f = [i \in 0..k |-> IF i = 0 THEN <<>> ELSE f[i - 1] \o BatchFiles(id, sent[i])]

LEMMA JoinsExist ==
  ASSUME NEW id, NEW sent, NEW k \in Nat
  PROVE  \E f : Joins(f, id, sent, k)
<1> DEFINE S == {n \in Nat : \E f : Joins(f, id, sent, n)}
<1>1. 0 \in S
  <2> DEFINE f == [i \in 0..0 |-> <<>>]
  <2>1. Joins(f, id, sent, 0)
    BY DEF Joins
  <2> QED
    BY <2>1
<1>2. ASSUME NEW n \in Nat, n \in S PROVE n + 1 \in S
  <2>1. PICK f : Joins(f, id, sent, n)
    BY <1>2
  <2> DEFINE g == [i \in 0..(n + 1) |->
                     IF i = n + 1 THEN f[n] \o BatchFiles(id, sent[n + 1]) ELSE f[i]]
  <2>2. \A i \in 0..n : f[i] = IF i = 0 THEN <<>> ELSE f[i - 1] \o BatchFiles(id, sent[i])
    BY <2>1 DEF Joins
  <2>3. ASSUME NEW i \in 0..(n + 1)
        PROVE  g[i] = IF i = 0 THEN <<>> ELSE g[i - 1] \o BatchFiles(id, sent[i])
    <3>1. CASE i = n + 1
      BY <3>1
    <3>2. CASE i \in 0..n
      BY <2>2, <3>2
    <3> QED
      BY <3>1, <3>2
  <2>4. Joins(g, id, sent, n + 1)
    <3> HIDE DEF g
    <3>1. DOMAIN g = 0..(n + 1) /\ g = [i \in DOMAIN g |-> g[i]]
      BY DEF g
    <3> QED
      BY <2>3, <3>1 DEF Joins
  <2> QED
    BY <2>4
<1> HIDE DEF S
<1>3. k \in S
  BY <1>1, <1>2, FromZero
<1> QED
  BY <1>3 DEF S

LEMMA JoinedOf ==
  ASSUME NEW id, NEW E, NEW sent \in Seq(E)
  PROVE  \E f : /\ Joined(id, sent) = f[Len(sent)]
                /\ f[0] = <<>>
                /\ \A i \in 1..Len(sent) : f[i] = f[i - 1] \o BatchFiles(id, sent[i])
<1> DEFINE g == CHOOSE f : Joins(f, id, sent, Len(sent))
<1>1. Joins(g, id, sent, Len(sent))
  <2>1. Len(sent) \in Nat
    OBVIOUS
  <2>2. \E f : Joins(f, id, sent, Len(sent))
    BY <2>1, JoinsExist
  <2> QED
    BY <2>2
<1>2. Joined(id, sent) = g[Len(sent)]
  BY DEF Joined, Joins
<1> HIDE DEF g
<1>3. g[0] = <<>> /\ \A i \in 1..Len(sent) : g[i] = g[i - 1] \o BatchFiles(id, sent[i])
  <2>1. 0 \in 0..Len(sent) /\ \A i \in 1..Len(sent) : i \in 0..Len(sent) /\ i # 0
    OBVIOUS
  <2> QED
    BY <1>1, <2>1 DEF Joins
<1> QED
  BY <1>2, <1>3

BatchesTyped(id, sent) ==
  \A i \in DOMAIN sent : BatchFiles(id, sent[i]) \in Seq(FoundFiles)

LEMMA JoinedSteps ==
  ASSUME NEW id, NEW E, NEW sent \in Seq(E), BatchesTyped(id, sent)
  PROVE  \E f : /\ Joined(id, sent) = f[Len(sent)]
                /\ f[0] = <<>>
                /\ \A i \in 1..Len(sent) : f[i] = f[i - 1] \o BatchFiles(id, sent[i])
                /\ \A i \in 0..Len(sent) : f[i] \in Seq(FoundFiles)
<1>1. PICK f : /\ Joined(id, sent) = f[Len(sent)]
               /\ f[0] = <<>>
               /\ \A i \in 1..Len(sent) : f[i] = f[i - 1] \o BatchFiles(id, sent[i])
  BY JoinedOf
<1> DEFINE S == {n \in Nat : n <= Len(sent) => f[n] \in Seq(FoundFiles)}
<1>2. 0 \in S
  <2>1. <<>> \in Seq(FoundFiles)
    OBVIOUS
  <2> QED
    BY <1>1, <2>1
<1>3. ASSUME NEW n \in Nat, n \in S PROVE n + 1 \in S
  <2>1. CASE n + 1 <= Len(sent)
    <3>1. n + 1 \in 1..Len(sent) /\ n + 1 \in DOMAIN sent /\ (n + 1) - 1 = n /\ n <= Len(sent)
      BY <2>1
    <3>2. BatchFiles(id, sent[n + 1]) \in Seq(FoundFiles)
      BY <3>1 DEF BatchesTyped
    <3>3. f[n] \in Seq(FoundFiles)
      BY <1>3, <3>1
    <3>4. f[n + 1] = f[n] \o BatchFiles(id, sent[n + 1])
      BY <1>1, <3>1
    <3>5. f[n + 1] \in Seq(FoundFiles)
      BY <3>2, <3>3, <3>4
    <3> QED
      BY <3>5
  <2> QED
    BY <2>1
<1> HIDE DEF S
<1>4. \A n \in Nat : n \in S
  BY <1>2, <1>3, FromZero
<1>5. \A n \in 0..Len(sent) : f[n] \in Seq(FoundFiles)
  BY <1>4 DEF S
<1> QED
  BY <1>1, <1>5

LEMMA JoinedAppend ==
  ASSUME NEW id, NEW E, NEW sent \in Seq(E), NEW e \in E,
         BatchesTyped(id, sent), BatchFiles(id, e) \in Seq(FoundFiles)
  PROVE  /\ BatchesTyped(id, Append(sent, e))
         /\ Joined(id, sent) \in Seq(FoundFiles)
         /\ Joined(id, Append(sent, e)) = Joined(id, sent) \o BatchFiles(id, e)
<1> DEFINE longer == Append(sent, e)
<1>0. longer \in Seq(E)
  OBVIOUS
<1>1. /\ Len(longer) = Len(sent) + 1 /\ Len(sent) \in Nat
      /\ DOMAIN longer = 1..(Len(sent) + 1) /\ DOMAIN sent = 1..Len(sent)
      /\ \A i \in 1..Len(sent) : longer[i] = sent[i]
      /\ longer[Len(sent) + 1] = e
  OBVIOUS
<1> HIDE DEF longer
<1>2. BatchesTyped(id, longer)
  BY <1>1 DEF BatchesTyped
<1>3. PICK f : /\ Joined(id, sent) = f[Len(sent)]
               /\ f[0] = <<>>
               /\ \A i \in 1..Len(sent) : f[i] = f[i - 1] \o BatchFiles(id, sent[i])
               /\ \A i \in 0..Len(sent) : f[i] \in Seq(FoundFiles)
  BY JoinedSteps
<1>4. PICK g : /\ Joined(id, longer) = g[Len(longer)]
               /\ g[0] = <<>>
               /\ \A i \in 1..Len(longer) : g[i] = g[i - 1] \o BatchFiles(id, longer[i])
               /\ \A i \in 0..Len(longer) : g[i] \in Seq(FoundFiles)
  BY <1>0, <1>2, JoinedSteps
<1> DEFINE S == {n \in Nat : n <= Len(sent) => g[n] = f[n]}
<1>5. 0 \in S
  BY <1>3, <1>4
<1>6. ASSUME NEW n \in Nat, n \in S PROVE n + 1 \in S
  <2>1. CASE n + 1 <= Len(sent)
    <3>1. n + 1 \in 1..Len(sent) /\ n + 1 \in 1..Len(longer) /\ (n + 1) - 1 = n
      BY <1>1, <2>1
    <3>2. /\ g[n + 1] = g[n] \o BatchFiles(id, longer[n + 1])
          /\ f[n + 1] = f[n] \o BatchFiles(id, sent[n + 1])
      BY <1>3, <1>4, <3>1
    <3>3. g[n] = f[n]
      BY <1>1, <1>6, <2>1
    <3>4. longer[n + 1] = sent[n + 1]
      BY <1>1, <3>1
    <3>5. g[n + 1] = f[n + 1]
      BY <3>2, <3>3, <3>4
    <3> QED
      BY <3>5
  <2> QED
    BY <2>1
<1> HIDE DEF S
<1>7. g[Len(sent)] = f[Len(sent)]
  <2>1. Len(sent) \in S
    BY <1>1, <1>5, <1>6, FromZero
  <2> QED
    BY <1>1, <2>1 DEF S
<1>8. Len(longer) \in 1..Len(longer) /\ Len(longer) - 1 = Len(sent)
  BY <1>1
<1>9. Joined(id, longer) = Joined(id, sent) \o BatchFiles(id, e)
  <2>1. g[Len(longer)] = g[Len(longer) - 1] \o BatchFiles(id, longer[Len(longer)])
    BY <1>4, <1>8
  <2>2. longer[Len(longer)] = e
    BY <1>1
  <2> QED
    BY <1>3, <1>4, <1>7, <1>8, <2>1, <2>2
<1>10. Joined(id, sent) \in Seq(FoundFiles)
  <2>1. Len(sent) \in 0..Len(sent)
    BY <1>1
  <2> QED
    BY <1>3, <2>1
<1> QED
  BY <1>2, <1>9, <1>10 DEF longer

LEMMA JoinedTail ==
  ASSUME NEW id, NEW E, NEW sent \in Seq(E), sent # <<>>, BatchesTyped(id, sent)
  PROVE  /\ BatchesTyped(id, Tail(sent))
         /\ Joined(id, Tail(sent)) \in Seq(FoundFiles)
         /\ BatchFiles(id, Head(sent)) \in Seq(FoundFiles)
         /\ Joined(id, sent) = BatchFiles(id, Head(sent)) \o Joined(id, Tail(sent))
<1> DEFINE rest == Tail(sent)
<1>0. rest \in Seq(E)
  OBVIOUS
<1>1. /\ Len(sent) \in Nat \ {0} /\ Len(rest) = Len(sent) - 1
      /\ Len(rest) \in Nat
      /\ DOMAIN rest = 1..Len(rest) /\ DOMAIN sent = 1..Len(sent)
      /\ \A i \in 1..Len(rest) : rest[i] = sent[i + 1]
      /\ Head(sent) = sent[1]
  OBVIOUS
<1> HIDE DEF rest
<1>2. BatchesTyped(id, rest)
  <2> SUFFICES ASSUME NEW i \in DOMAIN rest
               PROVE  BatchFiles(id, rest[i]) \in Seq(FoundFiles)
    BY DEF BatchesTyped
  <2>1. i + 1 \in DOMAIN sent /\ rest[i] = sent[i + 1]
    BY <1>1
  <2> QED
    BY <2>1 DEF BatchesTyped
<1>3. PICK f : /\ Joined(id, sent) = f[Len(sent)]
               /\ f[0] = <<>>
               /\ \A i \in 1..Len(sent) : f[i] = f[i - 1] \o BatchFiles(id, sent[i])
               /\ \A i \in 0..Len(sent) : f[i] \in Seq(FoundFiles)
  BY JoinedSteps
<1>4. PICK g : /\ Joined(id, rest) = g[Len(rest)]
               /\ g[0] = <<>>
               /\ \A i \in 1..Len(rest) : g[i] = g[i - 1] \o BatchFiles(id, rest[i])
               /\ \A i \in 0..Len(rest) : g[i] \in Seq(FoundFiles)
  BY <1>0, <1>2, JoinedSteps
<1> DEFINE first == BatchFiles(id, sent[1])
           S == {n \in Nat : n <= Len(rest) => f[n + 1] = first \o g[n]}
<1>5. first \in Seq(FoundFiles) /\ first = first \o <<>> /\ first = <<>> \o first
  <2>1. first \in Seq(FoundFiles)
    BY <1>1 DEF BatchesTyped
  <2> HIDE DEF first
  <2> QED
    BY <2>1
<1> HIDE DEF first
<1>6. 0 \in S
  <2>1. f[1] = f[0] \o first
    <3>1. 1 \in 1..Len(sent) /\ 1 - 1 = 0
      BY <1>1
    <3> QED
      BY <1>3, <3>1 DEF first
  <2> QED
    BY <1>3, <1>4, <1>5, <2>1
<1>7. ASSUME NEW n \in Nat, n \in S PROVE n + 1 \in S
  <2>1. CASE n + 1 <= Len(rest)
    <3>1. /\ n + 1 \in 1..Len(rest) /\ (n + 1) + 1 \in 1..Len(sent)
          /\ (n + 1) - 1 = n /\ ((n + 1) + 1) - 1 = n + 1 /\ n \in 0..Len(rest)
      BY <1>1, <2>1
    <3> DEFINE b == BatchFiles(id, rest[n + 1])
    <3>2. b = BatchFiles(id, sent[(n + 1) + 1]) /\ b \in Seq(FoundFiles)
      BY <1>1, <1>2, <3>1 DEF BatchesTyped
    <3> HIDE DEF b
    <3>3. g[n + 1] = g[n] \o b /\ f[(n + 1) + 1] = f[n + 1] \o b
      BY <1>3, <1>4, <3>1, <3>2 DEF b
    <3>4. f[n + 1] = first \o g[n] /\ g[n] \in Seq(FoundFiles)
      BY <1>4, <1>7, <3>1
    <3>5. (first \o g[n]) \o b = first \o (g[n] \o b)
      <4>1. first \in Seq(FoundFiles) /\ g[n] \in Seq(FoundFiles) /\ b \in Seq(FoundFiles)
        BY <1>5, <3>2, <3>4
      <4> QED
        BY <4>1, FilesAssociative
    <3>6. f[(n + 1) + 1] = first \o g[n + 1]
      BY <3>3, <3>4, <3>5
    <3> QED
      BY <3>6
  <2> QED
    BY <2>1
<1> HIDE DEF S
<1>8. f[Len(rest) + 1] = first \o g[Len(rest)]
  <2>1. Len(rest) \in S
    BY <1>1, <1>6, <1>7, FromZero
  <2> QED
    BY <1>1, <2>1 DEF S
<1>9. Len(rest) + 1 = Len(sent) /\ Len(rest) \in 0..Len(rest)
  BY <1>1
<1> QED
  BY <1>1, <1>2, <1>3, <1>4, <1>5, <1>8, <1>9 DEF rest, first

LEMMA JoinedNone ==
  ASSUME NEW id, NEW E, NEW sent \in Seq(E),
         \A i \in DOMAIN sent : BatchFiles(id, sent[i]) = <<>>
  PROVE  Joined(id, sent) = <<>>
<1>1. PICK f : /\ Joined(id, sent) = f[Len(sent)]
               /\ f[0] = <<>>
               /\ \A i \in 1..Len(sent) : f[i] = f[i - 1] \o BatchFiles(id, sent[i])
  BY JoinedOf
<1> DEFINE S == {n \in Nat : n <= Len(sent) => f[n] = <<>>}
<1>2. 0 \in S
  BY <1>1
<1>3. ASSUME NEW n \in Nat, n \in S PROVE n + 1 \in S
  <2>1. CASE n + 1 <= Len(sent)
    <3>1. n + 1 \in 1..Len(sent) /\ n + 1 \in DOMAIN sent /\ (n + 1) - 1 = n /\ n <= Len(sent)
      BY <2>1
    <3>2. f[n + 1] = f[n] \o <<>> /\ f[n] = <<>>
      BY <1>1, <1>3, <3>1
    <3>3. f[n + 1] = <<>>
      BY <3>2
    <3> QED
      BY <3>3
  <2> QED
    BY <2>1
<1> HIDE DEF S
<1>4. Len(sent) \in Nat
  OBVIOUS
<1>5. Len(sent) \in S
  BY <1>2, <1>3, <1>4, FromZero
<1> QED
  BY <1>1, <1>4, <1>5 DEF S

-----------------------------------------------------------------------------
(* Lists of files: each path once, and each with the matches it has.       *)
PathsOf(files) == {files[i].path : i \in DOMAIN files}

OnePerPath(files) ==
  \A i, j \in DOMAIN files : files[i].path = files[j].path => i = j

Backed(files, q) == \A i \in DOMAIN files : files[i].n <= files[i].text[q]

LEMMA FilesConcat ==
  ASSUME NEW s \in Seq(FoundFiles), NEW t \in Seq(FoundFiles), NEW q
  PROVE  /\ s \o t \in Seq(FoundFiles)
         /\ PathsOf(s \o t) = PathsOf(s) \cup PathsOf(t)
         /\ Backed(s \o t, q) <=> Backed(s, q) /\ Backed(t, q)
         /\ OnePerPath(s \o t) <=>
              /\ OnePerPath(s) /\ OnePerPath(t)
              /\ PathsOf(s) \cap PathsOf(t) = {}
<1> DEFINE st == s \o t
<1>0. st \in Seq(FoundFiles)
  OBVIOUS
<1>1. /\ Len(s) \in Nat /\ Len(t) \in Nat
      /\ DOMAIN s = 1..Len(s) /\ DOMAIN t = 1..Len(t) /\ DOMAIN st = 1..(Len(s) + Len(t))
      /\ \A i \in 1..Len(s) : st[i] = s[i]
      /\ \A j \in 1..Len(t) : st[Len(s) + j] = t[j]
  OBVIOUS
<1> HIDE DEF st
<1>2. \A k \in DOMAIN st : k \in DOMAIN s \/ \E j \in DOMAIN t : k = Len(s) + j
  <2> TAKE k \in DOMAIN st
  <2>1. CASE k \in 1..Len(s)
    BY <1>1, <2>1
  <2>2. CASE k \notin 1..Len(s)
    <3>1. k - Len(s) \in DOMAIN t /\ k = Len(s) + (k - Len(s))
      BY <1>1, <2>2
    <3> QED
      BY <3>1
  <2> QED
    BY <2>1, <2>2
<1>3. /\ \A i \in DOMAIN s : i \in DOMAIN st /\ st[i] = s[i]
      /\ \A j \in DOMAIN t : Len(s) + j \in DOMAIN st /\ st[Len(s) + j] = t[j]
  BY <1>1
<1>4. PathsOf(st) = PathsOf(s) \cup PathsOf(t)
  BY <1>2, <1>3 DEF PathsOf
<1>5. Backed(st, q) <=> Backed(s, q) /\ Backed(t, q)
  <2>1. Backed(st, q) => Backed(s, q) /\ Backed(t, q)
    BY <1>3 DEF Backed
  <2>2. Backed(s, q) /\ Backed(t, q) => Backed(st, q)
    BY <1>2, <1>3 DEF Backed
  <2> QED
    BY <2>1, <2>2
<1>6. ASSUME OnePerPath(st)
      PROVE  OnePerPath(s) /\ OnePerPath(t) /\ PathsOf(s) \cap PathsOf(t) = {}
  <2>1. OnePerPath(s)
    BY <1>3, <1>6 DEF OnePerPath
  <2>2. ASSUME NEW i \in DOMAIN t, NEW j \in DOMAIN t, t[i].path = t[j].path
        PROVE  i = j
    <3>1. Len(s) + i = Len(s) + j
      BY <1>3, <1>6, <2>2 DEF OnePerPath
    <3> QED
      BY <1>1, <3>1
  <2>3. ASSUME NEW i \in DOMAIN s, NEW j \in DOMAIN t, s[i].path = t[j].path
        PROVE  FALSE
    <3>1. i = Len(s) + j
      BY <1>3, <1>6, <2>3 DEF OnePerPath
    <3> QED
      BY <1>1, <3>1
  <2> QED
    BY <2>1, <2>2, <2>3 DEF OnePerPath, PathsOf
<1>7. ASSUME OnePerPath(s), OnePerPath(t), PathsOf(s) \cap PathsOf(t) = {},
             NEW i \in DOMAIN st, NEW j \in DOMAIN st, st[i].path = st[j].path
      PROVE  i = j
  <2>1. CASE i \in DOMAIN s /\ j \in DOMAIN s
    BY <1>3, <1>7, <2>1 DEF OnePerPath
  <2>2. ASSUME NEW a \in DOMAIN t, NEW b \in DOMAIN t, i = Len(s) + a, j = Len(s) + b
        PROVE  i = j
    BY <1>3, <1>7, <2>2 DEF OnePerPath
  <2>3. ASSUME NEW a \in DOMAIN s, NEW b \in DOMAIN t, s[a].path = t[b].path
        PROVE  FALSE
    BY <1>7, <2>3 DEF PathsOf
  <2> QED
    BY <1>2, <1>3, <1>7, <2>1, <2>2, <2>3
<1>8. OnePerPath(s) /\ OnePerPath(t) /\ PathsOf(s) \cap PathsOf(t) = {} => OnePerPath(st)
  BY <1>7 DEF OnePerPath
<1> QED
  BY <1>0, <1>4, <1>5, <1>6, <1>8 DEF st

-----------------------------------------------------------------------------
(* What a chunk finds.                                                     *)
TextsTyped ==
  \A r \in Roots : /\ DOMAIN fileTexts[r] \subseteq TreePaths
                   /\ \A p \in DOMAIN fileTexts[r] : fileTexts[r][p] \in [Queries -> Nat]

Found(acc, paths, k, q, total) ==
  /\ acc \in [files : Seq(FoundFiles), total : Nat, failed : BOOLEAN]
  /\ OnePerPath(acc.files) /\ Backed(acc.files, q)
  /\ PathsOf(acc.files) \subseteq {paths[i] : i \in 1..k}
  /\ acc.total = total + MatchesIn(acc.files)
  /\ acc.total <= MaxMatches

LEMMA ScanOne ==
  ASSUME TextsTyped, NEW r \in Roots, NEW q \in Queries, NEW paths \in Seq(TreePaths),
         \A i, j \in DOMAIN paths : paths[i] = paths[j] => i = j,
         NEW total \in Nat, NEW k \in Nat, k + 1 <= Len(paths),
         NEW acc, Found(acc, paths, k, q, total), ~acc.failed
  PROVE  Found(ScanSearchFile(r, q, paths[k + 1], acc), paths, k + 1, q, total)
<1> DEFINE p == paths[k + 1]
           new == ScanSearchFile(r, q, p, acc)
<1>1. p \in TreePaths /\ \A i \in 1..k : paths[i] # p
  <2>1. k + 1 \in DOMAIN paths /\ \A i \in 1..k : i \in DOMAIN paths /\ i # k + 1
    OBVIOUS
  <2> QED
    BY <2>1
<1>2. {paths[i] : i \in 1..(k + 1)} = {paths[i] : i \in 1..k} \cup {p}
  <2>1. 1..(k + 1) = 1..k \cup {k + 1}
    OBVIOUS
  <2> QED
    BY <2>1
<1> HIDE DEF p
<1>3. CASE p \notin DOMAIN fileTexts[r]
  <2>1. new = [acc EXCEPT !.failed = TRUE]
    BY <1>3 DEF ScanSearchFile
  <2> HIDE DEF new
  <2> QED
    BY <1>2, <2>1 DEF Found, p, new
<1>4. CASE p \in DOMAIN fileTexts[r]
  <2> DEFINE text == fileTexts[r][p]
             hits == text[q]
             room == MaxMatches - acc.total
             n == IF hits < room THEN hits ELSE room
             file == [path |-> p, text |-> text, n |-> n]
             files == IF n = 0 THEN acc.files ELSE Append(acc.files, file)
  <2>1. text \in [Queries -> Nat] /\ hits \in Nat
    BY <1>4 DEF TextsTyped
  <2>2. MaxMatches \in Nat /\ acc.total \in Nat /\ acc.total <= MaxMatches
    BY SearchAssumption DEF Found
  <2> HIDE DEF text
  <2>3. n \in Nat /\ n <= hits /\ acc.total + n <= MaxMatches
    BY <2>1, <2>2
  <2>4. new = [acc EXCEPT !.total = acc.total + n, !.files = files]
    BY <1>4 DEF ScanSearchFile, text
  <2> HIDE DEF n
  <2>5. file \in FoundFiles /\ file.path = p /\ file.n = n /\ file.text[q] = hits
    BY <1>1, <2>1, <2>3 DEF FoundFiles
  <2> HIDE DEF file, hits
  <2>6. acc.files \in Seq(FoundFiles)
    BY DEF Found
  <2>7. /\ files \in Seq(FoundFiles) /\ OnePerPath(files) /\ Backed(files, q)
        /\ PathsOf(files) \subseteq {paths[i] : i \in 1..(k + 1)}
        /\ MatchesIn(files) = MatchesIn(acc.files) + n
    <3>1. CASE n = 0
      <4>1. MatchesIn(acc.files) \in Nat
        BY <2>6, MatchesConcat
      <4> QED
        BY <1>2, <2>6, <3>1, <4>1 DEF Found
    <3>2. CASE n # 0
      <4> DEFINE one == <<file>>
      <4>1. one \in Seq(FoundFiles) /\ files = acc.files \o one
        BY <2>5, <2>6, <3>2, AppendIsConcat
      <4>2. DOMAIN one = {1} /\ one[1] = file
        OBVIOUS
      <4>3. MatchesIn(one) = n
        BY <2>5, MatchesOfOne
      <4> HIDE DEF one, files
      <4>4. OnePerPath(one) /\ Backed(one, q) /\ PathsOf(one) = {p}
        BY <2>3, <2>5, <4>2 DEF OnePerPath, Backed, PathsOf
      <4>5. p \notin PathsOf(acc.files)
        BY <1>1 DEF Found
      <4>6. /\ OnePerPath(acc.files) /\ Backed(acc.files, q)
            /\ PathsOf(acc.files) \subseteq {paths[i] : i \in 1..k}
        BY DEF Found
      <4> DEFINE old == acc.files
      <4>7. /\ old \in Seq(FoundFiles) /\ PathsOf(old) \cap PathsOf(one) = {}
            /\ OnePerPath(old) /\ Backed(old, q)
        BY <2>6, <4>4, <4>5, <4>6
      <4>8. PathsOf(old) \subseteq {paths[i] : i \in 1..(k + 1)}
        BY <1>2, <4>6
      <4> HIDE DEF old
      <4>9. files \in Seq(FoundFiles) /\ OnePerPath(files) /\ Backed(files, q)
            /\ PathsOf(files) = PathsOf(old) \cup PathsOf(one)
        BY <4>1, <4>4, <4>7, FilesConcat DEF old
      <4>10. MatchesIn(files) = MatchesIn(old) + n
        BY <4>1, <4>3, <4>7, MatchesConcat DEF old
      <4> QED
        BY <1>2, <4>4, <4>8, <4>9, <4>10 DEF old
    <3> QED
      BY <3>1, <3>2
  <2> HIDE DEF files
  <2>8. acc \in [files : Seq(FoundFiles), total : Nat, failed : BOOLEAN]
        /\ acc.total = total + MatchesIn(acc.files)
    BY DEF Found
  <2>9. new.total = acc.total + n /\ new.files = files /\ new.failed = acc.failed
    BY <2>4, <2>8
  <2>10. new \in [files : Seq(FoundFiles), total : Nat, failed : BOOLEAN]
    <3>1. acc.total + n \in Nat /\ files \in Seq(FoundFiles) /\ acc.failed \in BOOLEAN
      BY <2>2, <2>3, <2>7, <2>8
    <3>2. acc = [files |-> acc.files, total |-> acc.total, failed |-> acc.failed]
      BY <2>8
    <3>3. new = [files |-> files, total |-> acc.total + n, failed |-> acc.failed]
      BY <2>4, <3>2
    <3> QED
      BY <3>1, <3>3
  <2>11. MatchesIn(acc.files) \in Nat
    BY <2>6, MatchesConcat
  <2> HIDE DEF new
  <2>12. new.total = total + MatchesIn(new.files) /\ new.total <= MaxMatches
    BY <2>3, <2>7, <2>8, <2>9, <2>11
  <2> QED
    BY <2>7, <2>9, <2>10, <2>12 DEF Found, new, p
<1> QED
  BY <1>3, <1>4 DEF p

Scans(f, r, q, paths, total, k) ==
  f = [i \in 0..k |->
         IF i = 0 THEN [files |-> <<>>, total |-> total, failed |-> FALSE]
         ELSE IF f[i - 1].failed \/ f[i - 1].total >= MaxMatches THEN f[i - 1]
              ELSE ScanSearchFile(r, q, paths[i], f[i - 1])]

LEMMA ScansExist ==
  ASSUME NEW r, NEW q, NEW paths, NEW total, NEW k \in Nat
  PROVE  \E f : Scans(f, r, q, paths, total, k)
<1> DEFINE none == [files |-> <<>>, total |-> total, failed |-> FALSE]
           more(x, i) == IF x.failed \/ x.total >= MaxMatches THEN x
                         ELSE ScanSearchFile(r, q, paths[i], x)
           S == {n \in Nat : \E f : Scans(f, r, q, paths, total, n)}
<1>1. 0 \in S
  <2> DEFINE f == [i \in 0..0 |-> none]
  <2>1. Scans(f, r, q, paths, total, 0)
    BY DEF Scans
  <2> QED
    BY <2>1
<1>2. ASSUME NEW n \in Nat, n \in S PROVE n + 1 \in S
  <2>1. PICK f : Scans(f, r, q, paths, total, n)
    BY <1>2
  <2> DEFINE g == [i \in 0..(n + 1) |-> IF i = n + 1 THEN more(f[n], n + 1) ELSE f[i]]
  <2>2. \A i \in 0..n : f[i] = IF i = 0 THEN none ELSE more(f[i - 1], i)
    BY <2>1 DEF Scans
  <2> HIDE DEF more, none
  <2>3. ASSUME NEW i \in 0..(n + 1)
        PROVE  g[i] = IF i = 0 THEN none ELSE more(g[i - 1], i)
    <3>1. CASE i = n + 1
      BY <3>1
    <3>2. CASE i \in 0..n
      BY <2>2, <3>2
    <3> QED
      BY <3>1, <3>2
  <2>4. Scans(g, r, q, paths, total, n + 1)
    <3> HIDE DEF g
    <3>1. DOMAIN g = 0..(n + 1) /\ g = [i \in DOMAIN g |-> g[i]]
      BY DEF g
    <3>2. g = [i \in 0..(n + 1) |-> IF i = 0 THEN none ELSE more(g[i - 1], i)]
      BY <2>3, <3>1
    <3> QED
      BY <3>2 DEF Scans, more, none
  <2> QED
    BY <2>4
<1> HIDE DEF S
<1>3. k \in S
  BY <1>1, <1>2, FromZero
<1> QED
  BY <1>3 DEF S

LEMMA ScanFacts ==
  ASSUME TextsTyped, NEW r \in Roots, NEW q \in Queries, NEW paths \in Seq(TreePaths),
         \A i, j \in DOMAIN paths : paths[i] = paths[j] => i = j,
         NEW total \in Nat, total <= MaxMatches
  PROVE  Found(ScanFiles(r, q, paths, total), paths, Len(paths), q, total)
<1> DEFINE f == CHOOSE g : Scans(g, r, q, paths, total, Len(paths))
           none == [files |-> <<>>, total |-> total, failed |-> FALSE]
<1>1. Len(paths) \in Nat
  OBVIOUS
<1>2. Scans(f, r, q, paths, total, Len(paths))
  <2>1. \E g : Scans(g, r, q, paths, total, Len(paths))
    BY <1>1, ScansExist
  <2> QED
    BY <2>1
<1>3. ScanFiles(r, q, paths, total) = f[Len(paths)]
  BY DEF ScanFiles, Scans
<1> HIDE DEF f
<1>4. /\ f[0] = none
      /\ \A i \in 1..Len(paths) :
           f[i] = IF f[i - 1].failed \/ f[i - 1].total >= MaxMatches THEN f[i - 1]
                  ELSE ScanSearchFile(r, q, paths[i], f[i - 1])
  <2>1. 0 \in 0..Len(paths) /\ \A i \in 1..Len(paths) : i \in 0..Len(paths) /\ i # 0
    BY <1>1
  <2> QED
    BY <1>2, <2>1 DEF Scans
<1> DEFINE S == {n \in Nat : n <= Len(paths) => Found(f[n], paths, n, q, total)}
<1>5. 0 \in S
  <2> DEFINE empty == <<>>
  <2>1. empty \in Seq(FoundFiles) /\ DOMAIN empty = {} /\ MatchesIn(empty) = 0
    BY MatchesOfNone
  <2>2. none.files = empty /\ none.total = total
        /\ none \in [files : Seq(FoundFiles), total : Nat, failed : BOOLEAN]
    BY <2>1
  <2> HIDE DEF empty, none
  <2>3. OnePerPath(empty) /\ Backed(empty, q) /\ PathsOf(empty) = {}
    BY <2>1 DEF OnePerPath, Backed, PathsOf
  <2>4. Found(none, paths, 0, q, total)
    BY <2>1, <2>2, <2>3 DEF Found
  <2> QED
    BY <1>4, <2>4
<1>6. ASSUME NEW n \in Nat, n \in S PROVE n + 1 \in S
  <2>1. CASE n + 1 <= Len(paths)
    <3>1. n <= Len(paths) /\ n + 1 \in 1..Len(paths) /\ (n + 1) - 1 = n
      BY <1>1, <2>1
    <3>2. Found(f[n], paths, n, q, total)
      BY <1>6, <3>1
    <3>3. CASE f[n].failed \/ f[n].total >= MaxMatches
      <4>1. f[n + 1] = f[n]
        BY <1>4, <3>1, <3>3
      <4>2. {paths[i] : i \in 1..n} \subseteq {paths[i] : i \in 1..(n + 1)}
        OBVIOUS
      <4>3. Found(f[n], paths, n + 1, q, total)
        BY <3>2, <4>2 DEF Found
      <4> QED
        BY <4>1, <4>3
    <3>4. CASE ~(f[n].failed \/ f[n].total >= MaxMatches)
      <4>1. f[n + 1] = ScanSearchFile(r, q, paths[n + 1], f[n])
        BY <1>4, <3>1, <3>4
      <4> HIDE DEF S
      <4>2. Found(f[n + 1], paths, n + 1, q, total)
        BY <2>1, <3>2, <3>4, <4>1, ScanOne
      <4> QED
        BY <4>2 DEF S
    <3> QED
      BY <3>3, <3>4
  <2> QED
    BY <2>1
<1> HIDE DEF S
<1>7. Len(paths) \in S
  BY <1>1, <1>5, <1>6, FromZero
<1> QED
  BY <1>1, <1>3, <1>7 DEF S

LEMMA ListedOnce ==
  ASSUME NEW paths \in SUBSET TreePaths
  PROVE  /\ TreeOrder[paths] \in Seq(TreePaths)
         /\ \A i, j \in DOMAIN TreeOrder[paths] :
              TreeOrder[paths][i] = TreeOrder[paths][j] => i = j
<1>1. TreeOrder[paths] \in Seq(paths) /\ IsInjective(TreeOrder[paths])
  BY SearchAssumption
<1>2. TreeOrder[paths] \in Seq(TreePaths)
  BY <1>1, SeqMonotonic
<1> QED
  BY <1>1, <1>2 DEF IsInjective

-----------------------------------------------------------------------------
(* The inductive invariant of SearchTellsTruth.                            *)
AnyQuery == Queries \cup {Nothing}

Results == [query : AnyQuery, files : Seq(FoundFiles), total : Nat, truncated : BOOLEAN]

GoodResult(res, q) ==
  /\ res \in Results /\ res.query = q
  /\ OnePerPath(res.files) /\ Backed(res.files, q)
  /\ res.total = MatchesIn(res.files) /\ res.total <= MaxMatches

Requests ==
  [type : {"start"}, id : Nat, root : Roots, query : Queries]
    \cup [type : {"cancel"}, id : Nat]
    \cup [ type : {"replace"}, root : Roots, query : Queries, by : Queries,
           files : Seq(FoundFiles) ]

Events ==
  [type : {"snapshot"}, root : Roots]
    \cup [type : {"batch", "done", "canceled"}, id : Nat, result : Results]
    \cup [type : {"error"}, id : Nat]

PanelInv ==
  /\ panel \in [ root : Roots, query : AnyQuery, active : Nat, seq : Nat,
                 loading : BOOLEAN, result : Results ]
  /\ panel.active <= panel.seq /\ panel.seq <= MaxSearches
  /\ panel.active # 0 => panel.query \in Queries
  /\ panel.result # NoResult => panel.query \in Queries /\ GoodResult(panel.result, panel.query)

(* A search that has not been started yet has left nothing anywhere.       *)
RequestOK(r) ==
  /\ r.type = "start" =>
       /\ r.id \in 1..panel.seq /\ r.id \notin DOMAIN scans
       /\ \A e \in ToSet(events) : e.type # "snapshot" => e.id # r.id
       /\ r.id = panel.active => r.query = panel.query /\ panel.result.files = <<>>
  /\ r.type = "replace" => OnePerPath(r.files) /\ Backed(r.files, r.query)

StartedOnce(reqs) ==
  \A i, j \in DOMAIN reqs :
    reqs[i].type = "start" /\ reqs[j].type = "start" /\ reqs[i].id = reqs[j].id => i = j

RequestsInv ==
  /\ requests \in Seq(Requests) /\ StartedOnce(requests)
  /\ \A r \in ToSet(requests) : RequestOK(r)

EventOK(e) ==
  /\ e.type # "snapshot" => e.id \in 1..panel.seq
  /\ e.type = "batch" => e.result.total = MatchesIn(e.result.files)
  /\ e.type = "done" =>
       /\ e.result.query \in Queries /\ GoodResult(e.result, e.result.query)
       /\ e.id = panel.active => e.result.query = panel.query

EventsInv ==
  /\ events \in Seq(Events)
  /\ \A e \in ToSet(events) : EventOK(e)

(* The files a scan has still to come to are not those it has been to.     *)
GoodScan(s) ==
  /\ s \in [ root : Roots, query : Queries, canceled : BOOLEAN, todo : Seq(TreePaths),
             summary : Results ]
  /\ GoodResult(s.summary, s.query)
  /\ \A i, j \in DOMAIN s.todo : s.todo[i] = s.todo[j] => i = j
  /\ \A i \in DOMAIN s.todo : s.todo[i] \notin PathsOf(s.summary.files)

(* What the panel shows and what is on its way to it.                      *)
Whole == panel.result.files \o Joined(panel.active, events)

EndsWith(files, shown, all) ==
  \E before \in Seq(FoundFiles) : files = before \o shown /\ (all => before = <<>>)

OfPanel(s) == s.query = panel.query /\ EndsWith(s.summary.files, Whole, ~orphan)

ScansInv ==
  /\ DOMAIN scans \subseteq 1..panel.seq
  /\ \A id \in DOMAIN scans :
       GoodScan(scans[id]) /\ (id = panel.active => OfPanel(scans[id]))

WholeInv ==
  panel.active # 0 =>
    OnePerPath(Whole) /\ Backed(Whole, panel.query) /\ MatchesIn(Whole) <= MaxMatches

CacheInv ==
  /\ cache \in [Roots -> {Nothing} \cup SUBSET TreePaths]
  /\ outside \in [Roots -> BOOLEAN]
  /\ DOMAIN fileTexts = Roots /\ TextsTyped
  /\ CacheIsCurrent

PanelPart == PanelInv /\ RequestsInv /\ EventsInv /\ ScansInv /\ WholeInv

SearchInv == CacheInv /\ PanelPart

-----------------------------------------------------------------------------
(* Sequences of requests and events.                                       *)
LEMMA RequestAppended ==
  ASSUME NEW reqs \in Seq(Requests), NEW r \in Requests, StartedOnce(reqs),
         r.type = "start" => \A q \in ToSet(reqs) : q.type = "start" => q.id # r.id
  PROVE  /\ Append(reqs, r) \in Seq(Requests) /\ StartedOnce(Append(reqs, r))
         /\ ToSet(Append(reqs, r)) = ToSet(reqs) \cup {r}
<1> DEFINE new == Append(reqs, r)
<1>1. new \in Seq(Requests)
  OBVIOUS
<1>2. /\ Len(reqs) \in Nat /\ DOMAIN reqs = 1..Len(reqs) /\ DOMAIN new = 1..(Len(reqs) + 1)
      /\ \A i \in 1..Len(reqs) : new[i] = reqs[i]
      /\ new[Len(reqs) + 1] = r
  OBVIOUS
<1> HIDE DEF new
<1>3. \A i \in DOMAIN new : i \in DOMAIN reqs \/ i = Len(reqs) + 1
  BY <1>2
<1>4. StartedOnce(new)
  BY <1>2, <1>3 DEF StartedOnce, ToSet
<1>5. ToSet(new) = ToSet(reqs) \cup {r}
  BY <1>2, <1>3 DEF ToSet
<1> QED
  BY <1>1, <1>4, <1>5 DEF new

LEMMA RequestTaken ==
  ASSUME NEW reqs \in Seq(Requests), reqs # <<>>, StartedOnce(reqs)
  PROVE  /\ Tail(reqs) \in Seq(Requests) /\ StartedOnce(Tail(reqs))
         /\ Head(reqs) \in Requests /\ Head(reqs) \in ToSet(reqs)
         /\ ToSet(Tail(reqs)) \subseteq ToSet(reqs)
         /\ Head(reqs).type = "start" =>
              \A q \in ToSet(Tail(reqs)) : q.type = "start" => q.id # Head(reqs).id
<1> DEFINE rest == Tail(reqs)
<1>1. rest \in Seq(Requests)
  OBVIOUS
<1>2. /\ Len(reqs) \in Nat \ {0} /\ DOMAIN reqs = 1..Len(reqs)
      /\ DOMAIN rest = 1..(Len(reqs) - 1)
      /\ \A i \in 1..(Len(reqs) - 1) : rest[i] = reqs[i + 1]
      /\ Head(reqs) = reqs[1]
  OBVIOUS
<1> HIDE DEF rest
<1>3. \A i \in DOMAIN rest : i + 1 \in DOMAIN reqs /\ i + 1 # 1 /\ rest[i] = reqs[i + 1]
  BY <1>2
<1>4. 1 \in DOMAIN reqs
  BY <1>2
<1>5. StartedOnce(rest)
  <2> SUFFICES ASSUME NEW i \in DOMAIN rest, NEW j \in DOMAIN rest,
                      rest[i].type = "start", rest[j].type = "start", rest[i].id = rest[j].id
               PROVE  i = j
    BY DEF StartedOnce
  <2>1. i + 1 = j + 1
    BY <1>3 DEF StartedOnce
  <2> QED
    BY <1>2, <2>1
<1>6. Head(reqs).type = "start" =>
        \A q \in ToSet(rest) : q.type = "start" => q.id # Head(reqs).id
  BY <1>2, <1>3, <1>4 DEF StartedOnce, ToSet
<1>7. Head(reqs) \in Requests
  BY <1>2, <1>4
<1>8. Head(reqs) \in ToSet(reqs) /\ ToSet(rest) \subseteq ToSet(reqs)
  BY <1>2, <1>3, <1>4 DEF ToSet
<1> QED
  BY <1>1, <1>5, <1>6, <1>7, <1>8 DEF rest

LEMMA EventAppended ==
  ASSUME NEW sent \in Seq(Events), NEW e \in Events
  PROVE  Append(sent, e) \in Seq(Events) /\ ToSet(Append(sent, e)) = ToSet(sent) \cup {e}
<1> DEFINE new == Append(sent, e)
<1>1. new \in Seq(Events)
  OBVIOUS
<1>2. /\ Len(sent) \in Nat /\ DOMAIN sent = 1..Len(sent) /\ DOMAIN new = 1..(Len(sent) + 1)
      /\ \A i \in 1..Len(sent) : new[i] = sent[i]
      /\ new[Len(sent) + 1] = e
  OBVIOUS
<1> HIDE DEF new
<1>3. \A i \in DOMAIN new : i \in DOMAIN sent \/ i = Len(sent) + 1
  BY <1>2
<1>4. ToSet(new) = ToSet(sent) \cup {e}
  BY <1>2, <1>3 DEF ToSet
<1> QED
  BY <1>1, <1>4 DEF new

LEMMA EventTaken ==
  ASSUME NEW sent \in Seq(Events), sent # <<>>
  PROVE  /\ Tail(sent) \in Seq(Events) /\ ToSet(Tail(sent)) \subseteq ToSet(sent)
         /\ Head(sent) \in Events /\ Head(sent) \in ToSet(sent)
<1> DEFINE rest == Tail(sent)
<1>1. rest \in Seq(Events)
  OBVIOUS
<1>2. /\ Len(sent) \in Nat \ {0} /\ DOMAIN sent = 1..Len(sent)
      /\ DOMAIN rest = 1..(Len(sent) - 1)
      /\ \A i \in 1..(Len(sent) - 1) : rest[i] = sent[i + 1]
      /\ Head(sent) = sent[1]
  OBVIOUS
<1> HIDE DEF rest
<1>3. \A i \in DOMAIN rest : i + 1 \in DOMAIN sent /\ rest[i] = sent[i + 1]
  BY <1>2
<1>4. 1 \in DOMAIN sent
  BY <1>2
<1>5. Head(sent) \in Events
  BY <1>2, <1>4
<1>6. Head(sent) \in ToSet(sent) /\ ToSet(rest) \subseteq ToSet(sent)
  BY <1>2, <1>3, <1>4 DEF ToSet
<1> QED
  BY <1>1, <1>5, <1>6 DEF rest

LEMMA EventsTyped ==
  ASSUME NEW sent \in Seq(Events), NEW id
  PROVE  BatchesTyped(id, sent)
<1> SUFFICES ASSUME NEW i \in DOMAIN sent
             PROVE  BatchFiles(id, sent[i]) \in Seq(FoundFiles)
  BY DEF BatchesTyped
<1>1. sent[i] \in Events
  OBVIOUS
<1>2. sent[i].type = "batch" => sent[i].result \in Results
  BY <1>1 DEF Events
<1>3. sent[i].type = "batch" => sent[i].result.files \in Seq(FoundFiles)
  BY <1>2 DEF Results
<1>4. <<>> \in Seq(FoundFiles)
  OBVIOUS
<1> QED
  BY <1>3, <1>4 DEF BatchFiles

-----------------------------------------------------------------------------
(* The panel lets go of its search, or starts one.                         *)
Plain(r) ==
  /\ r.type # "start"
  /\ r.type = "replace" => OnePerPath(r.files) /\ Backed(r.files, r.query)

OnlyMore(sent) ==
  /\ sent \in Seq(Requests) /\ StartedOnce(sent)
  /\ \A r \in ToSet(sent) : r \in ToSet(requests) \/ Plain(r)

NoneCome == events' \in Seq(Events) /\ ToSet(events') \subseteq ToSet(events)

LEMMA CancelSent ==
  ASSUME PanelInv, RequestsInv
  PROVE  OnlyMore(requests \o Cancelled)
<1>1. CASE panel.active = 0
  <2>1. requests \o Cancelled = requests
    BY <1>1 DEF Cancelled, RequestsInv
  <2> QED
    BY <2>1 DEF RequestsInv, OnlyMore
<1>2. CASE panel.active # 0
  <2> DEFINE c == Event(panel.active, "cancel")
  <2>1. c \in Requests /\ c.type = "cancel"
    BY DEF PanelInv, Event, Requests
  <2>2. requests \o Cancelled = Append(requests, c)
    <3>1. requests \in Seq(Requests) /\ Cancelled = <<c>>
      BY <1>2 DEF RequestsInv, Cancelled
    <3> HIDE DEF c
    <3> QED
      BY <2>1, <3>1, AppendIsConcat
  <2> HIDE DEF c
  <2>3. Plain(c)
    BY <2>1 DEF Plain
  <2> QED
    BY <2>1, <2>2, <2>3, RequestAppended DEF RequestsInv, OnlyMore
<1> QED
  BY <1>1, <1>2

LEMMA Released ==
  ASSUME PanelPart, PanelInv', panel'.active = 0, panel'.seq = panel.seq,
         UNCHANGED scans, OnlyMore(requests'), NoneCome
  PROVE  PanelPart'
<1>1. ASSUME NEW r, r.type = "start", RequestOK(r) PROVE RequestOK(r)'
  <2>1. r.id \in 1..panel'.seq /\ r.id \notin DOMAIN scans' /\ r.id # panel'.active
    BY <1>1 DEF RequestOK
  <2>2. \A e \in ToSet(events') : e.type # "snapshot" => e.id # r.id
    BY <1>1 DEF RequestOK, NoneCome
  <2> QED
    BY <1>1, <2>1, <2>2 DEF RequestOK
<1>2. ASSUME NEW r, Plain(r) PROVE RequestOK(r)'
  BY <1>2 DEF Plain, RequestOK
<1>3. RequestsInv'
  <2>1. ASSUME NEW r \in ToSet(requests') PROVE RequestOK(r)'
    <3>1. CASE r \in ToSet(requests)
      <4>1. RequestOK(r)
        BY <3>1 DEF PanelPart, RequestsInv
      <4>2. r.type # "start" => Plain(r)
        BY <4>1 DEF RequestOK, Plain
      <4> QED
        BY <1>1, <1>2, <4>1, <4>2
    <3> QED
      BY <1>2, <3>1 DEF OnlyMore
  <2> QED
    BY <2>1 DEF RequestsInv, OnlyMore
<1>4. EventsInv'
  <2>1. ASSUME NEW e \in ToSet(events') PROVE EventOK(e)'
    <3>1. EventOK(e)
      BY DEF PanelPart, EventsInv, NoneCome
    <3>2. e.type # "snapshot" => e.id # panel'.active
      BY <3>1 DEF EventOK
    <3> QED
      BY <3>1, <3>2 DEF EventOK
  <2> QED
    BY <2>1 DEF EventsInv, NoneCome
<1>5. ScansInv'
  <2>1. \A id \in DOMAIN scans' : id # panel'.active
    BY DEF PanelPart, ScansInv
  <2> QED
    BY <2>1 DEF PanelPart, ScansInv
<1> QED
  BY <1>3, <1>4, <1>5 DEF PanelPart, WholeInv

LEMMA EmptyIsGood ==
  ASSUME NEW q \in AnyQuery
  PROVE  GoodResult(EmptySearchResult(q), q) /\ EmptySearchResult(q).files = <<>>
<1> DEFINE none == <<>>
           res == EmptySearchResult(q)
<1>1. none \in Seq(FoundFiles) /\ DOMAIN none = {} /\ MatchesIn(none) = 0
  BY MatchesOfNone
<1>2. res.files = none /\ res.query = q /\ res.total = 0 /\ res.total <= MaxMatches
  BY SearchAssumption DEF EmptySearchResult
<1>3. res \in Results
  BY <1>1 DEF EmptySearchResult, Results
<1> HIDE DEF none, res
<1>4. OnePerPath(none) /\ Backed(none, q)
  BY <1>1 DEF OnePerPath, Backed
<1> QED
  BY <1>1, <1>2, <1>3, <1>4 DEF GoodResult, none, res

LEMMA SetQueryKeeps ==
  ASSUME SearchInv, NEW q \in AnyQuery, SetQuery(q)
  PROVE  SearchInv'
<1>1. /\ panel' = ClearedPreview([panel EXCEPT !.query = q])
      /\ requests' = requests \o Cancelled
      /\ UNCHANGED <<fileTexts, cache, scans, events, replies, outside>>
  BY DEF SetQuery
<1>2. panel \in [ root : Roots, query : AnyQuery, active : Nat, seq : Nat,
                  loading : BOOLEAN, result : Results ]
  BY DEF SearchInv, PanelPart, PanelInv
<1>3. NoResult \in Results
  BY EmptyIsGood DEF AnyQuery, NoResult, GoodResult
<1>4. /\ panel' \in [ root : Roots, query : AnyQuery, active : Nat, seq : Nat,
                      loading : BOOLEAN, result : Results ]
      /\ panel'.active = 0 /\ panel'.seq = panel.seq /\ panel'.result = NoResult
  BY <1>1, <1>2, <1>3 DEF ClearedPreview
<1>5. PanelInv'
  BY <1>4 DEF PanelInv, SearchInv, PanelPart
<1>6. OnlyMore(requests') /\ NoneCome
  BY <1>1, CancelSent DEF SearchInv, PanelPart, EventsInv, NoneCome
<1>7. PanelPart'
  BY <1>1, <1>4, <1>5, <1>6, Released DEF SearchInv
<1> QED
  BY <1>1, <1>7 DEF SearchInv, CacheInv, TextsTyped, CacheIsCurrent, ListEditableFiles

(* Steps of the window leave the files and the cache alone.                *)
LEMMA CacheRests ==
  ASSUME CacheInv, UNCHANGED <<fileTexts, cache, outside>>
  PROVE  CacheInv'
BY DEF CacheInv, TextsTyped, CacheIsCurrent, ListEditableFiles

LEMMA CloseKeeps ==
  ASSUME SearchInv, CloseProjectSearch
  PROVE  SearchInv'
<1>1. /\ panel' = [panel EXCEPT !.active = 0, !.loading = FALSE]
      /\ requests' = requests \o Cancelled
      /\ UNCHANGED <<fileTexts, cache, scans, events, replies, outside>>
  BY DEF CloseProjectSearch
<1>2. panel \in [ root : Roots, query : AnyQuery, active : Nat, seq : Nat,
                  loading : BOOLEAN, result : Results ]
  BY DEF SearchInv, PanelPart, PanelInv
<1>3. /\ panel' \in [ root : Roots, query : AnyQuery, active : Nat, seq : Nat,
                      loading : BOOLEAN, result : Results ]
      /\ panel'.active = 0 /\ panel'.seq = panel.seq
      /\ panel'.result = panel.result /\ panel'.query = panel.query
  BY <1>1, <1>2
<1>4. PanelInv'
  BY <1>3 DEF PanelInv, SearchInv, PanelPart
<1>5. OnlyMore(requests') /\ NoneCome
  BY <1>1, CancelSent DEF SearchInv, PanelPart, EventsInv, NoneCome
<1>6. PanelPart'
  BY <1>1, <1>3, <1>4, <1>5, Released DEF SearchInv
<1> QED
  BY <1>1, <1>6, CacheRests DEF SearchInv

LEMMA ReplaceKeeps ==
  ASSUME SearchInv, NEW by \in Queries, ReplaceAllProjectMatches(by)
  PROVE  SearchInv'
<1> DEFINE files == panel.result.files
           r == [ type |-> "replace", root |-> panel.root, query |-> panel.query,
                  by |-> by, files |-> files ]
<1>1. /\ panel' = [panel EXCEPT !.active = 0]
      /\ requests' = requests \o Cancelled \o <<r>>
      /\ panel.result # NoResult
      /\ UNCHANGED <<fileTexts, cache, scans, events, replies, outside>>
  BY DEF ReplaceAllProjectMatches, CanReplace
<1>2. panel \in [ root : Roots, query : AnyQuery, active : Nat, seq : Nat,
                  loading : BOOLEAN, result : Results ]
  BY DEF SearchInv, PanelPart, PanelInv
<1>3. /\ panel' \in [ root : Roots, query : AnyQuery, active : Nat, seq : Nat,
                      loading : BOOLEAN, result : Results ]
      /\ panel'.active = 0 /\ panel'.seq = panel.seq
      /\ panel'.result = panel.result /\ panel'.query = panel.query
  BY <1>1, <1>2
<1>4. PanelInv'
  BY <1>3 DEF PanelInv, SearchInv, PanelPart
<1>5. /\ panel.query \in Queries /\ files \in Seq(FoundFiles)
      /\ OnePerPath(files) /\ Backed(files, panel.query)
  BY <1>1 DEF SearchInv, PanelPart, PanelInv, GoodResult, Results
<1> HIDE DEF files
<1>6. r \in Requests /\ r.type = "replace" /\ r.files = files /\ r.query = panel.query
  BY <1>2, <1>5 DEF Requests
<1> HIDE DEF r
<1>7. Plain(r)
  BY <1>5, <1>6 DEF Plain
<1>8. OnlyMore(requests \o Cancelled)
  BY CancelSent DEF SearchInv, PanelPart
<1>9. requests' = Append(requests \o Cancelled, r)
  BY <1>1, <1>6, <1>8, AppendIsConcat DEF OnlyMore
<1>10. OnlyMore(requests')
  <2> DEFINE reqs == requests \o Cancelled
  <2>1. reqs \in Seq(Requests) /\ StartedOnce(reqs)
    BY <1>8 DEF OnlyMore
  <2>2. \A q \in ToSet(reqs) : q \in ToSet(requests) \/ Plain(q)
    BY <1>8 DEF OnlyMore
  <2> HIDE DEF reqs
  <2>3. /\ requests' \in Seq(Requests) /\ StartedOnce(requests')
        /\ ToSet(requests') = ToSet(reqs) \cup {r}
    BY <1>6, <1>9, <2>1, RequestAppended DEF reqs
  <2> QED
    BY <1>7, <2>2, <2>3 DEF OnlyMore
<1>11. NoneCome
  BY <1>1 DEF SearchInv, PanelPart, EventsInv, NoneCome
<1>12. PanelPart'
  BY <1>1, <1>3, <1>4, <1>10, <1>11, Released DEF SearchInv
<1> QED
  BY <1>1, <1>12, CacheRests DEF SearchInv

(* A new search has a number nothing else has.                             *)
LEMMA RunKeeps ==
  ASSUME SearchInv, RunProjectSearch,
         UNCHANGED <<fileTexts, cache, scans, events, outside>>
  PROVE  SearchInv'
<1>1. panel \in [ root : Roots, query : AnyQuery, active : Nat, seq : Nat,
                  loading : BOOLEAN, result : Results ]
  BY DEF SearchInv, PanelPart, PanelInv
<1>2. OnlyMore(requests \o Cancelled)
  BY CancelSent DEF SearchInv, PanelPart
<1>3. NoneCome
  BY DEF SearchInv, PanelPart, EventsInv, NoneCome
<1>4. CASE panel.query = Nothing
  <2>1. panel' = ClearedPreview(panel) /\ requests' = requests \o Cancelled
    BY <1>4 DEF RunProjectSearch
  <2>2. NoResult \in Results
    BY EmptyIsGood DEF AnyQuery, NoResult, GoodResult
  <2>3. /\ panel' \in [ root : Roots, query : AnyQuery, active : Nat, seq : Nat,
                        loading : BOOLEAN, result : Results ]
        /\ panel'.active = 0 /\ panel'.seq = panel.seq /\ panel'.result = NoResult
    BY <1>1, <2>1, <2>2 DEF ClearedPreview
  <2>4. PanelInv'
    BY <2>3 DEF PanelInv, SearchInv, PanelPart
  <2>5. PanelPart'
    BY <1>2, <1>3, <2>1, <2>3, <2>4, Released DEF SearchInv
  <2> QED
    BY <2>5, CacheRests DEF SearchInv
<1>5. CASE panel.query # Nothing
  <2> DEFINE id == panel.seq + 1
             empty == EmptySearchResult(panel.query)
  <2>0. PICK r : r = [ type |-> "start", id |-> id, root |-> panel.root,
                       query |-> panel.query ]
    OBVIOUS
  <2>1. /\ panel.seq < MaxSearches /\ orphan' = FALSE
        /\ panel' = [panel EXCEPT !.seq = id, !.active = id, !.loading = TRUE,
                                  !.result = empty]
        /\ requests' = requests \o Cancelled \o <<r>>
    BY <1>5, <2>0 DEF RunProjectSearch
  <2>2. panel.query \in Queries
    BY <1>1, <1>5 DEF AnyQuery
  <2>3. GoodResult(empty, panel.query) /\ empty.files = <<>>
    BY <2>2, EmptyIsGood DEF AnyQuery
  <2>4. id \in Nat /\ id # 0 /\ id > panel.seq /\ id <= MaxSearches
    BY <1>1, <2>1, SearchAssumption
  <2> HIDE DEF empty
  <2>5. r \in Requests /\ r.type = "start" /\ r.id = id /\ r.query = panel.query
    BY <1>1, <2>0, <2>2, <2>4 DEF Requests
  <2>6. /\ panel' \in [ root : Roots, query : AnyQuery, active : Nat, seq : Nat,
                        loading : BOOLEAN, result : Results ]
        /\ panel'.active = id /\ panel'.seq = id /\ panel'.result = empty
        /\ panel'.query = panel.query
    BY <1>1, <2>1, <2>3, <2>4 DEF GoodResult
  <2>7. PanelInv'
    BY <2>2, <2>3, <2>4, <2>6 DEF PanelInv
  <2>8. \A e \in ToSet(events) : e.type # "snapshot" => e.id \in 1..panel.seq
    BY DEF SearchInv, PanelPart, EventsInv, EventOK
  <2>9. Joined(id, events) = <<>>
    <3>1. events \in Seq(Events)
      BY DEF SearchInv, PanelPart, EventsInv
    <3>2. ASSUME NEW i \in DOMAIN events PROVE BatchFiles(id, events[i]) = <<>>
      <4>1. events[i] \in ToSet(events)
        BY DEF ToSet
      <4>2. events[i].type # "snapshot" => events[i].id # id
        BY <1>1, <2>4, <2>8, <4>1
      <4> QED
        BY <4>2 DEF BatchFiles
    <3> HIDE DEF id
    <3> QED
      BY <3>1, <3>2, JoinedNone
  <2>10. Whole' = <<>>
    BY <2>3, <2>6, <2>9 DEF Whole
  <2>11. WholeInv'
    <3>1. MatchesIn(<<>>) = 0 /\ 0 <= MaxMatches
      BY MatchesOfNone, SearchAssumption
    <3>2. OnePerPath(<<>>) /\ Backed(<<>>, panel.query)
      BY DEF OnePerPath, Backed
    <3> QED
      BY <2>6, <2>10, <3>1, <3>2 DEF WholeInv
  <2>12. ScansInv'
    <3>1. DOMAIN scans \subseteq 1..panel.seq /\ \A s \in DOMAIN scans : GoodScan(scans[s])
      BY DEF SearchInv, PanelPart, ScansInv
    <3>2. DOMAIN scans' \subseteq 1..panel'.seq /\ \A s \in DOMAIN scans' : s # panel'.active
      BY <1>1, <2>4, <2>6, <3>1
    <3> QED
      BY <3>1, <3>2 DEF ScansInv, GoodScan
  <2>13. EventsInv'
    <3>1. ASSUME NEW e \in ToSet(events) PROVE EventOK(e)'
      <4>1. EventOK(e)
        BY DEF SearchInv, PanelPart, EventsInv
      <4>2. e.type # "snapshot" => e.id \in 1..panel'.seq /\ e.id # panel'.active
        BY <1>1, <2>4, <2>6, <2>8
      <4> QED
        BY <4>1, <4>2 DEF EventOK
    <3> QED
      BY <3>1 DEF EventsInv, SearchInv, PanelPart
  <2>14. requests' = Append(requests \o Cancelled, r)
    BY <1>2, <2>1, <2>5, AppendIsConcat DEF OnlyMore
  <2>15. \A q \in ToSet(requests) : RequestOK(q)
    BY DEF SearchInv, PanelPart, RequestsInv
  <2>16. \A q \in ToSet(requests \o Cancelled) : q.type = "start" => q.id # r.id
    <3> SUFFICES ASSUME NEW q \in ToSet(requests \o Cancelled), q.type = "start"
                 PROVE  q.id # r.id
      OBVIOUS
    <3>1. q \in ToSet(requests)
      BY <1>2 DEF OnlyMore, Plain
    <3>2. q.id \in 1..panel.seq
      BY <2>15, <3>1 DEF RequestOK
    <3> QED
      BY <1>1, <2>4, <2>5, <3>2
  <2>17. /\ requests' \in Seq(Requests) /\ StartedOnce(requests')
         /\ ToSet(requests') = ToSet(requests \o Cancelled) \cup {r}
    <3> DEFINE reqs == requests \o Cancelled
    <3>1. reqs \in Seq(Requests) /\ StartedOnce(reqs)
      BY <1>2 DEF OnlyMore
    <3>2. \A q \in ToSet(reqs) : q.type = "start" => q.id # r.id
      BY <2>16
    <3> HIDE DEF reqs
    <3> QED
      BY <2>5, <2>14, <3>1, <3>2, RequestAppended DEF reqs
  <2>18. RequestOK(r)'
    <3>1. r.id \in 1..panel'.seq /\ r.query = panel'.query /\ panel'.result.files = <<>>
      BY <2>3, <2>4, <2>5, <2>6
    <3>2. r.id \notin DOMAIN scans'
      BY <1>1, <2>4, <2>5 DEF SearchInv, PanelPart, ScansInv
    <3>3. \A e \in ToSet(events') : e.type # "snapshot" => e.id # r.id
      BY <1>1, <2>4, <2>5, <2>8
    <3> QED
      BY <2>5, <3>1, <3>2, <3>3 DEF RequestOK
  <2>19. ASSUME NEW q \in ToSet(requests') PROVE RequestOK(q)'
    <3>1. CASE q = r
      BY <2>18, <3>1
    <3>2. CASE q \in ToSet(requests) /\ q.type = "start"
      <4>1. q.id \in 1..panel'.seq /\ q.id # panel'.active
        BY <1>1, <2>4, <2>6, <2>15, <3>2 DEF RequestOK
      <4> QED
        BY <2>15, <3>2, <4>1 DEF RequestOK
    <3>3. CASE q \in ToSet(requests) /\ q.type # "start"
      BY <2>15, <3>3 DEF RequestOK
    <3>4. CASE Plain(q)
      BY <3>4 DEF Plain, RequestOK
    <3> QED
      BY <1>2, <2>17, <3>1, <3>2, <3>3, <3>4 DEF OnlyMore
  <2>20. RequestsInv'
    BY <2>17, <2>19 DEF RequestsInv
  <2> QED
    BY <2>7, <2>11, <2>12, <2>13, <2>20, CacheRests DEF SearchInv, PanelPart
<1> QED
  BY <1>4, <1>5

-----------------------------------------------------------------------------
(* Events and snapshots arrive.                                            *)
PanelTyped ==
  panel \in [ root : Roots, query : AnyQuery, active : Nat, seq : Nat,
              loading : BOOLEAN, result : Results ]

(* An event is taken that is not a batch of the active search.             *)
LEMMA Dropped ==
  ASSUME PanelPart, events # <<>>, events' = Tail(events),
         BatchFiles(panel.active, Head(events)) = <<>>,
         UNCHANGED <<panel, scans, requests, orphan>>
  PROVE  PanelPart'
<1>1. events \in Seq(Events) /\ BatchesTyped(panel.active, events)
  BY EventsTyped DEF PanelPart, EventsInv
<1>2. events' \in Seq(Events) /\ ToSet(events') \subseteq ToSet(events)
  BY <1>1, EventTaken
<1>3. Joined(panel.active, events') = Joined(panel.active, events)
  <2> DEFINE rest == Joined(panel.active, Tail(events))
  <2>1. rest \in Seq(FoundFiles) /\ Joined(panel.active, events) = <<>> \o rest
    BY <1>1, JoinedTail
  <2> HIDE DEF rest
  <2>2. <<>> \o rest = rest
    BY <2>1
  <2> QED
    BY <2>1, <2>2 DEF rest
<1>4. Whole' = Whole
  BY <1>3 DEF Whole
<1>5. EventsInv'
  BY <1>2 DEF PanelPart, EventsInv, EventOK
<1>6. RequestsInv'
  BY <1>2 DEF PanelPart, RequestsInv, RequestOK
<1>7. ScansInv' /\ WholeInv'
  BY <1>4 DEF PanelPart, ScansInv, OfPanel, WholeInv
<1> QED
  BY <1>5, <1>6, <1>7 DEF PanelPart, PanelInv

(* The whole is moved from the events to the panel.                        *)
LEMMA Merged ==
  ASSUME PanelPart, events # <<>>, events' = Tail(events),
         Head(events).type = "batch", Head(events).id = panel.active,
         panel' = [panel EXCEPT !.result = MergeSearchBatch(Head(events).result),
                                !.loading = TRUE],
         UNCHANGED <<scans, requests, orphan>>
  PROVE  PanelPart'
<1>1. PICK e : e = Head(events)
  OBVIOUS
<1>2. PICK batch : batch = e.result
  OBVIOUS
<1>3. PICK shown : shown = panel.result.files
  OBVIOUS
<1>4. PICK rest : rest = Joined(panel.active, Tail(events))
  OBVIOUS
<1>5. events \in Seq(Events) /\ BatchesTyped(panel.active, events)
  BY EventsTyped DEF PanelPart, EventsInv
<1>6. /\ events' \in Seq(Events) /\ ToSet(events') \subseteq ToSet(events)
      /\ e \in Events /\ e \in ToSet(events)
  BY <1>1, <1>5, EventTaken
<1>7. e.type = "batch" /\ e.id = panel.active /\ e.id \in 1..panel.seq
      /\ batch.total = MatchesIn(batch.files)
  BY <1>1, <1>2, <1>6 DEF PanelPart, EventsInv, EventOK
<1>8. batch \in Results
  BY <1>2, <1>6, <1>7 DEF Events
<1>9. PanelTyped /\ panel.active # 0 /\ panel.query \in Queries
  BY <1>7 DEF PanelPart, PanelInv, PanelTyped
<1>10. /\ shown \in Seq(FoundFiles) /\ batch.files \in Seq(FoundFiles)
       /\ panel.result.total = MatchesIn(shown)
  <2>1. panel.result = NoResult \/ GoodResult(panel.result, panel.query)
    BY DEF PanelPart, PanelInv
  <2>2. \E q \in AnyQuery : GoodResult(panel.result, q)
    BY <1>9, <2>1, EmptyIsGood DEF AnyQuery, NoResult
  <2> QED
    BY <1>3, <1>8, <2>2 DEF GoodResult, Results
<1>11. /\ rest \in Seq(FoundFiles) /\ Joined(panel.active, events) = batch.files \o rest
  BY <1>1, <1>2, <1>4, <1>5, <1>7, JoinedTail DEF BatchFiles
<1>12. PICK result : result = MergeSearchBatch(batch)
  OBVIOUS
<1>13. /\ result.files = shown \o batch.files /\ result.query = panel.query
       /\ result.total = MatchesIn(shown) + MatchesIn(batch.files)
       /\ result \in Results
  <2> DEFINE current == IF panel.result = NoResult THEN EmptySearchResult(panel.query)
                        ELSE panel.result
             flag == current.truncated \/ batch.truncated
  <2>1. /\ current \in Results /\ current.files = shown /\ current.query = panel.query
        /\ current.total = MatchesIn(shown)
    <3>1. CASE panel.result = NoResult
      <4>1. /\ GoodResult(EmptySearchResult(panel.query), panel.query)
            /\ EmptySearchResult(panel.query).files = <<>>
        BY <1>9, EmptyIsGood DEF AnyQuery
      <4>2. shown = <<>>
        BY <1>3, <3>1 DEF NoResult, EmptySearchResult
      <4> QED
        BY <3>1, <4>1, <4>2 DEF GoodResult
    <3>2. CASE panel.result # NoResult
      BY <1>3, <3>2 DEF PanelPart, PanelInv, GoodResult
    <3> QED
      BY <3>1, <3>2
  <2>2. result = [ current EXCEPT !.files = current.files \o batch.files,
                                  !.total = current.total + batch.total,
                                  !.truncated = flag ]
    BY <1>12 DEF MergeSearchBatch
  <2> HIDE DEF current
  <2>3. /\ current.truncated \in BOOLEAN /\ batch.truncated \in BOOLEAN
        /\ current.total \in Nat /\ batch.total \in Nat
    BY <1>8, <2>1 DEF Results
  <2>4. flag \in BOOLEAN
    OBVIOUS
  <2> HIDE DEF flag
  <2>5. current = [ query |-> current.query, files |-> current.files,
                    total |-> current.total, truncated |-> current.truncated ]
    BY <2>1 DEF Results
  <2>6. result = [ query |-> current.query, files |-> current.files \o batch.files,
                   total |-> current.total + batch.total, truncated |-> flag ]
    BY <2>2, <2>5
  <2>7. current.files \o batch.files \in Seq(FoundFiles)
    BY <1>10, <2>1
  <2>8. current.total + batch.total \in Nat
    BY <2>3
  <2>9. current.query \in AnyQuery
    BY <1>9, <2>1 DEF AnyQuery
  <2>10. result \in Results
    BY <2>4, <2>6, <2>7, <2>8, <2>9 DEF Results
  <2> QED
    BY <1>7, <2>1, <2>6, <2>10
<1>14. /\ panel' \in [ root : Roots, query : AnyQuery, active : Nat, seq : Nat,
                       loading : BOOLEAN, result : Results ]
       /\ panel'.active = panel.active /\ panel'.seq = panel.seq
       /\ panel'.query = panel.query /\ panel'.result = result
  BY <1>1, <1>2, <1>9, <1>12, <1>13 DEF PanelTyped
<1>15. Whole' = Whole /\ Whole = (shown \o batch.files) \o rest
  <2>1. Whole = shown \o (batch.files \o rest)
    BY <1>3, <1>11 DEF Whole
  <2>2. Whole' = (shown \o batch.files) \o rest
    BY <1>4, <1>13, <1>14 DEF Whole
  <2> QED
    BY <1>10, <1>11, <2>1, <2>2, FilesAssociative
<1>16. GoodResult(result, panel.query)
  <2> DEFINE files == shown \o batch.files
  <2>1. files \in Seq(FoundFiles) /\ Whole = files \o rest
    BY <1>10, <1>15
  <2>2. OnePerPath(Whole) /\ Backed(Whole, panel.query) /\ MatchesIn(Whole) <= MaxMatches
    BY <1>9 DEF PanelPart, WholeInv
  <2>3. /\ MatchesIn(files) = MatchesIn(shown) + MatchesIn(batch.files)
        /\ MatchesIn(files) \in Nat
    BY <1>10, <2>1, MatchesConcat
  <2> HIDE DEF files
  <2>4. OnePerPath(files) /\ Backed(files, panel.query)
    BY <1>11, <2>1, <2>2, FilesConcat
  <2>5. MatchesIn(rest) \in Nat /\ MatchesIn(Whole) = MatchesIn(files) + MatchesIn(rest)
    BY <1>11, <2>1, MatchesConcat
  <2>6. MatchesIn(files) <= MaxMatches
    BY <2>2, <2>3, <2>5, SearchAssumption
  <2> QED
    BY <1>13, <2>3, <2>4, <2>6 DEF GoodResult, files
<1>17. PanelInv'
  BY <1>9, <1>14, <1>16 DEF PanelPart, PanelInv
<1>18. EventsInv'
  BY <1>6, <1>14 DEF PanelPart, EventsInv, EventOK
<1>19. RequestsInv'
  <2>1. ASSUME NEW r \in ToSet(requests) PROVE RequestOK(r)'
    <3>1. RequestOK(r)
      BY DEF PanelPart, RequestsInv
    <3>2. r.type = "start" => r.id # panel.active
      BY <1>6, <1>7, <3>1 DEF RequestOK
    <3> QED
      BY <1>6, <1>14, <3>1, <3>2 DEF RequestOK
  <2> QED
    BY <2>1 DEF PanelPart, RequestsInv
<1>20. ScansInv' /\ WholeInv'
  BY <1>14, <1>15 DEF PanelPart, ScansInv, OfPanel, WholeInv
<1> QED
  BY <1>17, <1>18, <1>19, <1>20 DEF PanelPart

LEMMA SearchEventKeeps ==
  ASSUME SearchInv, SearchEvent
  PROVE  SearchInv'
<1>1. PICK e : e = Head(events)
  OBVIOUS
<1>2. /\ events # <<>> /\ e.type # "snapshot" /\ HandleProjectSearchEvent(e)
      /\ events' = Tail(events)
      /\ UNCHANGED <<fileTexts, cache, scans, requests, replies, outside, orphan, work>>
  BY <1>1 DEF SearchEvent
<1>3. CacheInv'
  BY <1>2, CacheRests DEF SearchInv
<1>4. events \in Seq(Events)
  BY DEF SearchInv, PanelPart, EventsInv
<1>5. NoneCome /\ e \in Events /\ e \in ToSet(events)
  BY <1>1, <1>2, <1>4, EventTaken DEF NoneCome
<1>6. EventOK(e) /\ PanelTyped /\ PanelInv
  BY <1>5 DEF SearchInv, PanelPart, EventsInv, PanelInv, PanelTyped
<1>7. OnlyMore(requests')
  BY <1>2 DEF SearchInv, PanelPart, RequestsInv, OnlyMore
<1>8. CASE e.id # panel.active
  <2>1. panel' = panel
    BY <1>2, <1>8 DEF HandleProjectSearchEvent, IsCurrentEvent
  <2>2. BatchFiles(panel.active, e) = <<>>
    BY <1>8 DEF BatchFiles
  <2>3. PanelPart'
    BY <1>1, <1>2, <2>1, <2>2, Dropped DEF SearchInv
  <2> QED
    BY <1>3, <2>3 DEF SearchInv
<1>9. CASE e.id = panel.active
  <2>1. e.type \in {"batch", "done", "canceled", "error"}
    BY <1>2, <1>5 DEF Events
  <2>2. CASE e.type = "batch"
    <3>1. panel' = [panel EXCEPT !.result = MergeSearchBatch(e.result), !.loading = TRUE]
      BY <1>2, <1>9, <2>2 DEF HandleProjectSearchEvent, IsCurrentEvent
    <3>2. PanelPart'
      BY <1>1, <1>2, <1>9, <2>2, <3>1, Merged DEF SearchInv
    <3> QED
      BY <1>3, <3>2 DEF SearchInv
  <2>3. CASE e.type # "batch"
    <3> DEFINE result == panel'.result
    <3>1. /\ panel'.active = 0 /\ panel'.seq = panel.seq /\ panel'.query = panel.query
          /\ panel' \in [ root : Roots, query : AnyQuery, active : Nat, seq : Nat,
                          loading : BOOLEAN, result : Results ]
          /\ \/ result = panel.result
             \/ result = NoResult
             \/ panel.query \in Queries /\ GoodResult(result, panel.query)
      <4>1. CASE e.type = "done"
        <5>1. panel' = [panel EXCEPT !.result = e.result, !.loading = FALSE, !.active = 0]
          BY <1>2, <1>9, <4>1 DEF HandleProjectSearchEvent, IsCurrentEvent
        <5>2. panel.query \in Queries /\ GoodResult(e.result, panel.query)
          BY <1>6, <1>9, <4>1 DEF EventOK
        <5> QED
          BY <1>6, <5>1, <5>2 DEF PanelTyped, GoodResult
      <4>2. CASE e.type = "canceled"
        <5>1. panel' = [panel EXCEPT !.loading = FALSE, !.active = 0]
          BY <1>2, <1>9, <4>2 DEF HandleProjectSearchEvent, IsCurrentEvent
        <5> QED
          BY <1>6, <5>1 DEF PanelTyped
      <4>3. CASE e.type = "error"
        <5>1. panel' = [panel EXCEPT !.result = NoResult, !.loading = FALSE, !.active = 0]
          BY <1>2, <1>9, <4>3 DEF HandleProjectSearchEvent, IsCurrentEvent, Fail
        <5>2. NoResult \in Results
          BY EmptyIsGood DEF AnyQuery, NoResult, GoodResult
        <5> QED
          BY <1>6, <5>1, <5>2 DEF PanelTyped
      <4> QED
        BY <2>1, <2>3, <4>1, <4>2, <4>3
    <3> HIDE DEF result
    <3>2. PanelInv'
      BY <1>6, <3>1 DEF PanelInv, result
    <3>3. PanelPart'
      BY <1>2, <1>5, <1>7, <3>1, <3>2, Released DEF SearchInv
    <3> QED
      BY <1>3, <3>3 DEF SearchInv
  <2> QED
    BY <2>2, <2>3
<1> QED
  BY <1>8, <1>9

LEMMA SnapshotArrivesKeeps ==
  ASSUME SearchInv, SnapshotArrives
  PROVE  SearchInv'
<1>1. PICK e : e = Head(events)
  OBVIOUS
<1>2. PICK r : r = e.root
  OBVIOUS
<1>3. /\ events # <<>> /\ e.type = "snapshot" /\ events' = Tail(events)
      /\ IF r = panel.root THEN UNCHANGED <<panel, orphan>>
         ELSE /\ panel' = [panel EXCEPT !.root = r, !.result = NoResult, !.loading = FALSE]
              /\ orphan' = (orphan \/ panel.active # 0)
      /\ UNCHANGED <<fileTexts, cache, scans, requests, replies, outside, work>>
  BY <1>1, <1>2 DEF SnapshotArrives
<1>4. CacheInv'
  BY <1>3, CacheRests DEF SearchInv
<1>5. BatchFiles(panel.active, e) = <<>>
  BY <1>3 DEF BatchFiles
<1>6. CASE r = panel.root
  <2>1. PanelPart'
    BY <1>1, <1>3, <1>5, <1>6, Dropped DEF SearchInv
  <2> QED
    BY <1>4, <2>1 DEF SearchInv
<1>7. CASE r # panel.root
  <2>1. /\ panel' = [panel EXCEPT !.root = r, !.result = NoResult, !.loading = FALSE]
        /\ orphan' = (orphan \/ panel.active # 0)
    BY <1>3, <1>7
  <2>2. PanelInv /\ PanelTyped /\ events \in Seq(Events)
        /\ BatchesTyped(panel.active, events)
    BY EventsTyped DEF SearchInv, PanelPart, PanelInv, PanelTyped, EventsInv
  <2>3. events' \in Seq(Events) /\ ToSet(events') \subseteq ToSet(events)
        /\ e \in Events
    BY <1>1, <1>3, <2>2, EventTaken
  <2>4. r \in Roots
    BY <1>2, <1>3, <2>3 DEF Events
  <2>5. NoResult \in Results /\ NoResult.files = <<>>
    BY EmptyIsGood DEF AnyQuery, NoResult, GoodResult
  <2>6. /\ panel' \in [ root : Roots, query : AnyQuery, active : Nat, seq : Nat,
                        loading : BOOLEAN, result : Results ]
        /\ panel'.active = panel.active /\ panel'.seq = panel.seq
        /\ panel'.query = panel.query /\ panel'.result = NoResult
    BY <2>1, <2>2, <2>4, <2>5 DEF PanelTyped
  <2>7. PanelInv'
    BY <2>2, <2>6 DEF PanelInv
  <2>8. PICK shown : shown = panel.result.files
    OBVIOUS
  <2>9. PICK rest : rest = Joined(panel.active, Tail(events))
    OBVIOUS
  <2>10. shown \in Seq(FoundFiles)
    BY <2>2, <2>8 DEF PanelTyped, Results
  <2>11. rest \in Seq(FoundFiles) /\ Joined(panel.active, events) = rest
    <3>1. rest \in Seq(FoundFiles) /\ Joined(panel.active, events) = <<>> \o rest
      BY <1>1, <1>3, <1>5, <2>2, <2>9, JoinedTail
    <3>2. <<>> \o rest = rest
      BY <3>1
    <3> QED
      BY <3>1, <3>2
  <2>12. Whole = shown \o rest
    BY <2>8, <2>11 DEF Whole
  <2>13. Whole' = rest
    <3>1. Whole' = <<>> \o rest
      BY <1>3, <2>5, <2>6, <2>9 DEF Whole
    <3>2. <<>> \o rest = rest
      BY <2>11
    <3> QED
      BY <3>1, <3>2
  <2>14. WholeInv'
    <3> SUFFICES ASSUME panel.active # 0
                 PROVE  /\ OnePerPath(rest) /\ Backed(rest, panel.query)
                        /\ MatchesIn(rest) <= MaxMatches
      BY <2>6, <2>13 DEF WholeInv
    <3>1. OnePerPath(Whole) /\ Backed(Whole, panel.query) /\ MatchesIn(Whole) <= MaxMatches
      BY DEF SearchInv, PanelPart, WholeInv
    <3>2. OnePerPath(rest) /\ Backed(rest, panel.query)
      BY <2>10, <2>11, <2>12, <3>1, FilesConcat
    <3>3. /\ MatchesIn(shown) \in Nat /\ MatchesIn(rest) \in Nat
          /\ MatchesIn(Whole) = MatchesIn(shown) + MatchesIn(rest)
      BY <2>10, <2>11, <2>12, MatchesConcat
    <3> QED
      BY <3>1, <3>2, <3>3, SearchAssumption
  <2>15. ScansInv'
    <3>1. DOMAIN scans \subseteq 1..panel.seq
      BY DEF SearchInv, PanelPart, ScansInv
    <3>2. ASSUME NEW id \in DOMAIN scans
          PROVE  GoodScan(scans[id]) /\ (id = panel.active => OfPanel(scans[id])')
      <4>1. GoodScan(scans[id]) /\ (id = panel.active => OfPanel(scans[id]))
        BY DEF SearchInv, PanelPart, ScansInv
      <4>2. ASSUME id = panel.active PROVE OfPanel(scans[id])'
        <5>1. PICK files : files = scans[id].summary.files
          OBVIOUS
        <5>2. PICK before \in Seq(FoundFiles) : files = before \o Whole
          BY <4>1, <4>2, <5>1 DEF OfPanel, EndsWith
        <5>3. files = (before \o shown) \o rest
          BY <2>10, <2>11, <2>12, <5>2, FilesAssociative
        <5>4. before \o shown \in Seq(FoundFiles)
          BY <2>10, <5>2
        <5>5. orphan'
          <6>1. id # 0
            BY <2>2, <3>1 DEF PanelTyped
          <6>2. (panel.active # 0) = TRUE
            BY <4>2, <6>1
          <6> QED
            BY <2>1, <6>2
        <5>6. EndsWith(files, rest, ~orphan')
          BY <5>3, <5>4, <5>5 DEF EndsWith
        <5>7. scans[id].query = panel'.query
          BY <2>6, <4>1, <4>2 DEF OfPanel
        <5> QED
          BY <1>3, <2>13, <5>1, <5>6, <5>7 DEF OfPanel
      <4> QED
        BY <4>1, <4>2
    <3> QED
      BY <1>3, <2>6, <3>1, <3>2 DEF ScansInv
  <2>16. EventsInv'
    BY <2>3, <2>6 DEF SearchInv, PanelPart, EventsInv, EventOK
  <2>17. RequestsInv'
    <3>1. ASSUME NEW q \in ToSet(requests) PROVE RequestOK(q)'
      <4>1. RequestOK(q)
        BY DEF SearchInv, PanelPart, RequestsInv
      <4> QED
        BY <1>3, <2>3, <2>5, <2>6, <4>1 DEF RequestOK
    <3> QED
      BY <1>3, <3>1 DEF SearchInv, PanelPart, RequestsInv
  <2> QED
    BY <1>4, <2>7, <2>14, <2>15, <2>16, <2>17 DEF SearchInv, PanelPart
<1> QED
  BY <1>6, <1>7

LEMMA ReplaceAnsweredKeeps ==
  ASSUME SearchInv, ReplaceAnswered
  PROVE  SearchInv'
<1>1. UNCHANGED <<fileTexts, cache, scans, events, outside>>
  BY DEF ReplaceAnswered
<1>2. CASE Head(replies)
  <2>1. UNCHANGED <<panel, requests, orphan>>
    BY <1>2 DEF ReplaceAnswered
  <2>2. PanelPart'
    BY <1>1, <2>1 DEF SearchInv, PanelPart, PanelInv, RequestsInv, RequestOK, EventsInv,
                      EventOK, ScansInv, OfPanel, Whole, WholeInv
  <2> QED
    BY <1>1, <2>2, CacheRests DEF SearchInv
<1>3. CASE ~Head(replies)
  <2>1. RunProjectSearch
    BY <1>3 DEF ReplaceAnswered
  <2> QED
    BY <1>1, <2>1, RunKeeps
<1> QED
  BY <1>2, <1>3

-----------------------------------------------------------------------------
(* Steps of the main process: the search id goes on or ends.  Where no     *)
(* search does, id is 0.                                                   *)
LEMMA ScanSteps ==
  ASSUME PanelPart, UNCHANGED <<panel, orphan>>, NEW id, NEW next,
         events' \in Seq(Events),
         \A e \in ToSet(events') :
           \/ e \in ToSet(events)
           \/ EventOK(e) /\ (e.type # "snapshot" => e.id = id),
         requests' \in Seq(Requests), StartedOnce(requests'),
         ToSet(requests') \subseteq ToSet(requests),
         \A r \in ToSet(requests') : r.type = "start" => r.id # id,
         DOMAIN scans' \subseteq DOMAIN scans \cup ({id} \cap 1..panel.seq),
         \A i \in DOMAIN scans' \ {id} : scans'[i] = scans[i],
         id \in DOMAIN scans' =>
           /\ scans'[id] = next /\ GoodScan(next)
           /\ id = panel.active => /\ next.query = panel.query
                                   /\ EndsWith(next.summary.files, Whole', ~orphan),
         id = panel.active \/ Whole' = Whole, WholeInv'
  PROVE  PanelPart'
<1>1. PanelInv'
  BY DEF PanelPart, PanelInv
<1>2. RequestsInv'
  <2>1. ASSUME NEW r \in ToSet(requests') PROVE RequestOK(r)'
    <3>1. RequestOK(r)
      BY DEF PanelPart, RequestsInv
    <3>2. ASSUME r.type = "start"
          PROVE  /\ r.id \notin DOMAIN scans'
                 /\ \A e \in ToSet(events') : e.type # "snapshot" => e.id # r.id
      <4>1. r.id # id
        BY <3>2
      <4>2. r.id \notin DOMAIN scans
            /\ \A e \in ToSet(events) : e.type # "snapshot" => e.id # r.id
        BY <3>1, <3>2 DEF RequestOK
      <4> QED
        BY <4>1, <4>2
    <3> QED
      BY <3>1, <3>2 DEF RequestOK
  <2> QED
    BY <2>1 DEF RequestsInv
<1>3. EventsInv'
  <2>1. ASSUME NEW e \in ToSet(events') PROVE EventOK(e)'
    <3>1. EventOK(e)
      BY DEF PanelPart, EventsInv
    <3> QED
      BY <3>1 DEF EventOK
  <2> QED
    BY <2>1 DEF EventsInv
<1>4. ScansInv'
  <2>1. DOMAIN scans' \subseteq 1..panel.seq
    BY DEF PanelPart, ScansInv
  <2>2. ASSUME NEW i \in DOMAIN scans'
        PROVE  /\ GoodScan(scans'[i])
               /\ i = panel.active => /\ scans'[i].query = panel.query
                                      /\ EndsWith(scans'[i].summary.files, Whole', ~orphan)
    <3>1. CASE i = id
      BY <3>1
    <3>2. CASE i # id
      <4>1. i \in DOMAIN scans /\ scans'[i] = scans[i]
        BY <3>2
      <4>2. i = panel.active => Whole' = Whole
        BY <3>2
      <4> QED
        BY <4>1, <4>2 DEF PanelPart, ScansInv, OfPanel
    <3> QED
      BY <3>1, <3>2
  <2> QED
    BY <2>1, <2>2 DEF ScansInv, OfPanel
<1> QED
  BY <1>1, <1>2, <1>3, <1>4 DEF PanelPart

(* A request is handled that starts no search.                             *)
LEMMA RequestHandled ==
  ASSUME PanelPart, UNCHANGED <<panel, orphan, scans, events>>,
         requests' \in Seq(Requests), StartedOnce(requests'),
         ToSet(requests') \subseteq ToSet(requests)
  PROVE  PanelPart'
<1>1. \A r \in ToSet(requests) : r.type = "start" => r.id # 0
  BY DEF PanelPart, PanelInv, RequestsInv, RequestOK
<1>2. 0 \notin DOMAIN scans /\ events \in Seq(Events)
  BY DEF PanelPart, ScansInv, EventsInv
<1>3. Whole' = Whole /\ WholeInv'
  BY DEF Whole, WholeInv, PanelPart
<1> QED
  BY <1>1, <1>2, <1>3, ScanSteps

WholeOf(sent) == panel.result.files \o Joined(panel.active, sent)

LEMMA WholeGrows ==
  ASSUME PanelTyped, NEW sent \in Seq(Events), NEW e \in Events
  PROVE  /\ WholeOf(sent) \in Seq(FoundFiles)
         /\ BatchFiles(panel.active, e) \in Seq(FoundFiles)
         /\ WholeOf(Append(sent, e)) = WholeOf(sent) \o BatchFiles(panel.active, e)
<1> DEFINE shown == panel.result.files
           more == BatchFiles(panel.active, e)
           joined == Joined(panel.active, sent)
           new == Append(sent, e)
<1>1. shown \in Seq(FoundFiles)
  BY DEF PanelTyped, Results
<1>2. new \in Seq(Events) /\ Len(new) = Len(sent) + 1 /\ Len(sent) \in Nat
      /\ new[Len(sent) + 1] = e /\ DOMAIN new = 1..(Len(sent) + 1)
  OBVIOUS
<1>3. BatchesTyped(panel.active, sent) /\ BatchesTyped(panel.active, new)
  BY <1>2, EventsTyped
<1>4. more \in Seq(FoundFiles)
  <2>1. Len(sent) + 1 \in DOMAIN new
    BY <1>2
  <2> QED
    BY <1>2, <1>3, <2>1 DEF BatchesTyped
<1>5. joined \in Seq(FoundFiles) /\ Joined(panel.active, new) = joined \o more
  BY <1>3, <1>4, JoinedAppend
<1>6. shown \o (joined \o more) = (shown \o joined) \o more
  BY <1>1, <1>4, <1>5, FilesAssociative
<1> HIDE DEF more, joined
<1>7. shown \o joined \in Seq(FoundFiles)
  BY <1>1, <1>5
<1> QED
  BY <1>4, <1>5, <1>6, <1>7 DEF WholeOf, joined, more

-----------------------------------------------------------------------------
(* The files change, and requests other than a start are handled.          *)
LEMMA ChangedTyped ==
  ASSUME CacheInv, NEW r \in Roots, NEW files \in Changed(fileTexts[r]),
         fileTexts' = [fileTexts EXCEPT ![r] = files]
  PROVE  DOMAIN fileTexts' = Roots /\ TextsTyped'
<1>1. /\ DOMAIN fileTexts[r] \subseteq TreePaths
      /\ \A p \in DOMAIN fileTexts[r] : fileTexts[r][p] \in [Queries -> Nat]
  BY DEF CacheInv, TextsTyped
<1>2. Texts \subseteq [Queries -> Nat]
  <2>1. 0..MaxHits \subseteq Nat
    BY SearchAssumption
  <2> QED
    BY <2>1 DEF Texts
<1>3. /\ DOMAIN files \subseteq TreePaths
      /\ \A p \in DOMAIN files : files[p] \in [Queries -> Nat]
  <2>1. ASSUME NEW p \in TreePaths, NEW text \in Texts, files = Written(fileTexts[r], p, text)
        PROVE  /\ DOMAIN files \subseteq TreePaths
               /\ \A x \in DOMAIN files : files[x] \in [Queries -> Nat]
    BY <1>1, <1>2, <2>1 DEF Written
  <2>2. ASSUME NEW p \in DOMAIN fileTexts[r], files = Without(fileTexts[r], p)
        PROVE  /\ DOMAIN files \subseteq TreePaths
               /\ \A x \in DOMAIN files : files[x] \in [Queries -> Nat]
    BY <1>1, <2>2 DEF Without
  <2> QED
    BY <2>1, <2>2 DEF Changed
<1> QED
  BY <1>3 DEF CacheInv, TextsTyped

LEMMA ChangeKeeps ==
  ASSUME SearchInv, NEW r \in Roots, ChangeFile(r) \/ ChangeFileOutside(r)
  PROVE  SearchInv'
<1>1. PICK files \in Changed(fileTexts[r]) : fileTexts' = [fileTexts EXCEPT ![r] = files]
  BY DEF ChangeFile, ChangeFileOutside, Change
<1>2. UNCHANGED <<scans, requests, events, replies, panel, orphan>>
  BY DEF ChangeFile, ChangeFileOutside, Change
<1>3. PanelPart'
  BY <1>2, RequestHandled DEF SearchInv, PanelPart, RequestsInv
<1>4. DOMAIN fileTexts' = Roots /\ TextsTyped' /\ DOMAIN fileTexts = Roots
  BY <1>1, ChangedTyped DEF SearchInv, CacheInv
<1>5. \A x \in Roots \ {r} : fileTexts'[x] = fileTexts[x]
  BY <1>1, <1>4
<1>6. /\ cache \in [Roots -> {Nothing} \cup SUBSET TreePaths]
      /\ outside \in [Roots -> BOOLEAN]
      /\ CacheIsCurrent
  BY DEF SearchInv, CacheInv
<1>7. CASE ChangeFile(r)
  <2>1. cache' = [cache EXCEPT ![r] = Nothing] /\ outside' = outside
    BY <1>7 DEF ChangeFile, InvalidateCandidates
  <2>2. cache' \in [Roots -> {Nothing} \cup SUBSET TreePaths]
    BY <1>6, <2>1
  <2>3. CacheIsCurrent'
    <3>1. ASSUME NEW x \in Roots, cache'[x] # Nothing, ~outside'[x]
          PROVE  cache'[x] = DOMAIN fileTexts'[x]
      <4>1. x # r
        BY <1>6, <2>1, <3>1
      <4>2. cache'[x] = cache[x] /\ fileTexts'[x] = fileTexts[x]
        BY <1>5, <1>6, <2>1, <4>1
      <4> QED
        BY <1>6, <2>1, <3>1, <4>2 DEF CacheIsCurrent, ListEditableFiles
    <3> QED
      BY <3>1 DEF CacheIsCurrent, ListEditableFiles
  <2> QED
    BY <1>3, <1>4, <1>6, <2>1, <2>2, <2>3 DEF SearchInv, CacheInv
<1>8. CASE ChangeFileOutside(r)
  <2>1. PICK yes \in BOOLEAN : yes /\ outside' = [outside EXCEPT ![r] = yes]
    BY <1>8 DEF ChangeFileOutside
  <2>2. cache' = cache /\ outside' \in [Roots -> BOOLEAN]
    BY <1>6, <1>8, <2>1 DEF ChangeFileOutside
  <2>3. CacheIsCurrent'
    <3>1. ASSUME NEW x \in Roots, cache'[x] # Nothing, ~outside'[x]
          PROVE  cache'[x] = DOMAIN fileTexts'[x]
      <4>1. x # r
        BY <1>6, <2>1, <3>1
      <4>2. fileTexts'[x] = fileTexts[x] /\ outside'[x] = outside[x]
        BY <1>5, <1>6, <2>1, <4>1
      <4> QED
        BY <1>6, <2>2, <3>1, <4>2 DEF CacheIsCurrent, ListEditableFiles
    <3> QED
      BY <3>1 DEF CacheIsCurrent, ListEditableFiles
  <2> QED
    BY <1>3, <1>4, <1>6, <2>2, <2>3 DEF SearchInv, CacheInv
<1> QED
  BY <1>7, <1>8

LEMMA SnapshotKeeps ==
  ASSUME SearchInv, NEW r \in Roots, TakeSnapshot(r)
  PROVE  SearchInv'
<1>1. PICK no \in BOOLEAN : no = FALSE
  OBVIOUS
<1>2. PICK e : e = [type |-> "snapshot", root |-> r]
  OBVIOUS
<1>3. /\ cache' = [cache EXCEPT ![r] = DOMAIN fileTexts[r]]
      /\ outside' = [outside EXCEPT ![r] = no]
      /\ events' = Append(events, e)
      /\ UNCHANGED <<fileTexts, scans, requests, replies, panel, orphan>>
  BY <1>1, <1>2 DEF TakeSnapshot, ListEditableFiles
<1>4. /\ cache \in [Roots -> {Nothing} \cup SUBSET TreePaths]
      /\ outside \in [Roots -> BOOLEAN]
      /\ CacheIsCurrent /\ TextsTyped
  BY DEF SearchInv, CacheInv
<1>5. CacheInv'
  <2>1. DOMAIN fileTexts[r] \in SUBSET TreePaths
    BY <1>4 DEF TextsTyped
  <2>2. cache' \in [Roots -> {Nothing} \cup SUBSET TreePaths]
    BY <1>3, <1>4, <2>1
  <2>3. outside' \in [Roots -> BOOLEAN]
    BY <1>3, <1>4
  <2>4. ASSUME NEW x \in Roots, cache'[x] # Nothing, ~outside'[x]
        PROVE  cache'[x] = DOMAIN fileTexts'[x]
    <3>1. CASE x = r
      BY <1>3, <1>4, <3>1
    <3>2. CASE x # r
      <4>1. cache'[x] = cache[x] /\ outside'[x] = outside[x]
        BY <1>3, <1>4, <3>2
      <4> QED
        BY <1>3, <1>4, <2>4, <4>1 DEF CacheIsCurrent, ListEditableFiles
    <3> QED
      BY <3>1, <3>2
  <2>5. CacheIsCurrent'
    BY <2>4 DEF CacheIsCurrent, ListEditableFiles
  <2> QED
    BY <1>3, <2>2, <2>3, <2>5 DEF SearchInv, CacheInv, TextsTyped
<1>6. PanelTyped /\ events \in Seq(Events) /\ PanelPart
  BY DEF SearchInv, PanelPart, PanelInv, PanelTyped, EventsInv
<1>7. e \in Events /\ e.type = "snapshot"
  BY <1>2 DEF Events
<1>8. events' \in Seq(Events) /\ ToSet(events') = ToSet(events) \cup {e}
  BY <1>3, <1>6, <1>7, EventAppended
<1>9. EventOK(e)
  BY <1>7 DEF EventOK
<1>10. Whole' = Whole
  <2>1. WholeOf(Append(events, e)) = WholeOf(events) \o BatchFiles(panel.active, e)
        /\ WholeOf(events) \in Seq(FoundFiles)
    BY <1>6, <1>7, WholeGrows
  <2>2. BatchFiles(panel.active, e) = <<>>
    BY <1>7 DEF BatchFiles
  <2>3. WholeOf(events) \o <<>> = WholeOf(events)
    BY <2>1
  <2>4. Whole = WholeOf(events) /\ Whole' = WholeOf(Append(events, e))
    BY <1>3 DEF Whole, WholeOf
  <2> QED
    BY <2>1, <2>2, <2>3, <2>4
<1>11. WholeInv'
  BY <1>3, <1>10 DEF SearchInv, PanelPart, WholeInv
<1>12. /\ \A q \in ToSet(requests) : q.type = "start" => q.id # 0
       /\ 0 \notin DOMAIN scans
       /\ requests \in Seq(Requests) /\ StartedOnce(requests)
  BY <1>6 DEF PanelPart, PanelInv, RequestsInv, RequestOK, ScansInv
<1>13. PanelPart'
  BY <1>3, <1>6, <1>7, <1>8, <1>9, <1>10, <1>11, <1>12, ScanSteps
<1> QED
  BY <1>5, <1>13 DEF SearchInv

LEMMA CancelKeeps ==
  ASSUME SearchInv, HandleCancel
  PROVE  SearchInv'
<1>1. PICK id : id = Head(requests).id
  OBVIOUS
<1>2. PICK yes \in BOOLEAN : yes = TRUE
  OBVIOUS
<1>3. /\ requests # <<>> /\ requests' = Tail(requests)
      /\ scans' = [i \in DOMAIN scans |->
                     IF i = id THEN [scans[i] EXCEPT !.canceled = yes] ELSE scans[i]]
      /\ UNCHANGED <<fileTexts, cache, events, replies, panel, outside, orphan, work>>
  BY <1>1, <1>2 DEF HandleCancel
<1>4. CacheInv'
  BY <1>3, CacheRests DEF SearchInv
<1>5. /\ requests' \in Seq(Requests) /\ StartedOnce(requests')
      /\ ToSet(requests') \subseteq ToSet(requests)
  BY <1>3, RequestTaken DEF SearchInv, PanelPart, RequestsInv
<1>6. CASE id \notin DOMAIN scans
  <2>1. PanelPart'
    <3>1. \A i \in DOMAIN scans' : scans'[i] = scans[i] /\ i # 0
      BY <1>3, <1>6 DEF SearchInv, PanelPart, ScansInv
    <3>2. DOMAIN scans' = DOMAIN scans
      BY <1>3
    <3>3. \A r \in ToSet(requests') : r.type = "start" => r.id # 0
      BY <1>5 DEF SearchInv, PanelPart, PanelInv, RequestsInv, RequestOK
    <3>4. Whole' = Whole /\ WholeInv' /\ events' \in Seq(Events)
      BY <1>3 DEF SearchInv, PanelPart, EventsInv, Whole, WholeInv
    <3> QED
      BY <1>3, <1>5, <3>1, <3>2, <3>3, <3>4, ScanSteps DEF SearchInv
  <2> QED
    BY <1>4, <2>1 DEF SearchInv
<1>7. CASE id \in DOMAIN scans
  <2>1. PICK s : s = scans[id]
    OBVIOUS
  <2>2. PICK next : next = [s EXCEPT !.canceled = yes]
    OBVIOUS
  <2>3. GoodScan(s) /\ (id = panel.active => OfPanel(s)) /\ id \in 1..panel.seq
    BY <1>7, <2>1 DEF SearchInv, PanelPart, ScansInv
  <2>4. /\ next.query = s.query /\ next.todo = s.todo /\ next.summary = s.summary
        /\ next \in [ root : Roots, query : Queries, canceled : BOOLEAN,
                      todo : Seq(TreePaths), summary : Results ]
    BY <2>2, <2>3 DEF GoodScan
  <2>5. GoodScan(next)
    BY <2>3, <2>4 DEF GoodScan
  <2>6. DOMAIN scans' = DOMAIN scans /\ scans'[id] = next
        /\ \A i \in DOMAIN scans' \ {id} : scans'[i] = scans[i]
    BY <1>3, <1>7, <2>1, <2>2
  <2>7. \A r \in ToSet(requests') : r.type = "start" => r.id # id
    BY <1>5, <1>7 DEF SearchInv, PanelPart, RequestsInv, RequestOK
  <2>8. Whole' = Whole /\ WholeInv' /\ events' \in Seq(Events)
    BY <1>3 DEF SearchInv, PanelPart, EventsInv, Whole, WholeInv
  <2>9. id = panel.active => /\ next.query = panel.query
                             /\ EndsWith(next.summary.files, Whole', ~orphan)
    BY <2>3, <2>4, <2>8 DEF OfPanel
  <2>10. PanelPart'
    BY <1>3, <1>5, <2>3, <2>5, <2>6, <2>7, <2>8, <2>9, ScanSteps DEF SearchInv
  <2> QED
    BY <1>4, <2>10 DEF SearchInv
<1> QED
  BY <1>6, <1>7

(* What a replacement takes from a file, the file has.                     *)
LEMMA AppliedTyped ==
  ASSUME NEW text \in [Queries -> Nat], NEW q \in Queries, NEW by \in Queries,
         NEW n \in Nat, n <= text[q]
  PROVE  ApplyMatchReplacements(text, q, by, n) \in [Queries -> Nat]
<1>1. CASE by = q
  BY <1>1 DEF ApplyMatchReplacements
<1>2. CASE by # q
  <2>1. text[q] - n \in Nat /\ text[by] + n \in Nat /\ \A x \in Queries : text[x] \in Nat
    OBVIOUS
  <2> QED
    BY <1>2, <2>1 DEF ApplyMatchReplacements
<1> QED
  BY <1>1, <1>2

LEMMA HandleReplaceKeeps ==
  ASSUME SearchInv, HandleReplace
  PROVE  SearchInv'
<1>1. PICK c : c = Head(requests)
  OBVIOUS
<1>2. /\ requests # <<>> /\ c.type = "replace" /\ requests' = Tail(requests)
      /\ UNCHANGED <<cache, scans, events, panel, outside, orphan, work>>
  BY <1>1 DEF HandleReplace
<1>3. /\ requests' \in Seq(Requests) /\ StartedOnce(requests')
      /\ ToSet(requests') \subseteq ToSet(requests)
      /\ c \in Requests /\ c \in ToSet(requests)
  BY <1>1, <1>2, RequestTaken DEF SearchInv, PanelPart, RequestsInv
<1>4. PanelPart'
  BY <1>2, <1>3, RequestHandled DEF SearchInv
<1>5. PICK r : r = c.root
  OBVIOUS
<1>6. /\ r \in Roots /\ c.query \in Queries /\ c.by \in Queries
      /\ c.files \in Seq(FoundFiles)
  BY <1>2, <1>3, <1>5 DEF Requests
<1>7. Backed(c.files, c.query)
  BY <1>2, <1>3 DEF SearchInv, PanelPart, RequestsInv, RequestOK
<1>8. /\ DOMAIN fileTexts = Roots /\ TextsTyped
      /\ DOMAIN fileTexts[r] \subseteq TreePaths
      /\ \A p \in DOMAIN fileTexts[r] : fileTexts[r][p] \in [Queries -> Nat]
  BY <1>6 DEF SearchInv, CacheInv, TextsTyped
<1> DEFINE taken(p) == {i \in Replaced(c) : c.files[i].path = p}
           text(p) == IF taken(p) = {} THEN fileTexts[r][p]
                      ELSE ApplyMatchReplacements(fileTexts[r][p], c.query, c.by,
                             c.files[CHOOSE i \in taken(p) : TRUE].n)
<1>9. fileTexts' = [fileTexts EXCEPT ![r] = [p \in DOMAIN fileTexts[r] |-> text(p)]]
  BY <1>1, <1>5 DEF HandleReplace
<1>10. ASSUME NEW p \in DOMAIN fileTexts[r]
       PROVE  text(p) \in [Queries -> Nat]
  <2>1. CASE taken(p) = {}
    BY <1>8, <2>1
  <2>2. CASE taken(p) # {}
    <3>1. PICK i : i = CHOOSE k \in taken(p) : TRUE
      OBVIOUS
    <3>2. i \in taken(p)
      BY <2>2, <3>1
    <3>3. /\ i \in DOMAIN c.files /\ c.files[i].path = p
          /\ fileTexts[r][p] = c.files[i].text
      BY <1>5, <3>2 DEF Replaced, SameHash
    <3>4. c.files[i] \in FoundFiles
      BY <1>6, <3>3
    <3>5. c.files[i].n \in Nat
      BY <3>4 DEF FoundFiles
    <3>6. c.files[i].n <= fileTexts[r][p][c.query]
      BY <1>7, <3>3 DEF Backed
    <3>7. ApplyMatchReplacements(fileTexts[r][p], c.query, c.by, c.files[i].n)
            \in [Queries -> Nat]
      BY <1>6, <1>8, <3>5, <3>6, AppliedTyped
    <3> QED
      BY <2>2, <3>1, <3>7
  <2> QED
    BY <2>1, <2>2
<1> HIDE DEF text
<1>11. CacheInv'
  <2>1. DOMAIN fileTexts' = Roots /\ \A x \in Roots \ {r} : fileTexts'[x] = fileTexts[x]
    BY <1>8, <1>9
  <2>2. fileTexts'[r] = [p \in DOMAIN fileTexts[r] |-> text(p)]
    BY <1>6, <1>8, <1>9
  <2>3. \A x \in Roots : DOMAIN fileTexts'[x] = DOMAIN fileTexts[x]
    BY <2>1, <2>2
  <2>4. TextsTyped'
    <3>1. ASSUME NEW x \in Roots, NEW p \in DOMAIN fileTexts'[x]
          PROVE  fileTexts'[x][p] \in [Queries -> Nat]
      <4>1. CASE x = r
        BY <1>10, <2>2, <4>1
      <4>2. CASE x # r
        BY <1>8, <2>1, <4>2 DEF TextsTyped
      <4> QED
        BY <4>1, <4>2
    <3>2. \A x \in Roots : DOMAIN fileTexts'[x] \subseteq TreePaths
      BY <1>8, <2>3 DEF TextsTyped
    <3> QED
      BY <3>1, <3>2 DEF TextsTyped
  <2>5. CacheIsCurrent'
    BY <1>2, <2>3 DEF SearchInv, CacheInv, CacheIsCurrent, ListEditableFiles
  <2> QED
    BY <1>2, <2>1, <2>4, <2>5 DEF SearchInv, CacheInv
<1> QED
  BY <1>4, <1>11 DEF SearchInv

-----------------------------------------------------------------------------
(* What a chunk adds to what the scan has found.                           *)
Extended(s, found) ==
  [ s.summary EXCEPT !.files = s.summary.files \o found.files,
                     !.total = found.total, !.truncated = (found.total >= MaxMatches) ]

Further(s, found) ==
  [ s EXCEPT !.summary = Extended(s, found),
             !.todo = SubSeq(s.todo, ChunkLength(s) + 1, Len(s.todo)) ]

BatchGood(batch, found) ==
  /\ batch \in Results /\ batch.files = found.files
  /\ batch.total = MatchesIn(found.files)

LEMMA TodoSplit ==
  ASSUME NEW s, GoodScan(s), s.todo \in Seq(TreePaths)
  PROVE  LET n == ChunkLength(s)
             now == SubSeq(s.todo, 1, n)
             later == SubSeq(s.todo, n + 1, Len(s.todo))
         IN  /\ n \in Nat /\ n <= Len(s.todo)
             /\ now \in Seq(TreePaths) /\ Len(now) = n
             /\ \A i \in 1..n : now[i] = s.todo[i]
             /\ later \in Seq(TreePaths) /\ DOMAIN later = 1..(Len(s.todo) - n)
             /\ \A i \in DOMAIN later : later[i] = s.todo[i + n]
<1>1. PICK todo : todo = s.todo
  OBVIOUS
<1>2. PICK n : n = ChunkLength(s)
  OBVIOUS
<1>3. todo \in Seq(TreePaths) /\ Len(todo) \in Nat
  BY <1>1
<1>4. n \in Nat /\ n <= Len(todo)
  BY <1>1, <1>2, <1>3, SearchAssumption DEF ChunkLength
<1>5. /\ SubSeq(todo, 1, n) \in Seq(TreePaths) /\ Len(SubSeq(todo, 1, n)) = n
      /\ \A i \in 1..n : SubSeq(todo, 1, n)[i] = todo[i]
  BY <1>3, <1>4
<1> DEFINE later == SubSeq(todo, n + 1, Len(todo))
<1>6. later = [i \in 1..(Len(todo) - n) |-> todo[i + n]]
  BY <1>3, <1>4
<1>7. \A i \in 1..(Len(todo) - n) : i + n \in 1..Len(todo)
  BY <1>3, <1>4
<1>8. \A i \in 1..(Len(todo) - n) : todo[i + n] \in TreePaths
  BY <1>3, <1>7
<1>9. Len(todo) - n \in Nat
  BY <1>3, <1>4
<1>10. later \in Seq(TreePaths)
  <2> HIDE DEF later
  <2> QED
    BY <1>6, <1>8, <1>9
<1> QED
  BY <1>1, <1>2, <1>4, <1>5, <1>6, <1>10

LEMMA ChunkExtends ==
  ASSUME TextsTyped, NEW s, GoodScan(s), NEW found,
         found = ScanFiles(s.root, s.query, SubSeq(s.todo, 1, ChunkLength(s)),
                           s.summary.total)
  PROVE  /\ found.files \in Seq(FoundFiles) /\ s.summary.files \in Seq(FoundFiles)
         /\ GoodResult(Extended(s, found), s.query)
         /\ Extended(s, found).files = s.summary.files \o found.files
         /\ BatchGood(BatchOf(s, found, Extended(s, found)), found)
         /\ GoodScan(Further(s, found))
<1>1. PICK n : n = ChunkLength(s)
  OBVIOUS
<1>2. PICK todo : todo = s.todo
  OBVIOUS
<1>3. PICK now : now = SubSeq(todo, 1, n)
  OBVIOUS
<1>4. PICK later : later = SubSeq(todo, n + 1, Len(todo))
  OBVIOUS
<1>5. PICK old : old = s.summary
  OBVIOUS
<1>6. PICK new : new = Extended(s, found)
  OBVIOUS
<1>7. /\ s \in [ root : Roots, query : Queries, canceled : BOOLEAN, todo : Seq(TreePaths),
                 summary : Results ]
      /\ GoodResult(old, s.query)
      /\ \A i, j \in DOMAIN todo : todo[i] = todo[j] => i = j
      /\ \A i \in DOMAIN todo : todo[i] \notin PathsOf(old.files)
  BY <1>2, <1>5 DEF GoodScan
<1>8. /\ n \in Nat /\ n <= Len(todo) /\ todo \in Seq(TreePaths)
      /\ now \in Seq(TreePaths) /\ Len(now) = n
      /\ \A i \in 1..n : now[i] = todo[i]
      /\ later \in Seq(TreePaths) /\ DOMAIN later = 1..(Len(todo) - n)
      /\ \A i \in DOMAIN later : later[i] = todo[i + n]
  BY <1>1, <1>2, <1>3, <1>4, <1>7, TodoSplit
<1>9. \A i \in 1..n : i \in DOMAIN todo
  BY <1>8
<1>10. DOMAIN now = 1..n
  BY <1>8
<1>11. \A i, j \in DOMAIN now : now[i] = now[j] => i = j
  BY <1>7, <1>8, <1>9, <1>10
<1>12. /\ old \in Results /\ old.query = s.query /\ OnePerPath(old.files)
       /\ Backed(old.files, s.query)
       /\ old.total = MatchesIn(old.files) /\ old.total <= MaxMatches
  BY <1>7 DEF GoodResult
<1>13. old.total \in Nat /\ old.files \in Seq(FoundFiles)
  BY <1>12 DEF Results
<1>14. Found(found, now, n, s.query, old.total)
  <2>1. found = ScanFiles(s.root, s.query, now, old.total)
    BY <1>1, <1>2, <1>3, <1>5
  <2>2. s.root \in Roots /\ s.query \in Queries
    BY <1>7
  <2> QED
    BY <1>8, <1>11, <1>12, <1>13, <2>1, <2>2, ScanFacts
<1>15. PICK more : more = found.files
  OBVIOUS
<1>16. /\ more \in Seq(FoundFiles) /\ OnePerPath(more) /\ Backed(more, s.query)
       /\ PathsOf(more) \subseteq {now[i] : i \in 1..n}
       /\ found.total \in Nat /\ found.total = old.total + MatchesIn(more)
       /\ found.total <= MaxMatches
  BY <1>14, <1>15 DEF Found
<1>17. PICK files : files = old.files \o more
  OBVIOUS
<1>18. PathsOf(old.files) \cap PathsOf(more) = {}
  BY <1>7, <1>8, <1>9, <1>16
<1>19. /\ files \in Seq(FoundFiles) /\ OnePerPath(files) /\ Backed(files, s.query)
       /\ PathsOf(files) = PathsOf(old.files) \cup PathsOf(more)
  BY <1>12, <1>13, <1>16, <1>17, <1>18, FilesConcat
<1>20. found.total = MatchesIn(files) /\ MatchesIn(more) \in Nat
  BY <1>12, <1>13, <1>16, <1>17, MatchesConcat
<1>21. PICK full : full = (found.total >= MaxMatches)
  OBVIOUS
<1> full \in BOOLEAN
  BY <1>21
<1>22. new = [old EXCEPT !.files = files, !.total = found.total, !.truncated = full]
  BY <1>5, <1>6, <1>15, <1>17, <1>21 DEF Extended
<1>23. s.query \in AnyQuery
  BY <1>7 DEF AnyQuery
<1>24. /\ new \in Results /\ new.query = s.query /\ new.files = files
       /\ new.total = found.total /\ new.truncated = full
  BY <1>12, <1>16, <1>19, <1>22 DEF Results
<1>25. GoodResult(new, s.query)
  BY <1>16, <1>19, <1>20, <1>24 DEF GoodResult
<1>26. PICK batch : batch = BatchOf(s, found, new)
  OBVIOUS
<1>27. BatchGood(batch, found)
  <2>1. batch = [ query |-> s.query, files |-> more, total |-> found.total - old.total,
                  truncated |-> full ]
    BY <1>5, <1>15, <1>24, <1>26 DEF BatchOf
  <2>2. found.total - old.total = MatchesIn(more)
    BY <1>13, <1>16, <1>20
  <2>3. batch \in Results
    BY <1>16, <1>20, <1>23, <2>1, <2>2 DEF Results
  <2> QED
    BY <1>15, <2>1, <2>2, <2>3 DEF BatchGood
<1>28. PICK next : next = Further(s, found)
  OBVIOUS
<1>29. next = [s EXCEPT !.summary = new, !.todo = later]
  BY <1>1, <1>2, <1>4, <1>6, <1>28 DEF Further
<1>30. /\ next \in [ root : Roots, query : Queries, canceled : BOOLEAN,
                     todo : Seq(TreePaths), summary : Results ]
       /\ next.summary = new /\ next.todo = later /\ next.query = s.query
  BY <1>7, <1>8, <1>24, <1>29
<1>31. \A i \in DOMAIN later : i \in Nat /\ i + n \in DOMAIN todo /\ i + n \notin 1..n
  BY <1>8
<1>32. \A i, j \in DOMAIN later : later[i] = later[j] => i = j
  <2> SUFFICES ASSUME NEW i \in DOMAIN later, NEW j \in DOMAIN later, later[i] = later[j]
               PROVE  i = j
    OBVIOUS
  <2>1. i + n = j + n
    BY <1>7, <1>8, <1>31
  <2> QED
    BY <1>8, <1>31, <2>1
<1>33. \A i \in DOMAIN later : later[i] \notin PathsOf(files)
  <2> SUFFICES ASSUME NEW i \in DOMAIN later, later[i] \in PathsOf(files)
               PROVE  FALSE
    OBVIOUS
  <2>1. later[i] = todo[i + n] /\ i + n \in DOMAIN todo /\ i + n \notin 1..n
    BY <1>8, <1>31
  <2>2. later[i] \notin PathsOf(old.files)
    BY <1>7, <2>1
  <2>3. PICK j \in 1..n : later[i] = now[j]
    BY <1>16, <1>19, <2>2
  <2>4. todo[i + n] = todo[j] /\ j \in DOMAIN todo
    BY <1>8, <1>9, <2>1, <2>3
  <2>5. i + n = j
    BY <1>7, <2>1, <2>4
  <2> QED
    BY <2>1, <2>5
<1>34. GoodScan(next)
  BY <1>24, <1>25, <1>30, <1>32, <1>33 DEF GoodScan
<1>35. new.files = old.files \o more
  BY <1>17, <1>24
<1> QED
  BY <1>5, <1>6, <1>13, <1>15, <1>16, <1>25, <1>26, <1>27, <1>28, <1>34, <1>35

Ending(e, id, q) ==
  /\ e \in Events /\ e.type \in {"done", "canceled", "error"} /\ e.id = id
  /\ e.type = "done" => GoodResult(e.result, q)

LEMMA FinishedEnds ==
  ASSUME NEW id \in Nat, NEW q \in Queries, NEW res, GoodResult(res, q)
  PROVE  /\ Ending(Finished(id, "done", res), id, q)
         /\ Ending(Finished(id, "canceled", res), id, q)
         /\ Ending(Event(id, "error"), id, q)
<1>1. res \in Results
  BY DEF GoodResult
<1>2. Finished(id, "done", res) \in Events
  BY <1>1 DEF Finished, Events
<1>3. Finished(id, "canceled", res) \in Events
  BY <1>1 DEF Finished, Events
<1>4. Event(id, "error") \in Events
  BY DEF Event, Events
<1>5. Ending(Finished(id, "done", res), id, q)
  BY <1>2 DEF Finished, Ending
<1>6. Ending(Finished(id, "canceled", res), id, q)
  BY <1>3 DEF Finished, Ending
<1>7. Ending(Event(id, "error"), id, q)
  BY <1>4 DEF Event, Ending
<1> QED
  BY <1>5, <1>6, <1>7

BatchEvent(id, s, found) ==
  [type |-> "batch", id |-> id, result |-> BatchOf(s, found, Extended(s, found))]

LEMMA ChunkCases ==
  ASSUME NEW id \in Nat, NEW s, GoodScan(s), NEW found,
         GoodResult(Extended(s, found), s.query),
         NEW step, step = Chunk(id, s, found)
  PROVE  \/ /\ step.on = FALSE
            /\ \E e : Ending(e, id, s.query) /\ step.sent = <<e>>
         \/ /\ step.on = FALSE
            /\ \E e : Ending(e, id, s.query) /\ step.sent = <<BatchEvent(id, s, found), e>>
         \/ /\ step.on = TRUE
            /\ step.sent = <<BatchEvent(id, s, found)>> /\ step.scan = Further(s, found)
<1> DEFINE n == ChunkLength(s)
           full == found.total >= MaxMatches
           summary == Extended(s, found)
           done == Finished(id, "done", s.summary)
           canceled == Finished(id, "canceled", s.summary)
           failed == Event(id, "error")
           last == Finished(id, "done", summary)
           batch == BatchEvent(id, s, found)
           next == Further(s, found)
<1>1. step = IF s.todo = <<>> THEN [sent |-> <<done>>, on |-> FALSE, scan |-> s]
             ELSE IF s.canceled THEN [sent |-> <<canceled>>, on |-> FALSE, scan |-> s]
             ELSE IF found.failed THEN [sent |-> <<failed>>, on |-> FALSE, scan |-> s]
             ELSE IF full \/ n < BatchSize
             THEN [sent |-> <<batch, last>>, on |-> FALSE, scan |-> s]
             ELSE [sent |-> <<batch>>, on |-> TRUE, scan |-> next]
  BY DEF Chunk, Extended, Further, BatchEvent
<1>2. s.query \in Queries /\ GoodResult(s.summary, s.query)
  BY DEF GoodScan
<1>3. /\ Ending(done, id, s.query) /\ Ending(canceled, id, s.query)
      /\ Ending(failed, id, s.query) /\ Ending(last, id, s.query)
  BY <1>2, FinishedEnds
<1> HIDE DEF done, canceled, failed, last, batch, next, n, full, summary
<1>4. CASE s.todo # <<>> /\ s.canceled
  <2>1. step.sent = <<canceled>> /\ step.on = FALSE
    BY <1>1, <1>4
  <2> QED
    BY <1>3, <2>1
<1>5. CASE s.todo = <<>>
  <2>1. step.sent = <<done>> /\ step.on = FALSE
    BY <1>1, <1>5
  <2> QED
    BY <1>3, <2>1
<1>6. CASE s.todo # <<>> /\ ~s.canceled /\ found.failed
  <2>1. step.sent = <<failed>> /\ step.on = FALSE
    BY <1>1, <1>6
  <2> QED
    BY <1>3, <2>1
<1>7. CASE s.todo # <<>> /\ ~s.canceled /\ ~found.failed /\ (full \/ n < BatchSize)
  <2>1. step.sent = <<batch, last>> /\ step.on = FALSE
    BY <1>1, <1>7
  <2> QED
    BY <1>3, <2>1 DEF batch
<1>8. CASE s.todo # <<>> /\ ~s.canceled /\ ~found.failed /\ ~(full \/ n < BatchSize)
  <2>1. step.sent = <<batch>> /\ step.on = TRUE /\ step.scan = next
    BY <1>1, <1>8
  <2> QED
    BY <2>1 DEF batch, next
<1> QED
  BY <1>4, <1>5, <1>6, <1>7, <1>8

LEMMA EndingSent ==
  ASSUME PanelTyped, NEW sent \in Seq(Events), NEW e, NEW id \in 1..panel.seq,
         NEW q \in Queries, Ending(e, id, q), id = panel.active => q = panel.query
  PROVE  /\ Append(sent, e) \in Seq(Events) /\ ToSet(Append(sent, e)) = ToSet(sent) \cup {e}
         /\ EventOK(e) /\ e.id = id /\ WholeOf(Append(sent, e)) = WholeOf(sent)
<1>1. e \in Events /\ e.id = id /\ e.type \in {"done", "canceled", "error"}
  BY DEF Ending
<1>2. Append(sent, e) \in Seq(Events) /\ ToSet(Append(sent, e)) = ToSet(sent) \cup {e}
  BY <1>1, EventAppended
<1>3. EventOK(e)
  BY DEF Ending, EventOK, GoodResult
<1>4. WholeOf(sent) \in Seq(FoundFiles)
      /\ WholeOf(Append(sent, e)) = WholeOf(sent) \o BatchFiles(panel.active, e)
  BY <1>1, WholeGrows
<1>5. BatchFiles(panel.active, e) = <<>>
  BY <1>1 DEF BatchFiles
<1>6. WholeOf(sent) \o <<>> = WholeOf(sent)
  BY <1>4
<1> QED
  BY <1>1, <1>2, <1>3, <1>4, <1>5, <1>6

LEMMA BatchSent ==
  ASSUME PanelTyped, NEW sent \in Seq(Events), NEW id \in 1..panel.seq, NEW s, NEW found,
         NEW e, e = BatchEvent(id, s, found),
         BatchGood(BatchOf(s, found, Extended(s, found)), found)
  PROVE  /\ Append(sent, e) \in Seq(Events) /\ ToSet(Append(sent, e)) = ToSet(sent) \cup {e}
         /\ e \in Events /\ EventOK(e) /\ e.id = id /\ WholeOf(sent) \in Seq(FoundFiles)
         /\ WholeOf(Append(sent, e)) =
              IF id = panel.active THEN WholeOf(sent) \o found.files ELSE WholeOf(sent)
<1>1. PICK batch : batch = BatchOf(s, found, Extended(s, found))
  OBVIOUS
<1>2. e = [type |-> "batch", id |-> id, result |-> batch]
  BY <1>1 DEF BatchEvent
<1>3. /\ batch \in Results /\ batch.files = found.files
      /\ batch.total = MatchesIn(found.files)
  BY <1>1 DEF BatchGood
<1>4. id \in Nat
  BY DEF PanelTyped
<1>5. e \in Events /\ e.type = "batch" /\ e.id = id /\ e.result = batch
  BY <1>2, <1>3, <1>4 DEF Events
<1>6. Append(sent, e) \in Seq(Events) /\ ToSet(Append(sent, e)) = ToSet(sent) \cup {e}
  BY <1>5, EventAppended
<1>7. EventOK(e)
  BY <1>3, <1>5 DEF EventOK
<1>8. WholeOf(sent) \in Seq(FoundFiles)
      /\ WholeOf(Append(sent, e)) = WholeOf(sent) \o BatchFiles(panel.active, e)
  BY <1>5, WholeGrows
<1>9. id = panel.active => BatchFiles(panel.active, e) = found.files
  BY <1>3, <1>5 DEF BatchFiles
<1>10. id # panel.active => BatchFiles(panel.active, e) = <<>>
  BY <1>5 DEF BatchFiles
<1>11. WholeOf(sent) \o <<>> = WholeOf(sent)
  BY <1>8
<1> QED
  BY <1>5, <1>6, <1>7, <1>8, <1>9, <1>10, <1>11

LEMMA SuffixGood ==
  ASSUME NEW res, NEW q, GoodResult(res, q), NEW w \in Seq(FoundFiles), NEW all,
         EndsWith(res.files, w, all)
  PROVE  OnePerPath(w) /\ Backed(w, q) /\ MatchesIn(w) <= MaxMatches
<1>1. PICK before \in Seq(FoundFiles) : res.files = before \o w
  BY DEF EndsWith
<1>2. /\ OnePerPath(res.files) /\ Backed(res.files, q)
      /\ MatchesIn(res.files) <= MaxMatches
  BY DEF GoodResult
<1>3. OnePerPath(w) /\ Backed(w, q)
  BY <1>1, <1>2, FilesConcat
<1>4. /\ MatchesIn(before) \in Nat /\ MatchesIn(w) \in Nat
      /\ MatchesIn(res.files) = MatchesIn(before) + MatchesIn(w)
  BY <1>1, MatchesConcat
<1> QED
  BY <1>2, <1>3, <1>4, SearchAssumption

LEMMA ProceedKeeps ==
  ASSUME PanelPart, TextsTyped, UNCHANGED <<panel, orphan>>,
         NEW id \in 1..panel.seq, NEW s, GoodScan(s), id = panel.active => OfPanel(s),
         requests' \in Seq(Requests), StartedOnce(requests'),
         ToSet(requests') \subseteq ToSet(requests),
         \A r \in ToSet(requests') : r.type = "start" => r.id # id,
         Proceed(id, s, scans)
  PROVE  PanelPart'
<1>1. PICK found : /\ found = ScanFiles(s.root, s.query,
                                         SubSeq(s.todo, 1, ChunkLength(s)), s.summary.total)
                   /\ \E step \in {Chunk(id, s, found)} :
                        /\ events' = events \o step.sent
                        /\ scans' = IF step.on
                                    THEN [i \in DOMAIN scans \cup {id} |->
                                            IF i = id THEN step.scan ELSE scans[i]]
                                    ELSE [i \in DOMAIN scans \ {id} |-> scans[i]]
  BY DEF Proceed
<1>2. PICK step : /\ step = Chunk(id, s, found)
                  /\ events' = events \o step.sent
                  /\ scans' = IF step.on
                              THEN [i \in DOMAIN scans \cup {id} |->
                                      IF i = id THEN step.scan ELSE scans[i]]
                              ELSE [i \in DOMAIN scans \ {id} |-> scans[i]]
  BY <1>1
<1>3. /\ found.files \in Seq(FoundFiles) /\ s.summary.files \in Seq(FoundFiles)
      /\ GoodResult(Extended(s, found), s.query)
      /\ Extended(s, found).files = s.summary.files \o found.files
      /\ BatchGood(BatchOf(s, found, Extended(s, found)), found)
      /\ GoodScan(Further(s, found))
  BY <1>1, ChunkExtends
<1>4. PanelTyped /\ events \in Seq(Events) /\ id \in Nat
  BY DEF PanelPart, PanelInv, PanelTyped, EventsInv
<1>5. s.query \in Queries /\ (id = panel.active => s.query = panel.query)
  BY DEF GoodScan, OfPanel
<1>6. Whole = WholeOf(events) /\ Whole' = WholeOf(events')
  BY DEF Whole, WholeOf
<1>7. PICK batch : batch = BatchEvent(id, s, found)
  OBVIOUS
<1>8. PICK sent : sent = Append(events, batch)
  OBVIOUS
<1>9. /\ sent \in Seq(Events) /\ ToSet(sent) = ToSet(events) \cup {batch}
      /\ batch \in Events /\ EventOK(batch) /\ batch.id = id /\ Whole \in Seq(FoundFiles)
      /\ WholeOf(sent) = IF id = panel.active THEN Whole \o found.files ELSE Whole
  <2>1. /\ sent \in Seq(Events) /\ ToSet(sent) = ToSet(events) \cup {batch}
        /\ batch \in Events /\ EventOK(batch) /\ batch.id = id
        /\ WholeOf(events) \in Seq(FoundFiles)
        /\ WholeOf(sent) = IF id = panel.active THEN WholeOf(events) \o found.files
                           ELSE WholeOf(events)
    BY <1>3, <1>4, <1>7, <1>8, BatchSent
  <2> QED
    BY <1>6, <2>1
<1>10. ASSUME id = panel.active
       PROVE  EndsWith(s.summary.files \o found.files, WholeOf(sent), ~orphan)
  <2>1. PICK files : files = s.summary.files
    OBVIOUS
  <2>2. PICK before \in Seq(FoundFiles) : files = before \o Whole /\ (~orphan => before = <<>>)
    BY <1>10, <2>1 DEF OfPanel, EndsWith
  <2>3. files \o found.files = before \o (Whole \o found.files)
    BY <1>3, <1>9, <2>2, FilesAssociative
  <2> QED
    BY <1>9, <1>10, <2>1, <2>2, <2>3 DEF EndsWith
<1>11. WholeOf(sent) \in Seq(FoundFiles)
  BY <1>3, <1>9
<1>12. ASSUME panel.active # 0, WholeOf(events') = WholeOf(sent)
       PROVE  /\ OnePerPath(Whole') /\ Backed(Whole', panel.query)
              /\ MatchesIn(Whole') <= MaxMatches
  <2>1. CASE id = panel.active
    BY <1>3, <1>5, <1>6, <1>10, <1>11, <1>12, <2>1, SuffixGood
  <2>2. CASE id # panel.active
    BY <1>6, <1>9, <1>12, <2>2 DEF PanelPart, WholeInv
  <2> QED
    BY <2>1, <2>2
<1>13. ASSUME WholeOf(events') = WholeOf(sent) \/ WholeOf(events') = Whole
       PROVE  WholeInv' /\ (id = panel.active \/ Whole' = Whole)
  <2>1. WholeOf(events') = Whole => WholeInv'
    BY <1>6 DEF PanelPart, WholeInv
  <2>2. WholeOf(events') = WholeOf(sent) => WholeInv'
    BY <1>12 DEF WholeInv
  <2> QED
    BY <1>6, <1>9, <1>13, <2>1, <2>2
<1>14. ASSUME step.on = FALSE
       PROVE  DOMAIN scans' \subseteq DOMAIN scans /\ id \notin DOMAIN scans'
              /\ \A i \in DOMAIN scans' : scans'[i] = scans[i]
  BY <1>2, <1>14
<1>15. CASE step.on = FALSE /\ \E e : Ending(e, id, s.query) /\ step.sent = <<e>>
  <2>1. PICK e : Ending(e, id, s.query) /\ step.sent = <<e>>
    BY <1>15
  <2>2. e \in Events
    BY <2>1 DEF Ending
  <2>3. events' = Append(events, e)
    BY <1>2, <1>4, <2>1, <2>2, AppendIsConcat
  <2>4. /\ events' \in Seq(Events) /\ ToSet(events') = ToSet(events) \cup {e}
        /\ EventOK(e) /\ e.id = id /\ WholeOf(events') = Whole
    BY <1>4, <1>5, <1>6, <2>1, <2>3, EndingSent
  <2>5. WholeInv' /\ (id = panel.active \/ Whole' = Whole)
    BY <1>13, <2>4
  <2> QED
    BY <1>14, <1>15, <2>4, <2>5, ScanSteps
<1>16. CASE /\ step.on = FALSE
            /\ \E e : Ending(e, id, s.query) /\ step.sent = <<batch, e>>
  <2>1. PICK e : Ending(e, id, s.query) /\ step.sent = <<batch, e>>
    BY <1>16
  <2>2. e \in Events /\ batch \in Events
    BY <1>9, <2>1 DEF Ending
  <2>3. events' = Append(sent, e)
    BY <1>2, <1>4, <1>8, <2>1, <2>2
  <2>4. /\ events' \in Seq(Events) /\ ToSet(events') = ToSet(sent) \cup {e}
        /\ EventOK(e) /\ e.id = id /\ WholeOf(events') = WholeOf(sent)
    BY <1>4, <1>5, <1>9, <2>1, <2>3, EndingSent
  <2>5. WholeInv' /\ (id = panel.active \/ Whole' = Whole)
    BY <1>13, <2>4
  <2> QED
    BY <1>9, <1>14, <1>16, <2>4, <2>5, ScanSteps
<1>17. CASE step.on = TRUE /\ step.sent = <<batch>> /\ step.scan = Further(s, found)
  <2>1. batch \in Events
    BY <1>9
  <2>2. events' = sent
    BY <1>2, <1>4, <1>8, <1>17, <2>1, AppendIsConcat
  <2>3. PICK next : next = step.scan
    OBVIOUS
  <2>4. scans' = [i \in DOMAIN scans \cup {id} |-> IF i = id THEN next ELSE scans[i]]
    BY <1>2, <1>17, <2>3
  <2>5. /\ DOMAIN scans' = DOMAIN scans \cup {id} /\ scans'[id] = next
        /\ \A i \in DOMAIN scans' \ {id} : scans'[i] = scans[i]
    BY <2>4
  <2>6. WholeInv' /\ (id = panel.active \/ Whole' = Whole)
    BY <1>13, <2>2
  <2>7. GoodScan(next)
    BY <1>3, <1>17, <2>3
  <2>8. next.query = s.query /\ next.summary.files = s.summary.files \o found.files
    <3>1. s \in [ root : Roots, query : Queries, canceled : BOOLEAN, todo : Seq(TreePaths),
                  summary : Results ]
      BY DEF GoodScan
    <3>2. PICK longer : longer = Extended(s, found)
      OBVIOUS
    <3>3. PICK later : later = SubSeq(s.todo, ChunkLength(s) + 1, Len(s.todo))
      OBVIOUS
    <3>4. next = [s EXCEPT !.summary = longer, !.todo = later]
      BY <1>17, <2>3, <3>2, <3>3 DEF Further
    <3>5. next.query = s.query /\ next.summary = longer
      BY <3>1, <3>4
    <3> QED
      BY <1>3, <3>2, <3>5
  <2>9. id = panel.active => /\ next.query = panel.query
                             /\ EndsWith(next.summary.files, Whole', ~orphan)
    BY <1>5, <1>6, <1>10, <2>2, <2>8
  <2> QED
    BY <1>9, <2>2, <2>5, <2>6, <2>7, <2>9, ScanSteps
<1> QED
  BY <1>2, <1>3, <1>4, <1>7, <1>15, <1>16, <1>17, ChunkCases

LEMMA NextChunkKeeps ==
  ASSUME SearchInv, NEW id, NextChunk(id)
  PROVE  SearchInv'
<1>1. /\ id \in DOMAIN scans /\ Proceed(id, scans[id], scans)
      /\ UNCHANGED <<fileTexts, cache, requests, replies, panel, outside, orphan, work>>
  BY DEF NextChunk
<1>2. PICK s : s = scans[id]
  OBVIOUS
<1>3. id \in 1..panel.seq /\ GoodScan(s) /\ (id = panel.active => OfPanel(s))
  BY <1>1, <1>2 DEF SearchInv, PanelPart, ScansInv
<1>4. /\ requests' \in Seq(Requests) /\ StartedOnce(requests')
      /\ ToSet(requests') \subseteq ToSet(requests)
      /\ \A r \in ToSet(requests') : r.type = "start" => r.id # id
  BY <1>1 DEF SearchInv, PanelPart, RequestsInv, RequestOK
<1>5. PanelPart'
  BY <1>1, <1>2, <1>3, <1>4, ProceedKeeps DEF SearchInv, CacheInv
<1> QED
  BY <1>1, <1>5, CacheRests DEF SearchInv

LEMMA HandleStartKeeps ==
  ASSUME SearchInv, HandleStart
  PROVE  SearchInv'
<1>1. PICK c : c = Head(requests)
  OBVIOUS
<1>2. PICK no \in BOOLEAN : no = FALSE
  OBVIOUS
<1>3. PICK paths : paths = SearchCandidates(c.root)
  OBVIOUS
<1>4. PICK todo : todo = TreeOrder[paths]
  OBVIOUS
<1>5. PICK none : none = EmptySearchResult(c.query)
  OBVIOUS
<1>6. PICK s : s = [ root |-> c.root, query |-> c.query, canceled |-> no, todo |-> todo,
                     summary |-> none ]
  OBVIOUS
<1>7. /\ requests # <<>> /\ c.type = "start" /\ Proceed(c.id, s, scans)
      /\ requests' = Tail(requests)
      /\ UNCHANGED <<fileTexts, cache, replies, panel, outside, orphan, work>>
  BY <1>1, <1>2, <1>3, <1>4, <1>5, <1>6 DEF HandleStart
<1>8. /\ requests' \in Seq(Requests) /\ StartedOnce(requests')
      /\ ToSet(requests') \subseteq ToSet(requests)
      /\ c \in Requests /\ c \in ToSet(requests)
      /\ \A r \in ToSet(requests') : r.type = "start" => r.id # c.id
  BY <1>1, <1>7, RequestTaken DEF SearchInv, PanelPart, RequestsInv
<1>9. c.root \in Roots /\ c.query \in Queries
  BY <1>7, <1>8 DEF Requests
<1>10. /\ c.id \in 1..panel.seq
       /\ \A e \in ToSet(events) : e.type # "snapshot" => e.id # c.id
       /\ c.id = panel.active => c.query = panel.query /\ panel.result.files = <<>>
  BY <1>7, <1>8 DEF SearchInv, PanelPart, RequestsInv, RequestOK
<1>11. paths \in SUBSET TreePaths
  <2>1. cache[c.root] \in {Nothing} \cup SUBSET TreePaths
    BY <1>9 DEF SearchInv, CacheInv
  <2>2. DOMAIN fileTexts[c.root] \subseteq TreePaths
    BY <1>9 DEF SearchInv, CacheInv, TextsTyped
  <2> QED
    BY <1>3, <2>1, <2>2 DEF SearchCandidates, ListEditableFiles
<1>12. /\ todo \in Seq(TreePaths)
       /\ \A i, j \in DOMAIN todo : todo[i] = todo[j] => i = j
  BY <1>4, <1>11, ListedOnce
<1>13. GoodResult(none, c.query) /\ none.files = <<>>
  BY <1>5, <1>9, EmptyIsGood DEF AnyQuery
<1>14. /\ s \in [ root : Roots, query : Queries, canceled : BOOLEAN,
                  todo : Seq(TreePaths), summary : Results ]
       /\ s.query = c.query /\ s.todo = todo /\ s.summary = none
  BY <1>2, <1>6, <1>9, <1>12, <1>13 DEF GoodResult
<1>15. PathsOf(none.files) = {}
  BY <1>13 DEF PathsOf
<1>16. GoodScan(s)
  BY <1>12, <1>13, <1>14, <1>15 DEF GoodScan
<1>17. ASSUME c.id = panel.active PROVE OfPanel(s)
  <2>1. events \in Seq(Events)
    BY DEF SearchInv, PanelPart, EventsInv
  <2>2. ASSUME NEW i \in DOMAIN events PROVE BatchFiles(c.id, events[i]) = <<>>
    <3>1. events[i] \in ToSet(events)
      BY DEF ToSet
    <3>2. events[i].type # "snapshot" => events[i].id # c.id
      BY <1>10, <3>1
    <3> QED
      BY <3>2 DEF BatchFiles
  <2>3. Joined(panel.active, events) = <<>>
    BY <1>17, <2>1, <2>2, JoinedNone
  <2>4. PICK empty : empty = <<>> /\ empty \in Seq(FoundFiles)
    <3>1. <<>> \in Seq(FoundFiles)
      OBVIOUS
    <3> QED
      BY <3>1
  <2>5. Whole = empty /\ none.files = empty
    BY <1>10, <1>13, <1>17, <2>3, <2>4 DEF Whole
  <2>6. empty = empty \o empty
    BY <2>4
  <2>7. EndsWith(none.files, Whole, ~orphan)
    BY <2>4, <2>5, <2>6 DEF EndsWith
  <2> QED
    BY <1>10, <1>14, <1>17, <2>7 DEF OfPanel
<1>18. PanelPart'
  BY <1>7, <1>8, <1>10, <1>16, <1>17, ProceedKeeps DEF SearchInv, CacheInv
<1> QED
  BY <1>7, <1>18, CacheRests DEF SearchInv

-----------------------------------------------------------------------------
(* The invariant holds at the start, and every step keeps it.              *)
LEMMA InitialSearch ==
  ASSUME SearchInit
  PROVE  SearchInv
<1>1. PICK none : none = <<>>
  OBVIOUS
<1>2. /\ scans = none /\ requests = none /\ events = none /\ panel = NewPanel
      /\ fileTexts \in [Roots -> {[p \in TreePaths |-> [q \in Queries |-> 1]]}]
      /\ cache = [r \in Roots |-> IF r = FirstRoot THEN TreePaths ELSE Nothing]
      /\ outside = [r \in Roots |-> FALSE]
  BY <1>1 DEF SearchInit
<1>3. CacheInv
  <2>1. PICK texts : texts = [p \in TreePaths |-> [q \in Queries |-> 1]]
    OBVIOUS
  <2>2. DOMAIN texts = TreePaths /\ \A p \in TreePaths : texts[p] \in [Queries -> Nat]
    BY <2>1
  <2>3. DOMAIN fileTexts = Roots /\ \A r \in Roots : fileTexts[r] = texts
    BY <1>2, <2>1
  <2>4. TextsTyped
    BY <2>2, <2>3 DEF TextsTyped
  <2>5. CacheIsCurrent
    BY <1>2, <2>2, <2>3 DEF CacheIsCurrent, ListEditableFiles
  <2>6. outside \in [Roots -> BOOLEAN]
    BY <1>2
  <2>7. cache \in [Roots -> {Nothing} \cup SUBSET TreePaths]
    BY <1>2
  <2> QED
    BY <2>3, <2>4, <2>5, <2>6, <2>7 DEF CacheInv
<1>4. /\ panel.root = FirstRoot /\ panel.query = Nothing /\ panel.active = 0
      /\ panel.seq = 0 /\ panel.result = NoResult
  BY <1>2 DEF NewPanel
<1>5. PanelInv
  <2>1. NoResult \in Results
    BY EmptyIsGood DEF AnyQuery, NoResult, GoodResult
  <2>2. PICK no \in BOOLEAN : no = FALSE
    OBVIOUS
  <2>3. panel = [ root |-> FirstRoot, query |-> Nothing, active |-> 0, seq |-> 0,
                  loading |-> no, result |-> NoResult ]
    BY <1>2, <2>2 DEF NewPanel
  <2>4. panel \in [ root : Roots, query : AnyQuery, active : Nat, seq : Nat,
                    loading : BOOLEAN, result : Results ]
    BY <2>1, <2>3, SearchAssumption DEF AnyQuery
  <2> QED
    BY <1>4, <2>4, SearchAssumption DEF PanelInv
<1>6. DOMAIN none = {} /\ ToSet(none) = {} /\ none \in Seq(Requests) /\ none \in Seq(Events)
  BY <1>1 DEF ToSet
<1>7. RequestsInv
  BY <1>2, <1>6 DEF RequestsInv, StartedOnce
<1>8. EventsInv
  BY <1>2, <1>6 DEF EventsInv
<1>9. ScansInv
  BY <1>2, <1>6 DEF ScansInv
<1>10. WholeInv
  BY <1>4 DEF WholeInv
<1> QED
  BY <1>3, <1>5, <1>7, <1>8, <1>9, <1>10 DEF SearchInv, PanelPart

LEMMA SearchRests ==
  ASSUME SearchInv, UNCHANGED searchVars
  PROVE  SearchInv'
<1>1. UNCHANGED <<fileTexts, cache, scans, requests, events, panel, outside, orphan>>
  BY DEF searchVars
<1>2. PanelPart'
  BY <1>1, RequestHandled DEF SearchInv, PanelPart, RequestsInv
<1> QED
  BY <1>1, <1>2, CacheRests DEF SearchInv

LEMMA SearchStep ==
  ASSUME SearchInv, [SearchNext]_searchVars
  PROVE  SearchInv'
<1>1. ASSUME Outside PROVE SearchInv'
  BY <1>1, ChangeKeeps, SnapshotKeeps DEF Outside
<1>2. ASSUME SearchUser PROVE SearchInv'
  <2>1. ASSUME UserRunsSearch PROVE SearchInv'
    BY <2>1, RunKeeps DEF UserRunsSearch
  <2> QED
    BY <1>2, <2>1, SetQueryKeeps, CloseKeeps, ReplaceKeeps DEF SearchUser, AnyQuery
<1>3. ASSUME Main PROVE SearchInv'
  BY <1>3, HandleStartKeeps, CancelKeeps, HandleReplaceKeeps, NextChunkKeeps DEF Main
<1>4. ASSUME SearchWindow PROVE SearchInv'
  BY <1>4, SearchEventKeeps, SnapshotArrivesKeeps, ReplaceAnsweredKeeps DEF SearchWindow
<1> QED
  BY <1>1, <1>2, <1>3, <1>4, SearchRests DEF SearchNext

LEMMA SearchInvImplies ==
  ASSUME SearchInv
  PROVE  SearchTellsTruth
<1>1. PanelInv /\ ScansInv /\ CacheInv /\ RequestsInv
  BY DEF SearchInv, PanelPart
<1>2. PICK res : res = panel.result
  OBVIOUS
<1>3. /\ res.total = MatchesIn(res.files) /\ OnePerPath(res.files)
      /\ res # NoResult => /\ res.query = panel.query /\ panel.query \in Queries
                           /\ res.total \in Nat /\ res.total <= MaxMatches
  <2>1. CASE res = NoResult
    BY <2>1, EmptyIsGood DEF AnyQuery, NoResult, GoodResult
  <2>2. CASE res # NoResult
    BY <1>1, <1>2, <2>2 DEF PanelInv, GoodResult, Results
  <2> QED
    BY <2>1, <2>2
<1>4. /\ panel.root \in Roots /\ panel.query \in AnyQuery /\ panel.loading \in BOOLEAN
      /\ panel.active \in 0..panel.seq /\ panel.seq \in 0..MaxSearches
  BY <1>1, SearchAssumption DEF PanelInv
<1>5. SearchTypeOK
  BY <1>1, <1>2, <1>3, <1>4, SearchAssumption
     DEF SearchTypeOK, ScansInv, CacheInv, TextsTyped, AnyQuery
<1>6. ResultIsOfQuery
  BY <1>2, <1>3 DEF ResultIsOfQuery
<1>7. BatchesAddUp
  <2>1. ASSUME panel.active \in DOMAIN scans, ~orphan
        PROVE  panel.result.files \o Joined(panel.active, events)
                 = scans[panel.active].summary.files
    <3>1. OfPanel(scans[panel.active])
      BY <1>1, <2>1 DEF ScansInv
    <3>2. PICK files : files = scans[panel.active].summary.files
      OBVIOUS
    <3>3. PICK before : files = before \o Whole /\ before = <<>>
      BY <2>1, <3>1, <3>2 DEF OfPanel, EndsWith
    <3>4. Whole \in Seq(FoundFiles)
      <4>1. PanelTyped /\ events \in Seq(Events)
        BY DEF SearchInv, PanelPart, PanelInv, PanelTyped, EventsInv
      <4>2. panel.result.files \in Seq(FoundFiles)
        BY <4>1 DEF PanelTyped, Results
      <4>3. Joined(panel.active, events) \in Seq(FoundFiles)
        <5>1. BatchesTyped(panel.active, events)
          BY <4>1, EventsTyped
        <5>2. PICK f : /\ Joined(panel.active, events) = f[Len(events)]
                       /\ \A i \in 0..Len(events) : f[i] \in Seq(FoundFiles)
          BY <4>1, <5>1, JoinedSteps
        <5>3. Len(events) \in 0..Len(events)
          BY <4>1
        <5> QED
          BY <5>2, <5>3
      <4> QED
        BY <4>2, <4>3 DEF Whole
    <3>5. files = Whole
      BY <3>3, <3>4
    <3> QED
      BY <3>2, <3>5 DEF Whole
  <2> QED
    BY <1>2, <1>3, <2>1 DEF BatchesAddUp, OnePerPath
<1> QED
  BY <1>1, <1>5, <1>6, <1>7 DEF SearchTellsTruth, CacheInv

LEMMA SearchHolds == SearchSpec => []SearchInv
<1>1. SearchInit => SearchInv
  BY InitialSearch
<1>2. SearchInv /\ [SearchNext]_searchVars => SearchInv'
  BY SearchStep
<1> QED
  BY <1>1, <1>2, PTL DEF SearchSpec

(* Whatever the user, the files and the other programs do, what the panel  *)
(* shows is what the running search found, for the query in the panel.     *)
THEOREM SearchAlwaysTellsTruth == SearchSpec => []SearchTellsTruth
<1>1. SearchInv => SearchTellsTruth
  BY SearchInvImplies
<1> QED
  BY <1>1, SearchHolds, PTL

-----------------------------------------------------------------------------
(* A replacement.                                                          *)
ShownIsWritten ==
  requests # <<>> /\ Head(requests).type = "replace" /\ requests' = Tail(requests) =>
    LET c == Head(requests) IN
    \A p \in DOMAIN fileTexts[c.root] :
      fileTexts'[c.root][p] # fileTexts[c.root][p] =>
        \E i \in DOMAIN c.files :
          /\ c.files[i].path = p /\ c.files[i].text = fileTexts[c.root][p]
          /\ fileTexts[c.root][p][c.query] >= c.files[i].n

LEMMA ReplacementBacked ==
  ASSUME SearchInv, HandleReplace
  PROVE  ShownIsWritten
<1>1. PICK c : c = Head(requests)
  OBVIOUS
<1>2. PICK r : r = c.root
  OBVIOUS
<1>3. requests # <<>> /\ c.type = "replace"
  BY <1>1 DEF HandleReplace
<1>4. c \in Requests /\ c \in ToSet(requests)
  BY <1>1, <1>3, RequestTaken DEF SearchInv, PanelPart, RequestsInv
<1>5. r \in Roots /\ c.query \in Queries /\ c.files \in Seq(FoundFiles)
  BY <1>2, <1>3, <1>4 DEF Requests
<1>6. Backed(c.files, c.query)
  BY <1>3, <1>4 DEF SearchInv, PanelPart, RequestsInv, RequestOK
<1>7. /\ DOMAIN fileTexts = Roots
      /\ \A p \in DOMAIN fileTexts[r] : fileTexts[r][p] \in [Queries -> Nat]
  BY <1>5 DEF SearchInv, CacheInv, TextsTyped
<1> DEFINE taken(p) == {i \in Replaced(c) : c.files[i].path = p}
           text(p) == IF taken(p) = {} THEN fileTexts[r][p]
                      ELSE ApplyMatchReplacements(fileTexts[r][p], c.query, c.by,
                             c.files[CHOOSE i \in taken(p) : TRUE].n)
<1>8. fileTexts' = [fileTexts EXCEPT ![r] = [p \in DOMAIN fileTexts[r] |-> text(p)]]
  BY <1>1, <1>2 DEF HandleReplace
<1>9. \A p \in DOMAIN fileTexts[r] : fileTexts'[r][p] = text(p)
  <2> HIDE DEF text
  <2> QED
    BY <1>5, <1>7, <1>8
<1>10. ASSUME NEW p \in DOMAIN fileTexts[r], fileTexts'[r][p] # fileTexts[r][p]
       PROVE  \E i \in DOMAIN c.files :
                /\ c.files[i].path = p /\ c.files[i].text = fileTexts[r][p]
                /\ fileTexts[r][p][c.query] >= c.files[i].n
  <2>1. PICK i : i \in taken(p)
    BY <1>9, <1>10
  <2>2. /\ i \in DOMAIN c.files /\ c.files[i].path = p
        /\ fileTexts[r][p] = c.files[i].text
    BY <1>2, <2>1 DEF Replaced, SameHash
  <2>3. c.files[i] \in FoundFiles
    BY <1>5, <2>2
  <2>4. c.files[i].n \in Nat /\ fileTexts[r][p][c.query] \in Nat
    BY <1>5, <1>7, <2>3 DEF FoundFiles
  <2>5. c.files[i].n <= fileTexts[r][p][c.query]
    BY <1>6, <2>2 DEF Backed
  <2> QED
    BY <2>2, <2>4, <2>5
<1> QED
  BY <1>1, <1>2, <1>10 DEF ShownIsWritten

LEMMA OnlyReplacesWrite ==
  ASSUME SearchInv, [SearchNext]_searchVars
  PROVE  ShownIsWritten
<1>1. ASSUME fileTexts' = fileTexts PROVE ShownIsWritten
  BY <1>1 DEF ShownIsWritten
<1>2. ASSUME requests' = requests PROVE ShownIsWritten
  <2>1. requests \in Seq(Requests)
    BY DEF SearchInv, PanelPart, RequestsInv
  <2>2. requests # <<>> => Len(Tail(requests)) # Len(requests)
    BY <2>1
  <2> QED
    BY <1>2, <2>2 DEF ShownIsWritten
<1>3. ASSUME Outside PROVE ShownIsWritten
  <2>1. requests' = requests
    BY <1>3 DEF Outside, ChangeFile, ChangeFileOutside, Change, TakeSnapshot
  <2> QED
    BY <1>2, <2>1
<1>4. ASSUME SearchUser PROVE ShownIsWritten
  <2>1. fileTexts' = fileTexts
    BY <1>4 DEF SearchUser, SetQuery, CloseProjectSearch, UserRunsSearch,
                ReplaceAllProjectMatches
  <2> QED
    BY <1>1, <2>1
<1>5. ASSUME Main PROVE ShownIsWritten
  <2>1. ASSUME HandleStart \/ HandleCancel \/ \E id \in DOMAIN scans : NextChunk(id)
        PROVE  fileTexts' = fileTexts
    BY <2>1 DEF HandleStart, HandleCancel, NextChunk
  <2> QED
    BY <1>1, <1>5, <2>1, ReplacementBacked DEF Main
<1>6. ASSUME SearchWindow PROVE ShownIsWritten
  <2>1. fileTexts' = fileTexts
    BY <1>6 DEF SearchWindow, SearchEvent, SnapshotArrives, ReplaceAnswered
  <2> QED
    BY <1>1, <2>1
<1>7. ASSUME UNCHANGED searchVars PROVE ShownIsWritten
  BY <1>1, <1>7 DEF searchVars
<1> QED
  BY <1>3, <1>4, <1>5, <1>6, <1>7 DEF SearchNext

(* Only files whose text is the one the panel showed are replaced in, and  *)
(* they hold the matches that are taken from them.                         *)
THEOREM OnlyWhatWasShownIsWritten == SearchSpec => WritesWhatWasShown
<1>1. SearchInv /\ [SearchNext]_searchVars => [ShownIsWritten]_searchVars
  BY OnlyReplacesWrite
<1> QED
  BY <1>1, SearchHolds, PTL DEF SearchSpec, WritesWhatWasShown, ShownIsWritten
==============================================================================
