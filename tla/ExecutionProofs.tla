-------------------------- MODULE ExecutionProofs --------------------------
(***************************************************************************)
(* Proofs about an execution task and about the window that shows it.      *)
(*                                                                         *)
(* ExecutionTask, for any number of calls that share ids.                  *)
(*                                                                         *)
(* The argument: the registry and the children agree, in both directions.  *)
(* A registered call is the one its id names and its child has not been    *)
(* closed; a child that has not been closed is registered and its file is  *)
(* staged.  So whoever finds the id free finds nobody's file.  The kill    *)
(* timers, also those the task object has lost, exist only after a stop.   *)
(* A text that grows keeps its lines and adds those of its rest with what  *)
(* came (GrownLines), so what was sent is always the lines of the whole    *)
(* output as it was received, which differs from the output in characters  *)
(* a chunk ended within (ReceivedGrows); and each step of a call is a step *)
(* of TaskPromise or a stutter.                                            *)
(*                                                                         *)
(* ExecutionWindow, for any tasks, files and length of the event queue.    *)
(*                                                                         *)
(* The argument has two halves.  Whatever the user does, the completed     *)
(* event is the last of its task, so a handler that is over has no event   *)
(* left that could undo its end.  Unless two starts overlapped, the window *)
(* shows a task from the reply of its reset until its end is handled, and  *)
(* both a console's log file and its command belong to that task.          *)
(***************************************************************************)
EXTENDS ExecutionTask, ExecutionWindow, FiniteSetTheorems, SequenceTheorems, TLAPS

LiveStates == {"alive", "exited"}

(* A task object: the fields that decide, whatever its buffer holds.       *)
TaskObjects(buffer) ==
  [ stopped : BOOLEAN, stops : 0..MaxStops, killTimer : BOOLEAN, lostTimers : Nat,
    killed : BOOLEAN, buffer : {buffer} ]

IsTask(r) == r \in TaskObjects(r.buffer)

(* Timers and kills only follow a stop.                                    *)
OnlyAfterStop(r) == r.killTimer \/ r.lostTimers > 0 \/ r.killed => r.stopped

GoodTask(r) == IsTask(r) /\ OnlyAfterStop(r)

(* The registry, the staged files and the children.                        *)
RegistryInv ==
  /\ running \in [Ids -> Calls \union {NoCall}]
  /\ staged \in [Ids -> Calls \union {NoCall}]
  /\ child \in [Calls -> {"none", "refused", "alive", "exited", "closed"}]
  /\ \A i \in Ids : running[i] # NoCall =>
       IdOf[running[i]] = i /\ child[running[i]] \in LiveStates
  /\ StagedFileIsOwn

TasksInv == DOMAIN task = Calls /\ \A c \in Calls : GoodTask(task[c])

(* The inductive form of TaskKeepsToItself.                                *)
TaskInv == RegistryInv /\ TasksInv

LEMMA TasksUntouched ==
  ASSUME TasksInv, UNCHANGED task PROVE TasksInv'
  BY DEF TasksInv

LEMMA RegistryUntouched ==
  ASSUME RegistryInv, UNCHANGED <<running, staged, child>> PROVE RegistryInv'
  BY DEF RegistryInv, StagedFileIsOwn

(* One task object is replaced by a good one.                              *)
LEMMA ReplaceTask ==
  ASSUME TasksInv, NEW c \in Calls, NEW r, GoodTask(r), task' = [task EXCEPT ![c] = r]
  PROVE  TasksInv'
  BY DEF TasksInv

LEMMA StartKeeps ==
  ASSUME TaskInv, NEW c \in Calls, Start(c)
  PROVE  TaskInv'
<1>1. TasksInv'
  BY TasksUntouched DEF TaskInv, Start
<1>2. IdOf[c] \in Ids /\ c # NoCall
  BY CallsAssumption
<1>3. RegistryInv'
  BY <1>2, CallsAssumption DEF TaskInv, RegistryInv, StagedFileIsOwn, Start, LiveStates
<1> QED
  BY <1>1, <1>3 DEF TaskInv

LEMMA RefuseKeeps ==
  ASSUME TaskInv, NEW c \in Calls, Refuse(c) \/ FailToStart(c)
  PROVE  TaskInv'
<1>1. TasksInv'
  BY TasksUntouched DEF TaskInv, Refuse, FailToStart
<1>2. /\ child[c] = "none" /\ child' = [child EXCEPT ![c] = "refused"]
      /\ UNCHANGED running
  BY DEF Refuse, FailToStart
<1>3. /\ staged' \in [Ids -> Calls \union {NoCall}]
      /\ staged' = staged \/ (running[IdOf[c]] = NoCall /\
                              \A i \in Ids : i # IdOf[c] => staged'[i] = staged[i])
  BY CallsAssumption DEF TaskInv, RegistryInv, Refuse, FailToStart
<1>4. RegistryInv'
  <2>1. \A d \in Calls : child'[d] \in LiveStates => child[d] \in LiveStates /\ d # c
    BY <1>2 DEF TaskInv, RegistryInv, LiveStates
  <2>2. ASSUME NEW d \in Calls, child'[d] \in LiveStates
        PROVE running'[IdOf[d]] = d /\ staged'[IdOf[d]] = d
    <3>1. running[IdOf[d]] = d /\ staged[IdOf[d]] = d /\ IdOf[d] \in Ids /\ d # NoCall
      BY <2>1, <2>2, CallsAssumption DEF TaskInv, RegistryInv, StagedFileIsOwn, LiveStates
    <3> QED
      BY <1>2, <1>3, <3>1
  <2>3. \A i \in Ids : running'[i] # NoCall =>
          IdOf[running'[i]] = i /\ child'[running'[i]] \in LiveStates
    BY <1>2 DEF TaskInv, RegistryInv, LiveStates
  <2> QED
    BY <1>2, <1>3, <2>2, <2>3 DEF TaskInv, RegistryInv, StagedFileIsOwn, LiveStates
<1> QED
  BY <1>1, <1>4 DEF TaskInv

LEMMA CloseKeeps ==
  ASSUME TaskInv, NEW c \in Calls, Close(c)
  PROVE  TaskInv'
<1>1. TasksInv'
  <2> DEFINE r == [task[c] EXCEPT !.buffer = <<>>, !.killTimer = FALSE]
  <2>1. GoodTask(task[c])
    BY DEF TaskInv, TasksInv
  <2>2. GoodTask(r)
    <3>1. r \in TaskObjects(<<>>) /\ r.buffer = <<>>
      BY <2>1 DEF GoodTask, IsTask, TaskObjects
    <3>2. /\ r.killTimer = FALSE /\ r.stopped = task[c].stopped
          /\ r.lostTimers = task[c].lostTimers /\ r.killed = task[c].killed
      BY <2>1 DEF GoodTask, IsTask, TaskObjects
    <3> QED
      BY <2>1, <3>1, <3>2 DEF GoodTask, IsTask, OnlyAfterStop
  <2>3. task' = [task EXCEPT ![c] = r]
    BY DEF Close
  <2> HIDE DEF r
  <2> QED
    BY <2>2, <2>3, ReplaceTask DEF TaskInv
<1>2. IdOf[c] \in Ids /\ c # NoCall
  BY CallsAssumption
<1>3. /\ child[c] = "exited" /\ child' = [child EXCEPT ![c] = "closed"]
      /\ running' = [i \in Ids |-> IF running[i] = c THEN NoCall ELSE running[i]]
      /\ staged' = [staged EXCEPT ![IdOf[c]] = NoCall]
  BY DEF Close
<1>4. ASSUME NEW d \in Calls, child'[d] \in LiveStates
      PROVE running'[IdOf[d]] = d /\ staged'[IdOf[d]] = d
  <2>1. d # c /\ child[d] \in LiveStates
    BY <1>3, <1>4 DEF TaskInv, RegistryInv, LiveStates
  <2>2. running[IdOf[d]] = d /\ staged[IdOf[d]] = d /\ IdOf[d] \in Ids
    BY <2>1, CallsAssumption DEF TaskInv, RegistryInv, StagedFileIsOwn, LiveStates
  <2>3. running[IdOf[c]] = c
    BY <1>3 DEF TaskInv, RegistryInv, StagedFileIsOwn
  <2>4. IdOf[d] # IdOf[c]
    BY <2>1, <2>2, <2>3
  <2> QED
    BY <1>3, <2>1, <2>2, <2>4 DEF TaskInv, RegistryInv
<1>5. \A i \in Ids : running'[i] # NoCall =>
        IdOf[running'[i]] = i /\ child'[running'[i]] \in LiveStates
  BY <1>3 DEF TaskInv, RegistryInv, LiveStates
<1>6. RegistryInv'
  <2>1. /\ running' \in [Ids -> Calls \union {NoCall}]
        /\ staged' \in [Ids -> Calls \union {NoCall}]
        /\ child' \in [Calls -> {"none", "refused", "alive", "exited", "closed"}]
    BY <1>2, <1>3 DEF TaskInv, RegistryInv
  <2> QED
    BY <1>4, <1>5, <2>1 DEF RegistryInv, StagedFileIsOwn, LiveStates
<1> QED
  BY <1>1, <1>6 DEF TaskInv

LEMMA ChildExitsKeeps ==
  ASSUME TaskInv, NEW c \in Calls, ChildExits(c)
  PROVE  TaskInv'
<1>1. TasksInv'
  BY TasksUntouched DEF TaskInv, ChildExits
<1>2. RegistryInv'
  BY DEF TaskInv, RegistryInv, StagedFileIsOwn, LiveStates, ChildExits
<1> QED
  BY <1>1, <1>2 DEF TaskInv

LEMMA StdoutChunkKeeps ==
  ASSUME TaskInv, NEW c \in Calls, StdoutChunk(c)
  PROVE  TaskInv'
<1>1. RegistryInv'
  BY RegistryUntouched DEF TaskInv, StdoutChunk
<1>2. PICK rest : task' = [task EXCEPT ![c].buffer = rest]
  BY DEF StdoutChunk
<1>3. TasksInv'
  <2> DEFINE r == [task[c] EXCEPT !.buffer = rest]
  <2>1. GoodTask(task[c])
    BY DEF TaskInv, TasksInv
  <2>2. GoodTask(r)
    BY <2>1 DEF GoodTask, IsTask, TaskObjects, OnlyAfterStop
  <2>3. task' = [task EXCEPT ![c] = r]
    BY <1>2
  <2> HIDE DEF r
  <2> QED
    BY <2>2, <2>3, ReplaceTask DEF TaskInv
<1> QED
  BY <1>1, <1>3 DEF TaskInv

(* A second stop loses the first timer, but only of a task that is stopped. *)
LEMMA StopKeeps ==
  ASSUME TaskInv, NEW i \in Ids, Stop(i)
  PROVE  TaskInv'
<1>1. RegistryInv'
  BY RegistryUntouched DEF TaskInv, Stop
<1>2. PICK c \in Calls : c = running[i]
  BY DEF TaskInv, RegistryInv, Stop
<1>3. TasksInv'
  <2> DEFINE r == [task[c] EXCEPT !.stopped = TRUE, !.stops = @ + 1, !.killTimer = TRUE,
                     !.lostTimers = @ + (IF task[c].killTimer THEN 1 ELSE 0)]
  <2>1. GoodTask(task[c])
    BY DEF TaskInv, TasksInv
  <2>2. task[c].stops < MaxStops
    BY <1>2 DEF Stop
  <2>3. GoodTask(r)
    <3> DEFINE lost == IF task[c].killTimer THEN 1 ELSE 0
    <3>1. task[c].stops + 1 \in 0..MaxStops /\ task[c].lostTimers + lost \in Nat
      BY <2>1, <2>2, CallsAssumption DEF GoodTask, IsTask, TaskObjects
    <3>2. r \in TaskObjects(task[c].buffer) /\ r.buffer = task[c].buffer /\ r.stopped
      BY <2>1, <3>1 DEF GoodTask, IsTask, TaskObjects
    <3> QED
      BY <3>2 DEF GoodTask, IsTask, OnlyAfterStop
  <2>4. task' = [task EXCEPT ![c] = r]
    BY <1>2 DEF Stop
  <2> HIDE DEF r
  <2> QED
    BY <2>3, <2>4, ReplaceTask DEF TaskInv
<1> QED
  BY <1>1, <1>3 DEF TaskInv

(* A timer reaches the child of the task that set it, or nobody.           *)
LEMMA KillTimerKeeps ==
  ASSUME TaskInv, NEW c \in Calls, KillTimerFires(c)
  PROVE  TaskInv'
<1>1. RegistryInv'
  BY RegistryUntouched DEF TaskInv, KillTimerFires
<1>2. \A d \in Calls : GoodTask(task[d])
  BY DEF TaskInv, TasksInv
<1>3. task[c].stopped
  BY <1>2 DEF KillTimerFires, GoodTask, OnlyAfterStop
<1>4. PICK fired : /\ FireTimer(c, fired)
                   /\ \/ fired = [task[c] EXCEPT !.killTimer = FALSE]
                      \/ task[c].lostTimers > 0 /\ fired = [task[c] EXCEPT !.lostTimers = @ - 1]
  BY DEF KillTimerFires
<1>5. GoodTask(fired) /\ fired.stopped
  <2>1. task[c] \in TaskObjects(task[c].buffer)
    BY <1>2 DEF GoodTask, IsTask
  <2>2. CASE fired = [task[c] EXCEPT !.killTimer = FALSE]
    BY <1>3, <2>1, <2>2 DEF GoodTask, IsTask, TaskObjects, OnlyAfterStop
  <2>3. CASE task[c].lostTimers > 0 /\ fired = [task[c] EXCEPT !.lostTimers = @ - 1]
    BY <1>3, <2>1, <2>3 DEF GoodTask, IsTask, TaskObjects, OnlyAfterStop
  <2> QED
    BY <1>4, <2>2, <2>3
<1>6. ASSUME NEW d \in Calls PROVE GoodTask(task'[d])
  <2> DEFINE r == IF d = c THEN fired ELSE task[d]
             hit == d \in KillTargets(c)
  <2>1. task'[d] = [r EXCEPT !.killed = @ \/ hit]
    BY <1>4 DEF FireTimer
  <2>2. GoodTask(r) /\ (hit => r.stopped) /\ hit \in BOOLEAN
    BY <1>2, <1>5 DEF KillTargets
  <2> HIDE DEF r, hit
  <2>3. /\ task'[d] \in TaskObjects(r.buffer) /\ task'[d].buffer = r.buffer
        /\ task'[d].killed = (r.killed \/ hit) /\ task'[d].stopped = r.stopped
        /\ task'[d].killTimer = r.killTimer /\ task'[d].lostTimers = r.lostTimers
    BY <2>1, <2>2 DEF GoodTask, IsTask, TaskObjects
  <2> QED
    BY <2>2, <2>3 DEF GoodTask, IsTask, OnlyAfterStop
<1>7. DOMAIN task' = Calls
  BY <1>4 DEF FireTimer
<1> QED
  BY <1>1, <1>6, <1>7 DEF TaskInv, TasksInv

LEMMA TaskStep ==
  ASSUME TaskInv, [TaskNext]_taskVars
  PROVE  TaskInv'
<1>1. ASSUME NEW c \in Calls, CallStep(c) PROVE TaskInv'
  BY <1>1, StartKeeps, RefuseKeeps, CloseKeeps, ChildExitsKeeps, StdoutChunkKeeps,
     KillTimerKeeps DEF CallStep
<1>2. ASSUME NEW i \in Ids, Stop(i) PROVE TaskInv'
  BY <1>2, StopKeeps
<1>3. CASE UNCHANGED taskVars
  BY <1>3, TasksUntouched, RegistryUntouched DEF TaskInv, taskVars
<1> QED
  BY <1>1, <1>2, <1>3 DEF TaskNext

LEMMA TaskStarts ==
  ASSUME TaskInit PROVE TaskInv
<1>1. GoodTask(NewTask)
  BY CallsAssumption DEF GoodTask, IsTask, TaskObjects, OnlyAfterStop, NewTask
<1>2. TasksInv
  BY <1>1 DEF TaskInit, TasksInv
<1>3. RegistryInv
  BY DEF TaskInit, RegistryInv, StagedFileIsOwn, LiveStates
<1> QED
  BY <1>2, <1>3 DEF TaskInv

LEMMA TaskInvariant == TaskSpec => []TaskInv
  BY TaskStarts, TaskStep, PTL DEF TaskSpec

(* Calls that share a task id never touch one another's run: a child keeps *)
(* the file it was started on until its own close event, and only the      *)
(* child of a task the user stopped is killed, by whichever timer.         *)
THEOREM TasksKeepApart == TaskSpec => []TaskKeepsToItself
<1>1. TaskInv => TaskKeepsToItself
  <2>1. ASSUME TaskInv PROVE TaskTypeOK
    BY <2>1 DEF TaskInv, RegistryInv, TasksInv, GoodTask, IsTask, TaskObjects, TaskTypeOK
  <2>2. ASSUME TaskInv PROVE StagedFileIsOwn /\ KillsOnlyStopped
    BY <2>2 DEF TaskInv, RegistryInv, TasksInv, GoodTask, OnlyAfterStop, KillsOnlyStopped
  <2> QED
    BY <2>1, <2>2 DEF TaskKeepsToItself
<1> QED
  BY <1>1, TaskInvariant, PTL

-----------------------------------------------------------------------------
(* Lines.                                                                  *)

(* How many line ends there are up to a position.                          *)
LineCount(text) == Cardinality(LineEnds(text))
Rank(text, i) == Cardinality(LineEnds(text) \cap 1..i)

LEMMA EndsFinite ==
  ASSUME NEW S, NEW text \in Seq(S)
  PROVE  /\ LineEnds(text) \subseteq 1..Len(text) /\ IsFiniteSet(LineEnds(text))
         /\ LineCount(text) \in Nat /\ Len(text) \in Nat
<1>1. LineEnds(text) \in SUBSET (1..Len(text)) /\ Len(text) \in Nat
  BY DEF LineEnds
<1>2. IsFiniteSet(1..Len(text))
  BY <1>1, FS_Interval
<1> QED
  BY <1>1, <1>2, FS_Subset, FS_CardinalityType DEF LineCount

LEMMA RankGrows ==
  ASSUME NEW S, NEW text \in Seq(S), NEW i \in Nat
  PROVE  /\ Rank(text, i) \in 0..LineCount(text)
         /\ \A j \in LineEnds(text) : i < j => Rank(text, i) < Rank(text, j)
<1>1. \A j \in Nat : /\ IsFiniteSet(LineEnds(text) \cap 1..j)
                     /\ Rank(text, j) \in Nat /\ Rank(text, j) <= LineCount(text)
  BY EndsFinite, FS_Subset, FS_CardinalityType DEF Rank, LineCount
<1>2. ASSUME NEW j \in LineEnds(text), i < j PROVE Rank(text, i) < Rank(text, j)
  <2> DEFINE A == LineEnds(text) \cap 1..i
             B == LineEnds(text) \cap 1..j
  <2>1. j \in Nat /\ j \in 1..j
    BY EndsFinite
  <2>2. A \in SUBSET B /\ j \in B /\ j \notin A
    BY <1>2, <2>1
  <2>3. Cardinality(A) <= Cardinality(B) /\ Cardinality(A) # Cardinality(B)
    BY <1>1, <2>1, <2>2, FS_Subset
  <2>4. Cardinality(A) \in Nat /\ Cardinality(B) \in Nat
    BY <1>1, <2>1 DEF Rank
  <2> QED
    BY <2>3, <2>4 DEF Rank
<1>3. Rank(text, i) \in 0..LineCount(text)
  <2>1. Rank(text, i) \in Nat /\ Rank(text, i) <= LineCount(text)
    BY <1>1
  <2>2. LineCount(text) \in Nat
    BY EndsFinite
  <2> QED
    BY <2>1, <2>2
<1> QED
  BY <1>2, <1>3

LEMMA EndOfRank ==
  ASSUME NEW S, NEW text \in Seq(S), NEW i \in LineEnds(text)
  PROVE  Rank(text, i) # 0 /\ LineEnd(text, Rank(text, i)) = i
<1>1. i \in Nat \ {0}
  BY EndsFinite
<1>2. Rank(text, 0) >= 0 /\ Rank(text, 0) < Rank(text, i) /\ Rank(text, i) \in Nat /\ Rank(text, 0) \in Nat
  BY <1>1, RankGrows
<1>3. \A j \in LineEnds(text) : Rank(text, j) = Rank(text, i) => j = i
  <2>1. SUFFICES ASSUME NEW j \in LineEnds(text), Rank(text, j) = Rank(text, i), j # i PROVE FALSE
    OBVIOUS
  <2>2. j \in Nat
    BY EndsFinite
  <2>3. i < j \/ j < i
    BY <1>1, <2>1, <2>2
  <2> QED
    BY <1>1, <1>2, <2>1, <2>2, <2>3, RankGrows
<1> QED
  BY <1>2, <1>3 DEF LineEnd, Rank

(* Each line but the last has an end.                                      *)
LEMMA EndIsRanked ==
  ASSUME NEW S, NEW text \in Seq(S), NEW k \in 1..LineCount(text)
  PROVE  LineEnd(text, k) \in LineEnds(text) /\ Rank(text, LineEnd(text, k)) = k
<1> DEFINE A == LineEnds(text)
           n == LineCount(text)
           f == [i \in A |-> Rank(text, i)]
<1>1. IsFiniteSet(A) /\ n \in Nat /\ A \subseteq Nat /\ Cardinality(A) = n
  BY EndsFinite DEF LineCount
<1>2. IsFiniteSet(1..n) /\ Cardinality(1..n) = n
  BY <1>1, FS_Interval
<1>3. f \in Injection(A, 1..n)
  <2>1. ASSUME NEW i \in A PROVE f[i] \in 1..n
    BY <1>1, RankGrows, EndOfRank
  <2>2. ASSUME NEW i \in A, NEW j \in A, f[i] = f[j] PROVE i = j
    BY <2>2, EndOfRank
  <2> QED
    BY <2>1, <2>2 DEF Injection, IsInjective
<1>4. f \in Surjection(A, 1..n)
  BY <1>1, <1>2, <1>3, FS_Injection
<1>5. PICK i \in A : f[i] = k
  BY <1>4 DEF Surjection
<1> QED
  BY <1>5, EndOfRank

LEMMA EndsInOrder ==
  ASSUME NEW S, NEW text \in Seq(S), NEW k \in 0..LineCount(text)
  PROVE  /\ LineEnd(text, k) \in 0..Len(text)
         /\ \A l \in 0..LineCount(text) : k < l => LineEnd(text, k) < LineEnd(text, l)
<1>1. \A l \in 0..LineCount(text) :
        /\ l = 0 => LineEnd(text, l) = 0
        /\ l > 0 => LineEnd(text, l) \in LineEnds(text) /\ Rank(text, LineEnd(text, l)) = l
  <2>1. SUFFICES ASSUME NEW l \in 0..LineCount(text), l > 0
                 PROVE  LineEnd(text, l) \in LineEnds(text) /\ Rank(text, LineEnd(text, l)) = l
    BY DEF LineEnd
  <2>2. l \in 1..LineCount(text)
    BY <2>1, EndsFinite
  <2> QED
    BY <2>2, EndIsRanked
<1>2. LineEnds(text) \subseteq 1..Len(text) /\ Len(text) \in Nat /\ LineCount(text) \in Nat
  BY EndsFinite
<1>3. ASSUME NEW l \in 0..LineCount(text), k < l PROVE LineEnd(text, k) < LineEnd(text, l)
  <2> DEFINE a == LineEnd(text, k)
             b == LineEnd(text, l)
  <2>1. b \in LineEnds(text) /\ Rank(text, b) = l /\ b \in Nat /\ b > 0
    BY <1>1, <1>2, <1>3
  <2>2. CASE k = 0
    BY <1>1, <2>1, <2>2
  <2>3. CASE k > 0
    <3>1. a \in LineEnds(text) /\ Rank(text, a) = k /\ a \in Nat
      BY <1>1, <1>2, <2>3
    <3>2. ~(b < a) /\ b # a
      <4>1. b < a => Rank(text, b) < Rank(text, a)
        BY <2>1, <3>1, RankGrows
      <4> QED
        BY <1>2, <1>3, <2>1, <3>1, <4>1
    <3> QED
      BY <2>1, <3>1, <3>2
  <2> QED
    BY <1>2, <2>2, <2>3
<1> QED
  BY <1>1, <1>2, <1>3

LEMMA LinesTyped ==
  ASSUME NEW S, NEW text \in Seq(S)
  PROVE  /\ SplitLines(text).lines \in Seq(Seq(S)) /\ SplitLines(text).rest \in Seq(S)
         /\ Len(SplitLines(text).lines) = LineCount(text)
<1> DEFINE n == LineCount(text)
<1>1. n \in Nat /\ Len(text) \in Nat
  BY EndsFinite
<1>2. \A k \in 0..n : LineEnd(text, k) \in 0..Len(text)
  BY EndsInOrder
<1>3. ASSUME NEW k \in 1..n PROVE Line(text, k) \in Seq(S)
  <2> DEFINE a == LineEnd(text, k - 1)
             b == LineEnd(text, k)
             line == SubSeq(text, a + 1, b - 1)
  <2>1. a \in 0..Len(text) /\ b \in 0..Len(text)
    BY <1>1, <1>2
  <2> HIDE DEF a, b
  <2>2. line \in Seq(S)
    BY <1>1, <2>1, SubSeqProperties
  <2> HIDE DEF line
  <2>3. line # <<>> => Front(line) \in Seq(S)
    BY <2>2, EmptySeq DEF Front
  <2>4. Line(text, k) = WithoutReturn(line)
    BY DEF Line, line, a, b
  <2> QED
    BY <2>2, <2>3, <2>4 DEF WithoutReturn
<1>4. LineEnd(text, n) + 1 \in 1..Len(text) + 1
  BY <1>1, <1>2
<1>5. SubSeq(text, LineEnd(text, n) + 1, Len(text)) \in Seq(S)
  <2> DEFINE a == LineEnd(text, n) + 1
  <2>1. a \in Nat \ {0}
    BY <1>1, <1>4
  <2> HIDE DEF a
  <2> QED
    BY <1>1, <1>4, <2>1, SubSeqProperties DEF a
<1>6. SplitLines(text) = [lines |-> [k \in 1..n |-> Line(text, k)],
                          rest |-> SubSeq(text, LineEnd(text, n) + 1, Len(text))]
  BY DEF SplitLines, LineCount
<1>7. [k \in 1..n |-> Line(text, k)] \in Seq(Seq(S))
  BY <1>1, <1>3, IsASeq
<1>8. Len([k \in 1..n |-> Line(text, k)]) = n
  BY <1>1
<1>9. SplitLines(text).lines = [k \in 1..n |-> Line(text, k)]
  BY <1>6
<1>10. SplitLines(text).rest = SubSeq(text, LineEnd(text, n) + 1, Len(text))
  BY DEF SplitLines, LineCount
<1> QED
  BY <1>5, <1>7, <1>8, <1>9, <1>10

(* Where the rest of a text begins, and how it continues.                  *)
Begin(text) == LineEnd(text, LineCount(text))

LEMMA RestFacts ==
  ASSUME NEW S, NEW text \in Seq(S)
  PROVE  /\ Begin(text) \in 0..Len(text) /\ LineEnds(text) \subseteq 1..Begin(text)
         /\ LineCount(text) = Rank(text, Begin(text))
         /\ SplitLines(text).rest = SubSeq(text, Begin(text) + 1, Len(text))
         /\ Len(SplitLines(text).rest) = Len(text) - Begin(text)
         /\ \A i \in 1..(Len(text) - Begin(text)) :
              SplitLines(text).rest[i] = text[Begin(text) + i]
<1> DEFINE n == LineCount(text)
           m == Begin(text)
<1>1. n \in Nat /\ Len(text) \in Nat /\ LineEnds(text) \subseteq 1..Len(text)
  BY EndsFinite
<1>2. m \in 0..Len(text)
  BY <1>1, EndsInOrder DEF Begin
<1>3. ASSUME NEW i \in LineEnds(text) PROVE i \in 1..m
  <2> DEFINE k == Rank(text, i)
  <2>1. LineEnd(text, k) = i /\ k \in 0..n
    BY <1>1, EndOfRank, RankGrows
  <2>2. k = n \/ k < n
    BY <1>1, <2>1
  <2>3. k < n => LineEnd(text, k) < LineEnd(text, n)
    BY <1>1, <2>1, EndsInOrder
  <2> HIDE DEF k
  <2>4. i <= m
    BY <1>1, <1>2, <2>1, <2>2, <2>3 DEF Begin
  <2> QED
    BY <1>1, <1>2, <2>4
<1>4. LineEnds(text) \cap 1..m = LineEnds(text)
  BY <1>3
<1>5. SplitLines(text).rest = SubSeq(text, m + 1, Len(text))
  BY DEF SplitLines, Begin, LineCount
<1>6. /\ Len(SubSeq(text, m + 1, Len(text))) = Len(text) - m
      /\ \A i \in 1..(Len(text) - m) : SubSeq(text, m + 1, Len(text))[i] = text[m + i]
  <2> HIDE DEF m
  <2>1. \A i \in m + 1 .. Len(text) : text[i] \in S
    BY <1>1, <1>2
  <2>2. /\ Len(SubSeq(text, m + 1, Len(text))) = IF m + 1 <= Len(text) THEN Len(text) - (m + 1) + 1 ELSE 0
        /\ \A i \in 1..(Len(text) - (m + 1) + 1) : SubSeq(text, m + 1, Len(text))[i] = text[m + 1 + i - 1]
    BY <1>1, <1>2, <2>1, SubSeqProperties
  <2> QED
    BY <1>1, <1>2, <2>2
<1> QED
  BY <1>2, <1>3, <1>4, <1>5, <1>6 DEF Rank, LineCount

LEMMA ShiftedCardinality ==
  ASSUME NEW A \in SUBSET Nat, IsFiniteSet(A), NEW m \in Nat
  PROVE  IsFiniteSet({m + i : i \in A}) /\ Cardinality({m + i : i \in A}) = Cardinality(A)
<1> DEFINE B == {m + i : i \in A}
           f == [i \in A |-> m + i]
<1>1. f \in Bijection(A, B)
  <2>1. f \in [A -> B] /\ \A b \in B : \E a \in A : f[a] = b
    OBVIOUS
  <2>2. \A a, b \in A : f[a] = f[b] => a = b
    OBVIOUS
  <2> QED
    BY <2>1, <2>2 DEF Bijection, Injection, IsInjective, Surjection
<1>2. ExistsBijection(A, B)
  BY <1>1 DEF ExistsBijection
<1> QED
  BY <1>2, FS_Bijection

(* A text grows: what is added continues its rest.                         *)
Continues(old, b, t) ==
  /\ Len(t) = Begin(old) + Len(b)
  /\ \A i \in 1..Begin(old) : t[i] = old[i]
  /\ \A i \in 1..Len(b) : t[Begin(old) + i] = b[i]

LEMMA GrownText ==
  ASSUME NEW S, NEW old \in Seq(S), NEW new \in Seq(S)
  PROVE  /\ SplitLines(old).rest \o new \in Seq(S) /\ old \o new \in Seq(S)
         /\ Continues(old, SplitLines(old).rest \o new, old \o new)
<1> DEFINE m == Begin(old)
           r == SplitLines(old).rest
           b == r \o new
           t == old \o new
<1>1. /\ r \in Seq(S) /\ Len(r) = Len(old) - m /\ m \in 0..Len(old)
      /\ \A i \in 1..(Len(old) - m) : r[i] = old[m + i]
  BY RestFacts, LinesTyped
<1>2. Len(old) \in Nat /\ Len(new) \in Nat /\ Len(r) \in Nat
  BY <1>1
<1> HIDE DEF m, r
<1>3. b \in Seq(S) /\ t \in Seq(S) /\ Len(b) = Len(r) + Len(new) /\ Len(t) = Len(old) + Len(new)
  BY <1>1, ConcatProperties
<1>4. /\ \A i \in 1..Len(t) : t[i] = IF i <= Len(old) THEN old[i] ELSE new[i - Len(old)]
      /\ \A i \in 1..Len(b) : b[i] = IF i <= Len(r) THEN r[i] ELSE new[i - Len(r)]
  BY <1>1, <1>3, ConcatProperties
<1> HIDE DEF b, t
<1>5. \A i \in 1..m : t[i] = old[i]
  BY <1>1, <1>2, <1>3, <1>4
<1>6. ASSUME NEW i \in 1..Len(b) PROVE t[m + i] = b[i]
  <2>1. m + i \in 1..Len(t)
    BY <1>1, <1>2, <1>3
  <2>2. CASE i <= Len(r)
    <3>1. b[i] = r[i] /\ r[i] = old[m + i]
      BY <1>1, <1>2, <1>4, <2>2
    <3>2. m + i <= Len(old)
      BY <1>1, <1>2, <2>2
    <3> QED
      BY <1>4, <2>1, <3>1, <3>2
  <2>3. CASE i > Len(r)
    <3>1. b[i] = new[i - Len(r)]
      BY <1>2, <1>4, <2>3
    <3>2. ~(m + i <= Len(old)) /\ (m + i) - Len(old) = i - Len(r)
      BY <1>1, <1>2, <2>3
    <3>3. t[m + i] = new[(m + i) - Len(old)]
      BY <1>4, <2>1, <3>2
    <3> QED
      BY <3>1, <3>2, <3>3
  <2> QED
    BY <1>2, <1>3, <2>2, <2>3
<1>7. Len(t) = m + Len(b)
  BY <1>1, <1>2, <1>3
<1> QED
  BY <1>3, <1>5, <1>6, <1>7 DEF Continues, m, b, t, r

(* The line ends are then the old ones and those of the rest.              *)
LEMMA GrownEnds ==
  ASSUME NEW S, NEW old \in Seq(S), NEW b \in Seq(S), NEW t \in Seq(S), Continues(old, b, t)
  PROVE  /\ LineCount(t) = LineCount(old) + LineCount(b)
         /\ \A k \in 0..LineCount(old) : LineEnd(t, k) = LineEnd(old, k)
         /\ \A k \in 0..LineCount(b) :
              LineEnd(t, LineCount(old) + k) = Begin(old) + LineEnd(b, k)
<1> DEFINE m == Begin(old)
           n == LineCount(old)
           Shifted(A) == {m + i : i \in A}
<1>1. /\ Len(t) = m + Len(b)
      /\ \A i \in 1..m : t[i] = old[i]
      /\ \A i \in 1..Len(b) : t[m + i] = b[i]
  BY DEF Continues
<1>2. /\ m \in 0..Len(old) /\ LineEnds(old) \subseteq 1..m /\ n = Rank(old, m) /\ n \in Nat
      /\ m \in Nat /\ Len(old) \in Nat
  BY RestFacts, EndsFinite
<1> HIDE DEF m, n
<1>3. /\ Len(b) \in Nat /\ LineEnds(b) \subseteq 1..Len(b) /\ LineCount(b) \in Nat
      /\ Len(t) \in Nat /\ LineEnds(t) \subseteq 1..Len(t)
  BY <1>1, EndsFinite
<1>4. \A i \in 1..m : i \in LineEnds(t) <=> i \in LineEnds(old)
  <2>1. SUFFICES ASSUME NEW i \in 1..m PROVE t[i] = "\n" <=> i \in LineEnds(old)
    <3>1. \A i \in 1..m : i \in 1..Len(t)
      BY <1>1, <1>2, <1>3
    <3> QED
      BY <1>1, <2>1, <3>1 DEF LineEnds
  <2>2. i \in 1..Len(old) /\ t[i] = old[i]
    BY <1>1, <1>2
  <2> QED
    BY <2>2 DEF LineEnds
<1>5. \A i \in 1..Len(b) : m + i \in LineEnds(t) <=> i \in LineEnds(b)
  <2>1. \A i \in 1..Len(b) : m + i \in 1..Len(t)
    BY <1>1, <1>2, <1>3
  <2> QED
    BY <1>1, <2>1 DEF LineEnds
<1>6. ASSUME NEW i \in 0..m PROVE Rank(t, i) = Rank(old, i)
  <2>1. LineEnds(t) \cap 1..i = LineEnds(old) \cap 1..i
    BY <1>2, <1>4
  <2> QED
    BY <2>1 DEF Rank
<1>7. ASSUME NEW i \in 0..Len(b) PROVE Rank(t, m + i) = n + Rank(b, i)
  <2> DEFINE A == LineEnds(old)
             B == LineEnds(b) \cap 1..i
  <2>1. IsFiniteSet(A) /\ Cardinality(A) = n
    BY EndsFinite DEF n, LineCount
  <2>2. IsFiniteSet(LineEnds(b)) /\ B \in SUBSET LineEnds(b) /\ B \in SUBSET Nat
    BY <1>1, <1>3, EndsFinite
  <2>3. IsFiniteSet(B) /\ Cardinality(B) \in Nat
    BY <2>2, FS_Subset, FS_CardinalityType
  <2>4. IsFiniteSet(Shifted(B)) /\ Cardinality(Shifted(B)) = Cardinality(B)
    BY <1>2, <2>2, <2>3, ShiftedCardinality
  <2>5. LineEnds(t) \cap 1..(m + i) = A \cup Shifted(B)
    <3>1. ASSUME NEW j \in LineEnds(t), j \in 1..(m + i) PROVE j \in A \cup Shifted(B)
      <4>1. CASE j <= m
        BY <1>2, <1>4, <3>1, <4>1
      <4>2. CASE j > m
        <5>1. PICK l \in 1..i : j = m + l
          <6>1. j - m \in 1..i /\ j = m + (j - m)
            BY <1>2, <3>1, <4>2
          <6> QED
            BY <6>1
        <5>2. l \in 1..Len(b)
          BY <1>3, <5>1
        <5>3. l \in B
          BY <1>5, <3>1, <5>1, <5>2
        <5> QED
          BY <5>1, <5>3
      <4> QED
        BY <1>2, <3>1, <4>1, <4>2
    <3>2. ASSUME NEW j \in A PROVE j \in LineEnds(t) /\ j \in 1..(m + i)
      BY <1>2, <1>4, <3>2
    <3>3. ASSUME NEW l \in B PROVE m + l \in LineEnds(t) /\ m + l \in 1..(m + i)
      BY <1>2, <1>3, <1>5, <3>3
    <3> QED
      BY <3>1, <3>2, <3>3
  <2>6. A \cap Shifted(B) = {}
    BY <1>2, <1>3
  <2> HIDE DEF A, B, Shifted
  <2>7. Cardinality(A \cup Shifted(B)) = n + Cardinality(B)
    <3>1. Cardinality(A \cup Shifted(B)) =
            Cardinality(A) + Cardinality(Shifted(B)) - Cardinality(A \cap Shifted(B))
      BY <2>1, <2>4, FS_Union
    <3>2. Cardinality(A \cap Shifted(B)) = 0
      BY <2>6, FS_EmptySet
    <3> QED
      BY <1>2, <2>1, <2>3, <2>4, <3>1, <3>2
  <2> QED
    BY <2>5, <2>7 DEF Rank, B
<1>8. LineCount(t) = n + LineCount(b)
  <2>1. LineEnds(t) \cap 1..(m + Len(b)) = LineEnds(t) /\ LineEnds(b) \cap 1..Len(b) = LineEnds(b)
    BY <1>1, <1>3
  <2>2. Len(b) \in 0..Len(b)
    BY <1>3
  <2> QED
    BY <1>7, <2>1, <2>2 DEF Rank, LineCount
<1>9. ASSUME NEW k \in 1..n PROVE LineEnd(t, k) = LineEnd(old, k)
  <2> DEFINE i == LineEnd(old, k)
  <2>1. i \in LineEnds(old) /\ Rank(old, i) = k
    BY EndIsRanked DEF n
  <2> HIDE DEF i
  <2>2. i \in 1..m /\ i \in 0..m
    BY <1>2, <2>1
  <2>3. i \in LineEnds(t) /\ Rank(t, i) = k
    BY <1>4, <1>6, <2>1, <2>2
  <2> QED
    BY <1>1, <2>3, EndOfRank DEF i
<1>10. ASSUME NEW k \in 1..LineCount(b) PROVE LineEnd(t, n + k) = m + LineEnd(b, k)
  <2> DEFINE i == LineEnd(b, k)
  <2>1. i \in LineEnds(b) /\ Rank(b, i) = k
    BY <1>1, EndIsRanked
  <2> HIDE DEF i
  <2>2. i \in 1..Len(b) /\ i \in 0..Len(b)
    BY <1>3, <2>1
  <2>3. m + i \in LineEnds(t) /\ Rank(t, m + i) = n + k
    BY <1>5, <1>7, <2>1, <2>2
  <2> QED
    BY <1>1, <2>3, EndOfRank DEF i
<1>11. LineEnd(t, 0) = 0 /\ LineEnd(old, 0) = 0 /\ LineEnd(b, 0) = 0 /\ m = LineEnd(old, n)
  BY DEF LineEnd, m, n, Begin
<1>12. \A k \in 0..n : LineEnd(t, k) = LineEnd(old, k)
  BY <1>2, <1>9, <1>11
<1>13. \A k \in 0..LineCount(b) : LineEnd(t, n + k) = m + LineEnd(b, k)
  <2>1. LineEnd(t, n) = m /\ n + 0 = n /\ m + 0 = m
    BY <1>2, <1>11, <1>12
  <2> QED
    BY <1>3, <1>10, <1>11, <2>1
<1> QED
  BY <1>8, <1>12, <1>13 DEF m, n

LEMMA SameSubSeq ==
  ASSUME NEW S, NEW s, NEW t, NEW d \in Nat, NEW p \in Nat \ {0}, NEW q \in Nat,
         \A i \in p..q : s[i] \in S /\ t[d + i] = s[i]
  PROVE  SubSeq(t, d + p, d + q) = SubSeq(s, p, q)
<1> DEFINE u == SubSeq(s, p, q)
           v == SubSeq(t, d + p, d + q)
<1>1. /\ u \in Seq(S) /\ Len(u) = IF p <= q THEN q - p + 1 ELSE 0
      /\ \A i \in 1..(q - p + 1) : u[i] = s[p + i - 1]
  BY SubSeqProperties
<1>2. ASSUME NEW i \in (d + p)..(d + q) PROVE t[i] \in S
  <2>1. i - d \in p..q /\ d + (i - d) = i
    OBVIOUS
  <2> QED
    BY <2>1
<1>3. /\ v \in Seq(S) /\ Len(v) = IF d + p <= d + q THEN (d + q) - (d + p) + 1 ELSE 0
      /\ \A i \in 1..((d + q) - (d + p) + 1) : v[i] = t[(d + p) + i - 1]
  <2>1. d + p \in Int /\ d + q \in Int
    OBVIOUS
  <2> QED
    BY <1>2, <2>1, SubSeqProperties
<1>4. Len(u) = Len(v) /\ (d + q) - (d + p) + 1 = q - p + 1
  BY <1>1, <1>3
<1>5. ASSUME NEW i \in 1..Len(u) PROVE u[i] = v[i]
  <2>1. i \in 1..(q - p + 1) /\ i \in 1..((d + q) - (d + p) + 1)
    BY <1>1, <1>5
  <2>2. u[i] = s[p + i - 1] /\ v[i] = t[(d + p) + i - 1]
    BY <1>1, <1>3, <2>1
  <2>3. p + i - 1 \in p..q /\ (d + p) + i - 1 = d + (p + i - 1)
    BY <2>1
  <2> QED
    BY <2>2, <2>3
<1> HIDE DEF u, v
<1> QED
  BY <1>1, <1>3, <1>4, <1>5, SeqEqual DEF u, v

(* So its lines are the old ones and those of the rest.                    *)
LEMMA GrownLines ==
  ASSUME NEW S, NEW old \in Seq(S), NEW b \in Seq(S), NEW t \in Seq(S), Continues(old, b, t)
  PROVE  /\ SplitLines(t).lines = SplitLines(old).lines \o SplitLines(b).lines
         /\ SplitLines(t).rest = SplitLines(b).rest
<1> DEFINE m == Begin(old)
           n == LineCount(old)
           c == LineCount(b)
<1>1. /\ n \in Nat /\ c \in Nat /\ m \in 0..Len(old) /\ m \in Nat
      /\ Len(old) \in Nat /\ Len(b) \in Nat /\ Len(t) \in Nat
  BY EndsFinite, RestFacts
<1>2. /\ LineCount(t) = n + c
      /\ \A k \in 0..n : LineEnd(t, k) = LineEnd(old, k)
      /\ \A k \in 0..c : LineEnd(t, n + k) = m + LineEnd(b, k)
  BY GrownEnds
<1>3. /\ Len(t) = m + Len(b)
      /\ \A i \in 1..m : t[i] = old[i]
      /\ \A i \in 1..Len(b) : t[m + i] = b[i]
  BY DEF Continues
<1>4. /\ \A k \in 0..n : LineEnd(old, k) \in 0..Len(old)
      /\ \A k, l \in 0..n : k < l => LineEnd(old, k) < LineEnd(old, l)
      /\ m = LineEnd(old, n)
  BY EndsInOrder DEF Begin
<1>5. \A k \in 0..c : LineEnd(b, k) \in 0..Len(b)
  BY EndsInOrder
<1> HIDE DEF m, n, c
<1>6. \A i \in 1..Len(old) : old[i] \in S
  BY ElementOfSeq
<1>7. \A i \in 1..Len(b) : b[i] \in S
  BY ElementOfSeq
<1>8. ASSUME NEW k \in 1..n PROVE Line(t, k) = Line(old, k)
  <2>1. PICK a, e \in Nat : /\ a = LineEnd(old, k - 1) /\ e = LineEnd(old, k) /\ e <= m /\ e # 0
                            /\ a = LineEnd(t, k - 1) /\ e = LineEnd(t, k)
    <3>1. k \in 0..n /\ k - 1 \in 0..n /\ n \in 0..n /\ k - 1 < k /\ (k = n \/ k < n)
      BY <1>1
    <3>2. LineEnd(old, k) \in Nat /\ LineEnd(old, k - 1) \in Nat /\ LineEnd(old, k - 1) < LineEnd(old, k)
      BY <1>1, <1>4, <3>1
    <3>3. LineEnd(old, k) <= m
      BY <1>1, <1>4, <3>1
    <3>4. LineEnd(t, k - 1) = LineEnd(old, k - 1) /\ LineEnd(t, k) = LineEnd(old, k)
      BY <1>2, <3>1
    <3>5. LineEnd(old, k) # 0
      BY <3>2
    <3> QED
      BY <3>2, <3>3, <3>4, <3>5
  <2>2. \A i \in (a + 1)..(e - 1) : old[i] \in S /\ t[0 + i] = old[i]
    BY <1>1, <1>3, <1>6, <2>1
  <2>3. a + 1 \in Nat \ {0} /\ e - 1 \in Nat /\ 0 + (a + 1) = a + 1 /\ 0 + (e - 1) = e - 1
    BY <2>1
  <2>4. SubSeq(t, 0 + (a + 1), 0 + (e - 1)) = SubSeq(old, a + 1, e - 1)
    BY <2>2, <2>3, SameSubSeq
  <2>5. SubSeq(t, a + 1, e - 1) = SubSeq(old, a + 1, e - 1)
    BY <2>3, <2>4
  <2> QED
    BY <2>1, <2>5 DEF Line
<1>9. ASSUME NEW k \in 1..c PROVE Line(t, n + k) = Line(b, k)
  <2>1. PICK a, e \in Nat : /\ a = LineEnd(b, k - 1) /\ e = LineEnd(b, k) /\ e <= Len(b) /\ e # 0
                            /\ LineEnd(t, (n + k) - 1) = m + a /\ LineEnd(t, n + k) = m + e
    <3>1. k \in 0..c /\ k - 1 \in 0..c /\ k - 1 < k /\ n + (k - 1) = (n + k) - 1
      BY <1>1
    <3>2. LineEnd(b, k - 1) < LineEnd(b, k)
      BY <3>1, EndsInOrder DEF c
    <3>3. LineEnd(b, k) \in Nat /\ LineEnd(b, k - 1) \in Nat /\ LineEnd(b, k) <= Len(b)
      BY <1>1, <1>5, <3>1
    <3>4. LineEnd(t, n + (k - 1)) = m + LineEnd(b, k - 1) /\ LineEnd(t, n + k) = m + LineEnd(b, k)
      BY <1>2, <3>1
    <3>5. LineEnd(b, k) # 0
      BY <3>2, <3>3
    <3>6. LineEnd(t, (n + k) - 1) = m + LineEnd(b, k - 1)
      BY <3>1, <3>4
    <3> QED
      BY <3>3, <3>4, <3>5, <3>6
  <2>2. ASSUME NEW i \in (a + 1)..(e - 1) PROVE b[i] \in S /\ t[m + i] = b[i]
    <3>1. e <= Len(b) /\ Len(b) \in Nat
      BY <1>1, <2>1
    <3>2. i \in 1..Len(b)
      BY <3>1
    <3> QED
      BY <1>3, <1>7, <3>2
  <2>3. m \in Nat /\ e # 0
    BY <1>1, <2>1
  <2>4. a + 1 \in Nat \ {0} /\ e - 1 \in Nat /\ m + (a + 1) = (m + a) + 1 /\ m + (e - 1) = (m + e) - 1
    BY <2>3
  <2>5. SubSeq(t, m + (a + 1), m + (e - 1)) = SubSeq(b, a + 1, e - 1)
    BY <2>2, <2>3, <2>4, SameSubSeq
  <2>6. SubSeq(t, (m + a) + 1, (m + e) - 1) = SubSeq(b, a + 1, e - 1)
    BY <2>4, <2>5
  <2> QED
    BY <2>1, <2>6 DEF Line
<1>10. SplitLines(t).rest = SplitLines(b).rest
  <2>1. PICK e \in Nat : e = LineEnd(b, c) /\ e <= Len(b) /\ LineEnd(t, n + c) = m + e
    <3>1. c \in 0..c
      BY <1>1
    <3>2. LineEnd(b, c) \in 0..Len(b) /\ LineEnd(t, n + c) = m + LineEnd(b, c)
      BY <1>2, <1>5, <3>1
    <3>3. LineEnd(b, c) \in Nat /\ LineEnd(b, c) <= Len(b)
      BY <1>1, <3>2
    <3> QED
      BY <3>2, <3>3
  <2>2. \A i \in (e + 1)..Len(b) : b[i] \in S /\ t[m + i] = b[i]
    BY <1>1, <1>3, <1>7, <2>1
  <2>3. e + 1 \in Nat \ {0} /\ m + (e + 1) = (m + e) + 1 /\ m \in Nat /\ Len(b) \in Nat
    BY <1>1, <2>1
  <2>4. SubSeq(t, m + (e + 1), m + Len(b)) = SubSeq(b, e + 1, Len(b))
    BY <2>2, <2>3, SameSubSeq
  <2>5. SubSeq(t, (m + e) + 1, Len(t)) = SubSeq(b, e + 1, Len(b))
    BY <1>3, <2>3, <2>4
  <2>6. /\ SplitLines(t).rest = SubSeq(t, LineEnd(t, LineCount(t)) + 1, Len(t))
        /\ SplitLines(b).rest = SubSeq(b, LineEnd(b, c) + 1, Len(b))
    BY RestFacts DEF Begin, c
  <2> QED
    BY <1>2, <2>1, <2>5, <2>6
<1>11. SplitLines(t).lines = SplitLines(old).lines \o SplitLines(b).lines
  <2> DEFINE u == SplitLines(t).lines
             v == SplitLines(old).lines
             w == SplitLines(b).lines
  <2>1. /\ u = [k \in 1..(n + c) |-> Line(t, k)] /\ v = [k \in 1..n |-> Line(old, k)]
        /\ w = [k \in 1..c |-> Line(b, k)]
    BY <1>2 DEF SplitLines, LineCount, n, c
  <2>2. /\ u \in Seq(Seq(S)) /\ v \in Seq(Seq(S)) /\ w \in Seq(Seq(S))
        /\ Len(u) = n + c /\ Len(v) = n /\ Len(w) = c
    BY <1>2, LinesTyped DEF n, c
  <2> HIDE DEF u, v, w
  <2>3. /\ v \o w \in Seq(Seq(S)) /\ Len(v \o w) = n + c
        /\ \A k \in 1..(n + c) : (v \o w)[k] = IF k <= n THEN v[k] ELSE w[k - n]
    BY <2>2, ConcatProperties
  <2>4. ASSUME NEW k \in 1..(n + c) PROVE u[k] = (v \o w)[k]
    <3>1. CASE k <= n
      <4>1. k \in 1..n
        BY <1>1, <3>1
      <4>2. Line(t, k) = Line(old, k)
        BY <1>8, <4>1
      <4>3. (v \o w)[k] = v[k] /\ v[k] = Line(old, k)
        BY <2>1, <2>3, <3>1, <4>1
      <4> QED
        BY <2>1, <4>2, <4>3
    <3>2. CASE ~(k <= n)
      <4>1. k - n \in 1..c /\ n + (k - n) = k
        BY <1>1, <3>2
      <4>2. Line(t, k) = Line(b, k - n)
        BY <1>9, <4>1
      <4> QED
        BY <2>1, <2>3, <3>2, <4>1, <4>2
    <3> QED
      BY <3>1, <3>2
  <2>5. u = v \o w
    BY <2>2, <2>3, <2>4, SeqEqual
  <2> QED
    BY <2>5 DEF u, v, w
<1> QED
  BY <1>10, <1>11

-----------------------------------------------------------------------------
(* What the window was sent.  Chunks are handled one by one, but what was  *)
(* handled is always the lines of the whole output.                        *)
Messages ==
  {[type |-> "started"]}
    \cup [type : {"stdout", "debug-step"}, text : Seq(Characters)]
    \cup [type : {"completed"}, status : {"stopped", "passed", "failed"}]

StartedEvent == <<[type |-> "started"]>>
CompletedEvent(status) == <<[type |-> "completed", status |-> status]>>
TailLines(rest) == IF rest = <<>> THEN <<>> ELSE <<rest>>
StatusOf(stopped) == IF stopped THEN {"stopped"} ELSE {"passed", "failed"}

(* LinesReassembled of one call.                                           *)
Reassembled(state, text, sent, stopped, buffer) ==
  LET whole == SplitLines(text) IN
  /\ state \in {"none", "refused"} => sent = <<>>
  /\ state \in {"alive", "exited"} => sent = StartedEvent \o Handled(whole.lines)
  /\ state = "closed" =>
       \E status \in StatusOf(stopped) :
         sent = (StartedEvent \o Handled(whole.lines)) \o
                  (Handled(TailLines(whole.rest)) \o CompletedEvent(status))
  /\ buffer = IF state = "closed" THEN <<>> ELSE whole.rest

CallReassembled(c) ==
  Reassembled(child[c], Received(output[c], broken[c]), events[c], task[c].stopped, task[c].buffer)

(* Only wide characters are spoilt, and one the output ends within is.     *)
Spoils(text, spoilt) ==
  /\ WellFormed(text)
  /\ spoilt \subseteq {i \in DOMAIN text : text[i] = "lead"}
  /\ BrokenAtEnd(text) \subseteq spoilt

OutputInv ==
  /\ output \in [Calls -> Seq(Bytes)] /\ DOMAIN broken = Calls /\ DOMAIN events = Calls
  /\ \A c \in Calls : child[c] \in {"none", "refused"} => output[c] = <<>>
  /\ \A c \in Calls : Spoils(output[c], broken[c])
  /\ \A c \in Calls : CallReassembled(c)

LEMMA ReassembledCalls ==
  (\A c \in Calls : CallReassembled(c) /\ Spoils(output[c], broken[c])) => LinesReassembled
  BY DEF CallReassembled, Reassembled, LinesReassembled, StartedEvent, CompletedEvent, TailLines,
         StatusOf, Status, Spoils

(* What is received is text again, and of the same length.                 *)
LEMMA ReceivedTyped ==
  ASSUME NEW text \in Seq(Bytes), NEW spoilt
  PROVE  /\ Received(text, spoilt) \in Seq(Characters)
         /\ Len(Received(text, spoilt)) = Len(text)
         /\ \A i \in 1 .. Len(text) : Received(text, spoilt)[i] =
              IF i \in spoilt \/ i - 1 \in spoilt THEN "?" ELSE text[i]
<1> DEFINE n == Len(text)
           heard == [i \in 1 .. n |-> IF i \in spoilt \/ i - 1 \in spoilt THEN "?" ELSE text[i]]
<1>1. n \in Nat /\ DOMAIN text = 1 .. n /\ \A i \in 1 .. n : text[i] \in Bytes
  OBVIOUS
<1>2. Received(text, spoilt) = heard
  BY <1>1 DEF Received
<1> HIDE DEF n
<1>3. heard \in [1 .. n -> Characters]
  BY <1>1 DEF Characters
<1>4. heard \in Seq(Characters) /\ Len(heard) = n
  BY <1>1, <1>3
<1> QED
  BY <1>2, <1>4 DEF n

LEMMA NothingReceived ==
  ASSUME NEW text, text = <<>>, NEW spoilt
  PROVE  Received(text, spoilt) = <<>>
<1>1. text \in Seq(Bytes) /\ Len(text) = 0
  BY EmptySeq
<1> DEFINE heard == Received(text, spoilt)
<1>2. heard \in Seq(Characters) /\ Len(heard) = 0
  BY <1>1, ReceivedTyped
<1> HIDE DEF heard
<1>3. heard = <<>>
  BY <1>2, EmptySeq
<1> QED
  BY <1>3 DEF heard

LEMMA DecodeTyped ==
  ASSUME NEW text \in Seq(Bytes)
  PROVE  /\ Decode(text) \in Seq(Characters) /\ Len(Decode(text)) = Len(text)
         /\ \A i \in 1 .. Len(text) : Decode(text)[i] =
              IF (i = 1 /\ text[i] = "trail") \/ (i = Len(text) /\ text[i] = "lead")
              THEN "?" ELSE text[i]
<1> DEFINE n == Len(text)
           heard == [i \in 1 .. n |->
                       IF (i = 1 /\ text[i] = "trail") \/ (i = n /\ text[i] = "lead")
                       THEN "?" ELSE text[i]]
<1>1. n \in Nat /\ DOMAIN text = 1 .. n /\ \A i \in 1 .. n : text[i] \in Bytes
  OBVIOUS
<1>2. Decode(text) = heard
  BY <1>1 DEF Decode
<1> HIDE DEF n
<1>3. heard \in [1 .. n -> Characters]
  BY <1>1 DEF Characters
<1>4. heard \in Seq(Characters) /\ Len(heard) = n
  BY <1>1, <1>3
<1> QED
  BY <1>2, <1>4 DEF n

(* A chunk decoded alone adds to what was received what it adds to the     *)
(* output, but for the characters it begins or ends within.                *)
LEMMA ReceivedGrows ==
  ASSUME NEW old \in Seq(Bytes), NEW text \in Seq(Bytes), NEW spoilt, text # <<>>,
         Spoils(old, spoilt), WellFormed(old \o text)
  PROVE  /\ Received(old \o text, spoilt \union BrokenAtEnd(old \o text))
               = Received(old, spoilt) \o Decode(text)
         /\ Spoils(old \o text, spoilt \union BrokenAtEnd(old \o text))
<1> DEFINE all == old \o text
           more == spoilt \union BrokenAtEnd(all)
           n == Len(old)
           m == Len(text)
<1>1. /\ n \in Nat /\ m \in Nat /\ m > 0 /\ all \in Seq(Bytes) /\ Len(all) = n + m
      /\ DOMAIN all = 1 .. n + m /\ DOMAIN old = 1 .. n
  <2>1. all \in Seq(Bytes) /\ Len(all) = n + m
    BY ConcatProperties
  <2> QED
    BY <2>1, EmptySeq
<1>2. \A i \in 1 .. n + m : all[i] = IF i <= n THEN old[i] ELSE text[i - n]
  BY ConcatProperties
<1> DEFINE heard == Received(all, more)
           both == Received(old, spoilt) \o Decode(text)
<1>3. /\ heard \in Seq(Characters) /\ Len(heard) = n + m
      /\ \A i \in 1 .. n + m : heard[i] = IF i \in more \/ i - 1 \in more THEN "?" ELSE all[i]
  <2> HIDE DEF all, more
  <2> QED
    BY <1>1, ReceivedTyped
<1>4. /\ both \in Seq(Characters) /\ Len(both) = n + m
      /\ \A i \in 1 .. n + m : both[i] =
           IF i <= n THEN Received(old, spoilt)[i] ELSE Decode(text)[i - n]
  <2>1. /\ Received(old, spoilt) \in Seq(Characters) /\ Len(Received(old, spoilt)) = n
        /\ Decode(text) \in Seq(Characters) /\ Len(Decode(text)) = m
    BY ReceivedTyped, DecodeTyped
  <2> DEFINE u == Received(old, spoilt)
             v == Decode(text)
  <2> HIDE DEF u, v, n, m
  <2>2. /\ u \o v \in Seq(Characters) /\ Len(u \o v) = Len(u) + Len(v)
        /\ \A i \in 1 .. Len(u) + Len(v) : (u \o v)[i] = IF i <= Len(u) THEN u[i] ELSE v[i - Len(u)]
    BY <2>1, ConcatProperties DEF u, v
  <2> QED
    BY <2>1, <2>2 DEF u, v
<1>5. \A i \in more : i \in 1 .. n + m /\ all[i] = "lead" /\ (i \in spoilt \/ i = n + m)
  <2>1. \A i \in spoilt : i \in 1 .. n /\ old[i] = "lead"
    BY <1>1 DEF Spoils
  <2> QED
    BY <1>1, <1>2, <2>1 DEF BrokenAtEnd
<1>6. \A i \in 1 .. n + m : i \in more <=> i \in spoilt \/ (i = n + m /\ all[i] = "lead")
  BY <1>1 DEF BrokenAtEnd
<1>7. \A i \in spoilt : i \in 1 .. n
  BY <1>1 DEF Spoils
<1>8. ASSUME NEW i \in 1 .. n + m, i <= n PROVE heard[i] = both[i]
  <2>1. i \in 1 .. n /\ i # n + m /\ i - 1 # n + m
    BY <1>1, <1>8
  <2>2. (i \in more <=> i \in spoilt) /\ (i - 1 \in more <=> i - 1 \in spoilt)
    BY <1>5, <1>6, <2>1
  <2>3. Received(old, spoilt)[i] = IF i \in spoilt \/ i - 1 \in spoilt THEN "?" ELSE old[i]
    BY <2>1, ReceivedTyped
  <2> HIDE DEF heard, both, all, more, n, m
  <2> QED
    BY <1>2, <1>3, <1>4, <1>8, <2>2, <2>3
<1>9. ASSUME NEW i \in 1 .. n + m, ~(i <= n) PROVE heard[i] = both[i]
  <2> DEFINE j == i - n
  <2>1. j \in 1 .. m /\ (i = n + m <=> j = m) /\ (i - 1 = n <=> j = 1) /\ i - 1 # n + m
    BY <1>1, <1>9
  <2>2. all[i] = text[j] /\ i \notin spoilt
    BY <1>2, <1>7, <1>9
  <2>3. i \in more <=> (j = m /\ text[j] = "lead")
    BY <1>6, <2>1, <2>2
  <2>4. i - 1 \in more <=> (j = 1 /\ text[j] = "trail")
    <3>1. i - 1 \in more <=> i - 1 \in spoilt
      BY <1>5, <2>1
    <3>2. i - 1 \in spoilt => i - 1 = n
      BY <1>1, <1>7, <1>9
    <3>3. n \in spoilt <=> n > 0 /\ old[n] = "lead"
      BY <1>1, <1>7 DEF Spoils, BrokenAtEnd
    <3>4. j = 1 => (text[j] = "trail" <=> n > 0 /\ old[n] = "lead")
      <4>1. all[i] = "trail" <=> i > 1 /\ all[i - 1] = "lead"
        BY <1>1 DEF WellFormed
      <4>2. j = 1 /\ n > 0 => all[i - 1] = old[n]
        BY <1>1, <1>2, <2>1
      <4>3. j = 1 => (i > 1 <=> n > 0)
        BY <1>1, <2>1
      <4> QED
        BY <2>2, <4>1, <4>2, <4>3
    <3> QED
      BY <2>1, <3>1, <3>2, <3>3, <3>4
  <2>5. Decode(text)[j] = IF (j = 1 /\ text[j] = "trail") \/ (j = m /\ text[j] = "lead")
                          THEN "?" ELSE text[j]
    BY <2>1, DecodeTyped
  <2>6. heard[i] = IF i \in more \/ i - 1 \in more THEN "?" ELSE text[j]
    BY <1>3, <2>2
  <2>7. both[i] = Decode(text)[j]
    BY <1>4, <1>9
  <2> HIDE DEF heard, both, all, more, n, m, j
  <2> QED
    BY <2>3, <2>4, <2>5, <2>6, <2>7
<1>10. heard = both
  <2> HIDE DEF heard, both, n, m
  <2>1. \A i \in 1 .. n + m : heard[i] = both[i]
    BY <1>8, <1>9
  <2> QED
    BY <1>3, <1>4, <2>1, SeqEqual
<1>11. Spoils(all, more)
  <2>1. more \subseteq {i \in DOMAIN all : all[i] = "lead"}
    BY <1>1, <1>5
  <2> QED
    BY <2>1 DEF Spoils
<1> QED
  BY <1>10, <1>11

LEMMA MessageTypes ==
  /\ StartedEvent \in Seq(Messages) /\ Len(StartedEvent) = 1
  /\ \A status \in {"stopped", "passed", "failed"} :
       CompletedEvent(status) \in Seq(Messages) /\ Len(CompletedEvent(status)) = 1
       /\ CompletedEvent(status)[1].status = status
  /\ \A line \in Seq(Characters) : HandleStdoutLine(line) \in Messages
<1>1. [type |-> "started"] \in Messages
  BY DEF Messages
<1>2. ASSUME NEW status \in {"stopped", "passed", "failed"}
      PROVE  [type |-> "completed", status |-> status] \in Messages
  BY DEF Messages
<1>3. ASSUME NEW line \in Seq(Characters) PROVE HandleStdoutLine(line) \in Messages
  <2>1. line # <<>> => Tail(line) \in Seq(Characters)
    BY HeadTailProperties
  <2>2. PICK kind \in {"stdout", "debug-step"}, text \in Seq(Characters) :
          HandleStdoutLine(line) = [type |-> kind, text |-> text]
    BY <2>1 DEF HandleStdoutLine
  <2> QED
    BY <2>2 DEF Messages
<1> QED
  BY <1>1, <1>2, <1>3 DEF StartedEvent, CompletedEvent

LEMMA HandledTyped ==
  ASSUME NEW lines \in Seq(Seq(Characters))
  PROVE  Handled(lines) \in Seq(Messages) /\ Len(Handled(lines)) = Len(lines)
<1>1. Len(lines) \in Nat /\ DOMAIN lines = 1..Len(lines)
  OBVIOUS
<1>2. \A i \in 1..Len(lines) : HandleStdoutLine(lines[i]) \in Messages
  BY MessageTypes, ElementOfSeq
<1> QED
  BY <1>1, <1>2 DEF Handled

LEMMA HandledTogether ==
  ASSUME NEW a \in Seq(Seq(Characters)), NEW b \in Seq(Seq(Characters))
  PROVE  Handled(a \o b) = Handled(a) \o Handled(b)
<1> DEFINE u == Handled(a \o b)
           v == Handled(a)
           w == Handled(b)
<1>1. /\ a \o b \in Seq(Seq(Characters)) /\ Len(a \o b) = Len(a) + Len(b)
      /\ \A i \in 1..(Len(a) + Len(b)) : (a \o b)[i] = IF i <= Len(a) THEN a[i] ELSE b[i - Len(a)]
  BY ConcatProperties
<1>2. Len(a) \in Nat /\ Len(b) \in Nat
  OBVIOUS
<1>3. /\ u \in Seq(Messages) /\ v \in Seq(Messages) /\ w \in Seq(Messages)
      /\ Len(u) = Len(a) + Len(b) /\ Len(v) = Len(a) /\ Len(w) = Len(b)
  BY <1>1, HandledTyped
<1>4. /\ \A i \in 1..(Len(a) + Len(b)) : u[i] = HandleStdoutLine((a \o b)[i])
      /\ \A i \in 1..Len(a) : v[i] = HandleStdoutLine(a[i])
      /\ \A i \in 1..Len(b) : w[i] = HandleStdoutLine(b[i])
  BY <1>1 DEF Handled
<1> HIDE DEF u, v, w
<1>5. /\ v \o w \in Seq(Messages) /\ Len(v \o w) = Len(a) + Len(b)
      /\ \A i \in 1..(Len(a) + Len(b)) : (v \o w)[i] = IF i <= Len(a) THEN v[i] ELSE w[i - Len(a)]
  <2>1. v \in Seq(Messages) /\ w \in Seq(Messages)
    BY <1>3
  <2>2. /\ v \o w \in Seq(Messages) /\ Len(v \o w) = Len(v) + Len(w)
        /\ \A i \in 1 .. Len(v) + Len(w) : (v \o w)[i] = IF i <= Len(v) THEN v[i] ELSE w[i - Len(v)]
    BY <2>1, ConcatProperties
  <2> QED
    BY <1>3, <2>2
<1>6. ASSUME NEW i \in 1..(Len(a) + Len(b)) PROVE u[i] = (v \o w)[i]
  <2>1. CASE i <= Len(a)
    <3>1. i \in 1..Len(a) /\ (a \o b)[i] = a[i] /\ (v \o w)[i] = v[i]
      BY <1>1, <1>2, <1>5, <2>1
    <3> QED
      BY <1>4, <3>1
  <2>2. CASE ~(i <= Len(a))
    <3>1. i - Len(a) \in 1..Len(b) /\ (a \o b)[i] = b[i - Len(a)] /\ (v \o w)[i] = w[i - Len(a)]
      BY <1>1, <1>2, <1>5, <2>2
    <3> QED
      BY <1>4, <3>1
  <2> QED
    BY <2>1, <2>2
<1>7. u = v \o w
  BY <1>3, <1>5, <1>6, SeqEqual
<1> QED
  BY <1>7 DEF u, v, w

(* Nothing was written yet.                                                *)
LEMMA NoLines ==
  /\ SplitLines(<<>>).lines = <<>> /\ SplitLines(<<>>).rest = <<>>
  /\ Handled(<<>>) = <<>> /\ <<>> \in Seq(Characters)
<1>1. <<>> \in Seq(Characters) /\ Len(<<>>) = 0
  BY EmptySeq
<1>2. LineEnds(<<>>) = {}
  BY DEF LineEnds
<1>3. LineCount(<<>>) = 0
  BY <1>2, FS_EmptySet DEF LineCount
<1>4. /\ SplitLines(<<>>).lines \in Seq(Seq(Characters)) /\ Len(SplitLines(<<>>).lines) = 0
      /\ SplitLines(<<>>).rest \in Seq(Characters)
  BY <1>1, <1>3, LinesTyped
<1>5. Begin(<<>>) = 0
  BY <1>3 DEF Begin, LineEnd
<1>6. Len(SplitLines(<<>>).rest) = 0
  <2>1. Len(SplitLines(<<>>).rest) = Len(<<>>) - Begin(<<>>)
    BY <1>1, RestFacts
  <2> QED
    BY <1>1, <1>5, <2>1
<1> QED
  BY <1>1, <1>4, <1>6, EmptySeq DEF Handled

LEMMA OutputStarts ==
  ASSUME TaskInit PROVE OutputInv
<1>1. \A c \in Calls : /\ child[c] = "none" /\ output[c] = <<>> /\ events[c] = <<>>
                       /\ task[c].buffer = <<>>
  BY DEF TaskInit, NewTask
<1>2. <<>> \in Seq(Bytes) /\ DOMAIN <<>> = {} /\ Len(<<>>) = 0
  BY EmptySeq
<1>3. output \in [Calls -> Seq(Bytes)] /\ DOMAIN events = Calls /\ DOMAIN broken = Calls
  BY <1>2 DEF TaskInit
<1>4. \A c \in Calls : Received(output[c], broken[c]) = <<>>
  BY <1>1, NothingReceived
<1>5. \A c \in Calls : Spoils(output[c], broken[c])
  <2>1. \A c \in Calls : output[c] = <<>> /\ broken[c] = {}
    BY DEF TaskInit
  <2> QED
    BY <1>2, <2>1 DEF Spoils, WellFormed, BrokenAtEnd
<1>6. \A c \in Calls : CallReassembled(c)
  BY <1>1, <1>4, NoLines DEF CallReassembled, Reassembled
<1> QED
  BY <1>1, <1>3, <1>5, <1>6 DEF OutputInv

(* A step that leaves all but one call as they were, and that one right.   *)
SameCall(d) ==
  /\ child'[d] = child[d] /\ output'[d] = output[d] /\ broken'[d] = broken[d]
  /\ events'[d] = events[d]
  /\ task'[d].stopped = task[d].stopped /\ task'[d].buffer = task[d].buffer

OnlyCall(c) == \A d \in Calls \ {c} : SameCall(d)

LEMMA OneCall ==
  ASSUME OutputInv, NEW c \in Calls,
         output' \in [Calls -> Seq(Bytes)], DOMAIN broken' = Calls, DOMAIN events' = Calls,
         OnlyCall(c),
         child'[c] \in {"none", "refused"} => output'[c] = <<>>,
         Spoils(output'[c], broken'[c]), CallReassembled(c)'
  PROVE  OutputInv'
<1>1. ASSUME NEW d \in Calls, d # c
      PROVE  /\ CallReassembled(d)' /\ Spoils(output'[d], broken'[d])
             /\ (child'[d] \in {"none", "refused"} => output'[d] = <<>>)
  BY <1>1 DEF OutputInv, OnlyCall, SameCall, CallReassembled
<1> QED
  BY <1>1 DEF OutputInv

LEMMA StatusTypes == ASSUME NEW b PROVE StatusOf(b) \subseteq {"stopped", "passed", "failed"}
  BY DEF StatusOf

LEMMA TaskFields ==
  ASSUME TasksInv, NEW c \in Calls
  PROVE  GoodTask(task[c]) /\ task[c] \in TaskObjects(task[c].buffer)
  BY DEF TasksInv, GoodTask, IsTask

LEMMA StartReassembles ==
  ASSUME TaskInv, OutputInv, NEW c \in Calls, Start(c)
  PROVE  OutputInv' /\ OnlyCall(c)
<1>1. /\ child[c] = "none" /\ child' = [child EXCEPT ![c] = "alive"]
      /\ events' = [events EXCEPT ![c] = Append(@, [type |-> "started"])]
      /\ UNCHANGED <<task, output, broken>>
  BY DEF Start
<1>2. /\ output[c] = <<>> /\ CallReassembled(c) /\ Spoils(output[c], broken[c])
      /\ output \in [Calls -> Seq(Bytes)] /\ DOMAIN events = Calls /\ DOMAIN broken = Calls
  BY <1>1 DEF OutputInv
<1>3. /\ events[c] = <<>> /\ task[c].buffer = <<>>
      /\ Received(output[c], broken[c]) = <<>>
  <2>1. Received(output[c], broken[c]) = <<>>
    BY <1>2, NothingReceived
  <2> QED
    BY <1>1, <1>2, <2>1, NoLines DEF CallReassembled, Reassembled
<1>4. child'[c] = "alive" /\ \A d \in Calls \ {c} : child'[d] = child[d]
  BY <1>1 DEF TaskInv, RegistryInv
<1>5. events'[c] = StartedEvent /\ \A d \in Calls \ {c} : events'[d] = events[d]
  BY <1>1, <1>2, <1>3 DEF StartedEvent
<1>6. StartedEvent \o Handled(SplitLines(<<>>).lines) = StartedEvent
  BY NoLines, MessageTypes, ConcatEmptySeq
<1>7. CallReassembled(c)'
  BY <1>1, <1>2, <1>3, <1>4, <1>5, <1>6, NoLines DEF CallReassembled, Reassembled
<1>8. OnlyCall(c)
  BY <1>1, <1>4, <1>5 DEF OnlyCall, SameCall
<1>9. /\ DOMAIN events' = Calls /\ output' \in [Calls -> Seq(Bytes)] /\ DOMAIN broken' = Calls
      /\ Spoils(output'[c], broken'[c])
  BY <1>1, <1>2
<1> QED
  BY <1>4, <1>7, <1>8, <1>9, OneCall

LEMMA RefuseReassembles ==
  ASSUME TaskInv, OutputInv, NEW c \in Calls, Refuse(c) \/ FailToStart(c)
  PROVE  OutputInv' /\ OnlyCall(c)
<1>1. /\ child[c] = "none" /\ child' = [child EXCEPT ![c] = "refused"]
      /\ UNCHANGED <<task, output, broken, events>>
  BY DEF Refuse, FailToStart
<1>2. /\ output[c] = <<>> /\ CallReassembled(c) /\ Spoils(output[c], broken[c])
      /\ output \in [Calls -> Seq(Bytes)] /\ DOMAIN events = Calls /\ DOMAIN broken = Calls
  BY <1>1 DEF OutputInv
<1>3. child'[c] = "refused" /\ \A d \in Calls \ {c} : child'[d] = child[d]
  BY <1>1 DEF TaskInv, RegistryInv
<1>4. CallReassembled(c)'
  BY <1>1, <1>2, <1>3 DEF CallReassembled, Reassembled
<1>5. OnlyCall(c)
  BY <1>1, <1>3 DEF OnlyCall, SameCall
<1> QED
  BY <1>1, <1>2, <1>3, <1>4, <1>5, OneCall

LEMMA ExitReassembles ==
  ASSUME TaskInv, OutputInv, NEW c \in Calls, ChildExits(c)
  PROVE  OutputInv' /\ OnlyCall(c)
<1>1. /\ child[c] = "alive" /\ child' = [child EXCEPT ![c] = "exited"]
      /\ UNCHANGED <<task, output, broken, events>>
  BY DEF ChildExits
<1>2. /\ CallReassembled(c) /\ Spoils(output[c], broken[c])
      /\ output \in [Calls -> Seq(Bytes)] /\ DOMAIN events = Calls /\ DOMAIN broken = Calls
  BY <1>1 DEF OutputInv
<1>3. child'[c] = "exited" /\ \A d \in Calls \ {c} : child'[d] = child[d]
  BY <1>1 DEF TaskInv, RegistryInv
<1>4. CallReassembled(c)'
  BY <1>1, <1>2, <1>3 DEF CallReassembled, Reassembled
<1>5. OnlyCall(c)
  BY <1>1, <1>3 DEF OnlyCall, SameCall
<1> QED
  BY <1>1, <1>2, <1>3, <1>4, <1>5, OneCall

(* The rest that waited, the new text, and what they give together.        *)
LEMMA ChunkReassembles ==
  ASSUME TaskInv, OutputInv, NEW c \in Calls, StdoutChunk(c)
  PROVE  OutputInv' /\ OnlyCall(c)
<1>1. PICK n \in 1..(MaxOutput - Written) : \E text \in [1..n -> Bytes] :
        LET cut == Chunk(task[c].buffer, Decode(text)) IN
        /\ WellFormed(output[c] \o text)
        /\ output' = [output EXCEPT ![c] = @ \o text]
        /\ broken' = [broken EXCEPT ![c] = @ \union BrokenAtEnd(output[c] \o text)]
        /\ task' = [task EXCEPT ![c].buffer = cut.rest]
        /\ EmitLines(c, cut.lines)
  BY DEF StdoutChunk
<1>2. PICK text \in [1..n -> Bytes] :
        LET cut == Chunk(task[c].buffer, Decode(text)) IN
        /\ WellFormed(output[c] \o text)
        /\ output' = [output EXCEPT ![c] = @ \o text]
        /\ broken' = [broken EXCEPT ![c] = @ \union BrokenAtEnd(output[c] \o text)]
        /\ task' = [task EXCEPT ![c].buffer = cut.rest]
        /\ EmitLines(c, cut.lines)
  BY <1>1
<1>3. child[c] = "alive" /\ UNCHANGED child
  BY DEF StdoutChunk
<1>4. n \in Nat /\ n > 0
  OBVIOUS
<1>5. text \in Seq(Bytes) /\ text # <<>>
  BY <1>4, EmptySeq
<1> DEFINE all == output[c] \o text
           more == broken[c] \union BrokenAtEnd(all)
           old == Received(output[c], broken[c])
           new == Decode(text)
           b == task[c].buffer \o new
           cut == SplitLines(b)
           t == old \o new
<1>6. /\ CallReassembled(c) /\ DOMAIN events = Calls /\ DOMAIN broken = Calls
      /\ output \in [Calls -> Seq(Bytes)] /\ output[c] \in Seq(Bytes)
      /\ Spoils(output[c], broken[c])
  BY DEF OutputInv
<1>18. old \in Seq(Characters) /\ new \in Seq(Characters)
  BY <1>5, <1>6, ReceivedTyped, DecodeTyped
<1>19. Received(all, more) = t /\ Spoils(all, more) /\ all \in Seq(Bytes)
  <2>1. all \in Seq(Bytes)
    BY <1>5, <1>6
  <2> QED
    BY <1>2, <1>5, <1>6, <2>1, ReceivedGrows
<1>7. task[c].buffer = SplitLines(old).rest /\ events[c] = StartedEvent \o Handled(SplitLines(old).lines)
  BY <1>3, <1>6 DEF CallReassembled, Reassembled
<1>8. b \in Seq(Characters) /\ t \in Seq(Characters) /\ Continues(old, b, t)
  <2> HIDE DEF old, new
  <2> QED
    BY <1>7, <1>18, GrownText
<1>9. SplitLines(t).lines = SplitLines(old).lines \o cut.lines /\ SplitLines(t).rest = cut.rest
  <2> HIDE DEF old, b, t
  <2>1. old \in Seq(Characters)
    BY <1>18
  <2>2. /\ SplitLines(t).lines = SplitLines(old).lines \o SplitLines(b).lines
        /\ SplitLines(t).rest = SplitLines(b).rest
    BY <1>8, <2>1, GrownLines
  <2> QED
    BY <2>2
<1>10. /\ output' = [output EXCEPT ![c] = all] /\ broken' = [broken EXCEPT ![c] = more]
       /\ task' = [task EXCEPT ![c].buffer = cut.rest]
       /\ events' = [events EXCEPT ![c] = events[c] \o Handled(cut.lines)]
  BY <1>2 DEF Chunk, EmitLines
<1> DEFINE lines == SplitLines(old).lines
           added == cut.lines
<1>11. lines \in Seq(Seq(Characters)) /\ added \in Seq(Seq(Characters))
  <2> HIDE DEF old, b
  <2> QED
    BY <1>8, <1>18, LinesTyped
<1> HIDE DEF lines, added
<1>12. (StartedEvent \o Handled(lines)) \o Handled(added) = StartedEvent \o Handled(lines \o added)
  <2>1. /\ StartedEvent \in Seq(Messages) /\ Handled(lines) \in Seq(Messages)
        /\ Handled(added) \in Seq(Messages)
    BY <1>11, MessageTypes, HandledTyped
  <2>2. Handled(lines \o added) = Handled(lines) \o Handled(added)
    BY <1>11, HandledTogether
  <2>3. (StartedEvent \o Handled(lines)) \o Handled(added) = StartedEvent \o (Handled(lines) \o Handled(added))
    BY <2>1, ConcatAssociative
  <2> QED
    BY <2>2, <2>3
<1>13. events'[c] = StartedEvent \o Handled(SplitLines(t).lines)
  BY <1>6, <1>7, <1>9, <1>10, <1>12 DEF lines, added
<1>14. /\ output'[c] = all /\ broken'[c] = more /\ DOMAIN broken' = Calls
       /\ task'[c].buffer = SplitLines(t).rest
  <2>1. DOMAIN task = Calls /\ task[c] \in TaskObjects(task[c].buffer)
    BY TaskFields DEF TaskInv, TasksInv
  <2> QED
    BY <1>6, <1>9, <1>10, <2>1 DEF TaskObjects
<1> HIDE DEF t, cut, all, more
<1>15. OnlyCall(c)
  BY <1>3, <1>6, <1>10 DEF OnlyCall, SameCall, TaskInv, TasksInv
<1>16. CallReassembled(c)'
  BY <1>3, <1>13, <1>14, <1>19 DEF CallReassembled, Reassembled
<1>17. DOMAIN events' = Calls /\ output' \in [Calls -> Seq(Bytes)]
  BY <1>6, <1>10, <1>19
<1> QED
  BY <1>3, <1>14, <1>15, <1>16, <1>17, <1>19, OneCall

(* The tail of the output is passed on as a line of its own.               *)
LEMMA CloseReassembles ==
  ASSUME TaskInv, OutputInv, NEW c \in Calls, Close(c)
  PROVE  /\ OutputInv'
         /\ child'[c] = "closed" /\ task'[c].stopped = task[c].stopped
         /\ OnlyCall(c)
<1>1. /\ child[c] = "exited" /\ child' = [child EXCEPT ![c] = "closed"]
      /\ task' = [task EXCEPT ![c].buffer = <<>>, ![c].killTimer = FALSE]
      /\ UNCHANGED <<output, broken>>
  BY DEF Close
<1>2. PICK status \in Status(c) :
        events' = [events EXCEPT ![c] = (@ \o FlushStdoutBuffer(c)) \o CompletedEvent(status)]
  BY DEF Close, CompletedEvent
<1>3. /\ CallReassembled(c) /\ DOMAIN events = Calls /\ DOMAIN broken = Calls
      /\ output \in [Calls -> Seq(Bytes)] /\ Spoils(output[c], broken[c])
      /\ Received(output[c], broken[c]) \in Seq(Characters)
  BY ReceivedTyped DEF OutputInv
<1>4. child'[c] = "closed" /\ \A d \in Calls \ {c} : child'[d] = child[d]
  BY <1>1 DEF TaskInv, RegistryInv
<1>5. /\ task'[c].stopped = task[c].stopped /\ task'[c].buffer = <<>>
      /\ \A d \in Calls \ {c} : task'[d] = task[d]
  <2>1. DOMAIN task = Calls /\ task[c] \in TaskObjects(task[c].buffer)
    BY TaskFields DEF TaskInv, TasksInv
  <2> QED
    BY <1>1, <2>1 DEF TaskObjects
<1>6. /\ events'[c] = (events[c] \o FlushStdoutBuffer(c)) \o CompletedEvent(status)
      /\ DOMAIN events' = Calls /\ \A d \in Calls \ {c} : events'[d] = events[d]
  BY <1>2, <1>3
<1>7. OnlyCall(c)
  BY <1>1, <1>4, <1>5, <1>6 DEF OnlyCall, SameCall
<1> DEFINE whole == SplitLines(Received(output[c], broken[c]))
           rest == whole.rest
           heard == StartedEvent \o Handled(whole.lines)
<1>8. whole.lines \in Seq(Seq(Characters)) /\ rest \in Seq(Characters)
  BY <1>3, LinesTyped
<1>9. events[c] = heard /\ task[c].buffer = rest
  BY <1>1, <1>3 DEF CallReassembled, Reassembled
<1>10. heard \in Seq(Messages)
  BY <1>8, MessageTypes, HandledTyped, ConcatProperties
<1>11. FlushStdoutBuffer(c) = Handled(TailLines(rest)) /\ Handled(TailLines(rest)) \in Seq(Messages)
  <2> HIDE DEF rest
  <2>1. CASE rest = <<>>
    BY <1>9, <2>1, NoLines, EmptySeq DEF FlushStdoutBuffer, TailLines
  <2>2. CASE rest # <<>>
    <3>1. <<rest>> \in Seq(Seq(Characters)) /\ DOMAIN <<rest>> = 1..1 /\ <<rest>>[1] = rest
      BY <1>8
    <3>2. Handled(<<rest>>) = <<HandleStdoutLine(rest)>>
      BY <3>1 DEF Handled
    <3> QED
      BY <1>9, <2>2, <3>1, <3>2, HandledTyped DEF FlushStdoutBuffer, TailLines
  <2> QED
    BY <2>1, <2>2
<1>12. status \in StatusOf(task[c].stopped) /\ CompletedEvent(status) \in Seq(Messages)
  BY StatusTypes, MessageTypes DEF Status, StatusOf
<1>13. events'[c] = heard \o (Handled(TailLines(rest)) \o CompletedEvent(status))
  <2>1. events'[c] = (heard \o Handled(TailLines(rest))) \o CompletedEvent(status)
    BY <1>6, <1>9, <1>11
  <2> HIDE DEF heard, rest
  <2> QED
    BY <1>10, <1>11, <1>12, <2>1, ConcatAssociative
<1>14. CallReassembled(c)'
  BY <1>1, <1>4, <1>5, <1>12, <1>13 DEF CallReassembled, Reassembled
<1>15. OutputInv'
  BY <1>1, <1>3, <1>4, <1>6, <1>7, <1>14, OneCall
<1> QED
  BY <1>4, <1>5, <1>7, <1>15

(* A stop and a timer say nothing to the window.                           *)
LEMMA StopTells ==
  ASSUME TaskInv, NEW i \in Ids, Stop(i)
  PROVE  /\ running[i] \in Calls /\ child[running[i]] \in LiveStates
         /\ task'[running[i]].stopped = TRUE
         /\ task'[running[i]].buffer = task[running[i]].buffer
         /\ OnlyCall(running[i])
         /\ UNCHANGED <<child, output, broken, events>>
<1>1. PICK c \in Calls : c = running[i] /\ child[c] \in LiveStates
  BY DEF TaskInv, RegistryInv, Stop
<1>2. /\ task' = [task EXCEPT ![c].stopped = TRUE, ![c].stops = @ + 1, ![c].killTimer = TRUE,
                              ![c].lostTimers = @ + (IF task[c].killTimer THEN 1 ELSE 0)]
      /\ UNCHANGED <<child, output, broken, events>>
  BY <1>1 DEF Stop
<1>3. DOMAIN task = Calls /\ task[c] \in TaskObjects(task[c].buffer)
  BY TaskFields DEF TaskInv, TasksInv
<1>4. /\ task'[c].stopped = TRUE /\ task'[c].buffer = task[c].buffer
      /\ \A d \in Calls \ {c} : task'[d] = task[d]
  BY <1>2, <1>3 DEF TaskObjects
<1> QED
  BY <1>1, <1>2, <1>4 DEF OnlyCall, SameCall

LEMMA StopReassembles ==
  ASSUME TaskInv, OutputInv, NEW i \in Ids, Stop(i)
  PROVE  OutputInv'
<1>1. PICK c \in Calls : /\ c = running[i] /\ child[c] \in LiveStates
                         /\ task'[c].buffer = task[c].buffer
                         /\ OnlyCall(c)
                         /\ UNCHANGED <<child, output, broken, events>>
  BY StopTells
<1>2. CallReassembled(c)'
  BY <1>1 DEF OutputInv, CallReassembled, Reassembled, LiveStates
<1> QED
  BY <1>1, <1>2, OneCall DEF OutputInv, LiveStates

LEMMA TimerTells ==
  ASSUME TaskInv, NEW c \in Calls, KillTimerFires(c)
  PROVE  \A d \in Calls : SameCall(d)
<1>1. /\ \A d \in Calls : GoodTask(task[d])
      /\ UNCHANGED <<child, output, broken, events>>
  BY DEF TaskInv, TasksInv, KillTimerFires
<1>2. PICK fired : /\ FireTimer(c, fired)
                   /\ \/ fired = [task[c] EXCEPT !.killTimer = FALSE]
                      \/ task[c].lostTimers > 0 /\ fired = [task[c] EXCEPT !.lostTimers = @ - 1]
  BY DEF KillTimerFires
<1>3. fired \in TaskObjects(task[c].buffer) /\ fired.stopped = task[c].stopped
  <2>1. task[c] \in TaskObjects(task[c].buffer)
    BY <1>1 DEF GoodTask, IsTask
  <2>2. CASE fired = [task[c] EXCEPT !.killTimer = FALSE]
    BY <2>1, <2>2 DEF TaskObjects
  <2>3. CASE task[c].lostTimers > 0 /\ fired = [task[c] EXCEPT !.lostTimers = @ - 1]
    BY <2>1, <2>3 DEF TaskObjects
  <2> QED
    BY <1>2, <2>2, <2>3
<1>4. ASSUME NEW d \in Calls PROVE SameCall(d)
  <2> DEFINE r == IF d = c THEN fired ELSE task[d]
             hit == d \in KillTargets(c)
  <2>1. task'[d] = [r EXCEPT !.killed = @ \/ hit]
    BY <1>2 DEF FireTimer
  <2>2. r \in TaskObjects(task[d].buffer) /\ r.stopped = task[d].stopped
    BY <1>1, <1>3 DEF GoodTask, IsTask
  <2> HIDE DEF r, hit
  <2>3. task'[d].buffer = task[d].buffer /\ task'[d].stopped = r.stopped
    BY <2>1, <2>2 DEF TaskObjects
  <2> QED
    BY <1>1, <2>2, <2>3 DEF SameCall
<1> QED
  BY <1>4

LEMMA QuietReassembles ==
  ASSUME OutputInv, \A d \in Calls : SameCall(d), UNCHANGED <<output, broken, events>>
  PROVE  OutputInv'
  BY DEF OutputInv, SameCall, CallReassembled

LEMMA OutputStep ==
  ASSUME TaskInv, OutputInv, [TaskNext]_taskVars
  PROVE  OutputInv'
<1>1. ASSUME NEW c \in Calls, CallStep(c) PROVE OutputInv'
  <2>1. CASE KillTimerFires(c)
    BY <2>1, TimerTells, QuietReassembles DEF KillTimerFires
  <2> QED
    BY <1>1, <2>1, RefuseReassembles, StartReassembles, ChunkReassembles, ExitReassembles,
       CloseReassembles DEF CallStep
<1>2. ASSUME NEW i \in Ids, Stop(i) PROVE OutputInv'
  BY <1>2, StopReassembles
<1>3. CASE UNCHANGED taskVars
  BY <1>3, QuietReassembles DEF taskVars, SameCall
<1> QED
  BY <1>1, <1>2, <1>3 DEF TaskNext

LEMMA OutputInvariant == TaskSpec => [](TaskInv /\ OutputInv)
<1>1. TaskInit => TaskInv /\ OutputInv
  BY TaskStarts, OutputStarts
<1>2. TaskInv /\ OutputInv /\ [TaskNext]_taskVars => (TaskInv /\ OutputInv)'
  BY TaskStep, OutputStep
<1> QED
  BY <1>1, <1>2, PTL DEF TaskSpec

(* Whatever the children write and however the pipes cut it, the window is *)
(* sent the lines of the output, each once and in order, and at the close  *)
(* nothing waits any more; only the wide characters a chunk ended within   *)
(* are not the output's.                                                   *)
THEOREM LinesAlwaysReassembled == TaskSpec => []LinesReassembled
<1>1. OutputInv => LinesReassembled
  BY ReassembledCalls DEF OutputInv
<1> QED
  BY <1>1, OutputInvariant, PTL

-----------------------------------------------------------------------------
(* The promise of a task.                                                  *)
LEMMA OutcomeTold ==
  ASSUME NEW text \in Seq(Characters), NEW sent, NEW stopped, NEW buffer,
         Reassembled("closed", text, sent, stopped, buffer)
  PROVE  Last(sent).status \in StatusOf(stopped)
<1> DEFINE whole == SplitLines(text)
           heard == StartedEvent \o Handled(whole.lines)
           tail == Handled(TailLines(whole.rest))
<1>1. PICK status \in StatusOf(stopped) : sent = heard \o (tail \o CompletedEvent(status))
  BY DEF Reassembled
<1>2. whole.lines \in Seq(Seq(Characters)) /\ whole.rest \in Seq(Characters)
  BY LinesTyped
<1>3. heard \in Seq(Messages)
  BY <1>2, MessageTypes, HandledTyped, ConcatProperties
<1>4. tail \in Seq(Messages)
  <2> DEFINE rest == whole.rest
  <2> HIDE DEF rest
  <2>1. TailLines(rest) \in Seq(Seq(Characters))
    <3>1. rest \in Seq(Characters)
      BY <1>2 DEF rest
    <3> QED
      BY <3>1, EmptySeq DEF TailLines
  <2> QED
    BY <2>1, HandledTyped DEF rest
<1>5. /\ CompletedEvent(status) \in Seq(Messages) /\ Len(CompletedEvent(status)) = 1
      /\ CompletedEvent(status)[1].status = status
  BY StatusTypes, MessageTypes
<1> HIDE DEF heard, tail
<1> DEFINE last == CompletedEvent(status)
           end == tail \o last
<1> HIDE DEF last
<1>6. /\ end \in Seq(Messages) /\ Len(end) = Len(tail) + 1 /\ end[Len(tail) + 1] = last[1]
  <2>1. Len(tail) \in Nat
    BY <1>4
  <2>2. \A i \in 1 .. Len(tail) + Len(last) :
          end[i] = IF i <= Len(tail) THEN tail[i] ELSE last[i - Len(tail)]
    BY <1>4, <1>5, ConcatProperties DEF last
  <2>3. Len(last) = 1 /\ Len(tail) + 1 \in 1 .. Len(tail) + Len(last)
    BY <1>5, <2>1 DEF last
  <2>4. ~(Len(tail) + 1 <= Len(tail)) /\ (Len(tail) + 1) - Len(tail) = 1
    BY <2>1
  <2>5. end[Len(tail) + 1] = last[(Len(tail) + 1) - Len(tail)]
    BY <2>2, <2>3, <2>4
  <2>6. end \in Seq(Messages) /\ Len(end) = Len(tail) + Len(last)
    BY <1>4, <1>5, ConcatProperties DEF last
  <2> QED
    BY <2>3, <2>4, <2>5, <2>6
<1> HIDE DEF end
<1>7. Len(heard \o end) = Len(heard) + Len(end) /\ (heard \o end)[Len(heard) + Len(end)] = end[Len(end)]
  <2>1. Len(heard) \in Nat /\ Len(end) \in Nat /\ Len(end) > 0
    <3>1. Len(tail) \in Nat
      BY <1>4
    <3> QED
      BY <1>3, <1>6, <3>1
  <2>2. /\ Len(heard \o end) = Len(heard) + Len(end)
        /\ \A i \in 1 .. Len(heard) + Len(end) :
             (heard \o end)[i] = IF i <= Len(heard) THEN heard[i] ELSE end[i - Len(heard)]
    BY <1>3, <1>6, ConcatProperties
  <2>3. /\ Len(heard) + Len(end) \in 1 .. Len(heard) + Len(end)
        /\ ~(Len(heard) + Len(end) <= Len(heard))
        /\ (Len(heard) + Len(end)) - Len(heard) = Len(end)
    BY <2>1
  <2>4. (heard \o end)[Len(heard) + Len(end)] = end[(Len(heard) + Len(end)) - Len(heard)]
    BY <2>2, <2>3
  <2> QED
    BY <2>2, <2>3, <2>4
<1>8. sent = heard \o end
  BY <1>1 DEF end, last
<1>9. Last(sent) = last[1]
  BY <1>6, <1>7, <1>8 DEF Last
<1> QED
  BY <1>1, <1>5, <1>9 DEF last

LEMMA NothingPromised ==
  ASSUME NEW c \in Calls, SameCall(c) \/ UNCHANGED taskVars
  PROVE  UNCHANGED Promise(c)!promise
  BY DEF Promise!promise, PhaseOf, OutcomeOf, SameCall, taskVars

LEMMA PromiseBegins ==
  ASSUME TaskInit, NEW c \in Calls
  PROVE  Promise(c)!Init
<1>1. child[c] = "none" /\ task[c].stopped = FALSE
  BY DEF TaskInit, NewTask
<1> QED
  BY <1>1 DEF Promise!Init, PhaseOf, OutcomeOf

LEMMA PromiseStep ==
  ASSUME TaskInv, OutputInv, [TaskNext]_taskVars, NEW c \in Calls
  PROVE  Promise(c)!Next \/ UNCHANGED Promise(c)!promise
<1>1. child \in [Calls -> {"none", "refused", "alive", "exited", "closed"}]
  BY DEF TaskInv, RegistryInv
<1>2. ASSUME NEW d \in Calls, CallStep(d), d # c PROVE SameCall(c)
  <2>1. \A e \in Calls : KillTimerFires(e) => SameCall(c)
    BY TimerTells
  <2>2. ~KillTimerFires(d) => OnlyCall(d)
    BY <1>2, StartReassembles, RefuseReassembles, ExitReassembles, ChunkReassembles,
       CloseReassembles DEF CallStep
  <2> QED
    BY <1>2, <2>1, <2>2 DEF OnlyCall
<1>3. CASE CallStep(c)
  <2>1. CASE KillTimerFires(c)
    BY <2>1, TimerTells, NothingPromised
  <2>2. CASE Refuse(c) \/ FailToStart(c)
    <3>1. /\ child[c] = "none" /\ child'[c] = "refused" /\ UNCHANGED task
      BY <1>1, <2>2 DEF Refuse, FailToStart
    <3> QED
      BY <3>1 DEF Promise!promise, PhaseOf, OutcomeOf
  <2>3. CASE Start(c)
    <3>1. /\ child[c] = "none" /\ child'[c] = "alive" /\ UNCHANGED task
      BY <1>1, <2>3 DEF Start
    <3> QED
      BY <3>1 DEF Promise!Next, Promise!Start, PhaseOf, OutcomeOf
  <2>4. CASE StdoutChunk(c)
    <3>1. child[c] = "alive" /\ UNCHANGED child
      BY <2>4 DEF StdoutChunk
    <3>2. task'[c].stopped = task[c].stopped
      <4>1. PICK rest : task' = [task EXCEPT ![c].buffer = rest]
        BY <2>4 DEF StdoutChunk
      <4>2. DOMAIN task = Calls /\ task[c] \in TaskObjects(task[c].buffer)
        BY TaskFields DEF TaskInv, TasksInv
      <4> QED
        BY <4>1, <4>2 DEF TaskObjects
    <3> QED
      BY <3>1, <3>2 DEF Promise!promise, PhaseOf, OutcomeOf
  <2>5. CASE ChildExits(c)
    <3>1. child[c] = "alive" /\ child'[c] = "exited" /\ UNCHANGED task
      BY <1>1, <2>5 DEF ChildExits
    <3> QED
      BY <3>1 DEF Promise!promise, PhaseOf, OutcomeOf
  <2>6. CASE Close(c)
    <3>1. /\ child[c] = "exited" /\ child'[c] = "closed" /\ OutputInv'
          /\ task'[c].stopped = task[c].stopped
      BY <2>6, CloseReassembles DEF Close
    <3>2. OutcomeOf(c)' \in StatusOf(task[c].stopped)
      <4>1. /\ Received(output'[c], broken'[c]) \in Seq(Characters)
            /\ Reassembled("closed", Received(output'[c], broken'[c]), events'[c],
                           task'[c].stopped, task'[c].buffer)
        BY <3>1, ReceivedTyped DEF OutputInv, CallReassembled
      <4>2. Last(events'[c]).status \in StatusOf(task'[c].stopped)
        BY <4>1, OutcomeTold
      <4>3. OutcomeOf(c)' = Last(events'[c]).status
        BY <3>1 DEF OutcomeOf
      <4> QED
        BY <3>1, <4>2, <4>3
    <3> QED
      BY <3>1, <3>2 DEF Promise!Next, Promise!Complete, PhaseOf, StatusOf
  <2> QED
    BY <1>3, <2>1, <2>2, <2>3, <2>4, <2>5, <2>6 DEF CallStep
<1>4. ASSUME NEW i \in Ids, Stop(i)
      PROVE  Promise(c)!Next \/ UNCHANGED Promise(c)!promise
  <2>1. CASE c # running[i]
    BY <1>4, <2>1, StopTells, NothingPromised DEF OnlyCall
  <2>2. CASE c = running[i]
    <3>1. /\ child[c] \in LiveStates /\ task'[c].stopped = TRUE /\ UNCHANGED child
      BY <1>4, <2>2, StopTells
    <3> QED
      BY <3>1 DEF Promise!Next, Promise!Cancel, PhaseOf, OutcomeOf, LiveStates
  <2> QED
    BY <2>1, <2>2
<1> QED
  BY <1>2, <1>3, <1>4, NothingPromised DEF TaskNext

(* Each call of startExecutionTask keeps the promise of a task: it         *)
(* completes once, as stopped exactly when it was stopped before.          *)
THEOREM TasksKeepPromise == TaskSpec => KeepsPromise
<1>1. TaskInit => \A c \in Calls : Promise(c)!Init
  BY PromiseBegins
<1>2. TaskInv /\ OutputInv /\ [TaskNext]_taskVars =>
        [\A c \in Calls : Promise(c)!Next \/ UNCHANGED Promise(c)!promise]_taskVars
  BY PromiseStep
<1> QED
  BY <1>1, <1>2, OutputInvariant, PTL DEF TaskSpec, KeepsPromise

-----------------------------------------------------------------------------
(* ExecutionWindow                                                         *)

EventTypes == {"started", "output", "step-start", "step-finish", "completed"}
Events == [task : Tasks, type : EventTypes]
Resets == [task : Tasks, ok : BOOLEAN]
Windows ==
  [ task : Tasks \union {NoTask}, mode : {"none", "run", "debug", "build"},
    build : Tasks \union {NoTask}, buildStatus : {"none", "running", "stopped", "ended"},
    paused : BOOLEAN, scope : Scopes ]
LogFiles == [task : Tasks \union {NoTask}, lines : SUBSET Tasks]

(* Events on their way belong to tasks whose end is not handled, and the   *)
(* completed event of a task comes once and last.                          *)
EventsOK(box, att, ph) ==
  /\ box \in Seq(Events)
  /\ \A i \in 1..Len(box) : att[box[i].task] = "started"
  /\ \A i \in 1..Len(box) : box[i].type = "completed" => ph[box[i].task] # "running"
  /\ \A i, j \in 1..Len(box) :
       i < j /\ box[i].type = "completed" => box[j].task # box[i].task

AttemptsInv ==
  /\ attempt \in [Tasks -> {"none", "resetting", "started", "rejected", "over"}]
  /\ phase \in [Tasks -> {"new", "running", "forgotten"}]
  /\ \A t \in Tasks : phase[t] = "running" => attempt[t] = "started"
  /\ EventsOK(inbox, attempt, phase)

ResetsInv ==
  /\ resets \in Seq(Resets)
  /\ \A i \in 1..Len(resets) : attempt[resets[i].task] = "resetting"
  /\ \A i, j \in 1..Len(resets) : resets[i].task = resets[j].task => i = j

ShapesInv ==
  /\ window \in Windows
  /\ preview \in [Scopes -> Tasks \union {NoTask}]
  /\ target \in [Scopes -> {"none", "active", "inactive"}]
  /\ logFile \in [Scopes -> LogFiles]
  /\ overlapped \in BOOLEAN

(* One task at a time: the one the window shows.                           *)
ShownInv ==
  /\ \A t \in Tasks : attempt[t] \in {"started", "rejected"} => window.task = t
  /\ resets # <<>> =>
       /\ Len(resets) = 1 /\ window.task = NoTask
       /\ resets[1].ok => logFile[Scope(resets[1].task)].task = resets[1].task

(* Its consoles.                                                           *)
ConsolesInv ==
  /\ \A s \in Scopes : target[s] = "active" =>
       window.task # NoTask /\ Scope(window.task) = s /\ logFile[s].task = window.task
  /\ \A s \in Scopes : logFile[s].lines \subseteq {logFile[s].task}
  /\ \A s \in Scopes : preview[s] # NoTask => window.task = preview[s]

(* The inductive form of ConsoleIsOwn.                                     *)
WindowInv ==
  /\ AttemptsInv /\ ResetsInv /\ ShapesInv
  /\ ~overlapped => ShownInv /\ ConsolesInv

-----------------------------------------------------------------------------
(* The event queue.                                                        *)
LEMMA SeqAppend ==
  ASSUME NEW S, NEW s \in Seq(S), NEW e \in S
  PROVE  /\ Append(s, e) \in Seq(S) /\ Len(s) \in Nat /\ Len(Append(s, e)) = Len(s) + 1
         /\ \A i \in 1..Len(s) : Append(s, e)[i] = s[i]
         /\ Append(s, e)[Len(s) + 1] = e
  OBVIOUS

LEMMA SeqTail ==
  ASSUME NEW S, NEW s \in Seq(S), s # <<>>
  PROVE  /\ Tail(s) \in Seq(S) /\ Len(s) \in Nat \ {0} /\ Len(Tail(s)) = Len(s) - 1
         /\ \A i \in 1..Len(Tail(s)) : Tail(s)[i] = s[i + 1] /\ i + 1 \in 1..Len(s)
         /\ Head(s) = s[1] /\ Head(s) \in S
  OBVIOUS

LEMMA InEvents ==
  ASSUME NEW box \in Seq(Events), NEW i \in 1..Len(box)
  PROVE  box[i] \in Events /\ box[i].task \in Tasks
<1>1. box[i] \in Events
  OBVIOUS
<1> QED
  BY <1>1 DEF Events

(* A running task sends an event that is not its last.                     *)
LEMMA EventSent ==
  ASSUME NEW box, NEW att, NEW ph, EventsOK(box, att, ph),
         NEW t \in Tasks, att[t] = "started", ph[t] = "running",
         NEW type \in EventTypes \ {"completed"}
  PROVE  EventsOK(Append(box, [task |-> t, type |-> type]), att, ph)
<1> DEFINE e == [task |-> t, type |-> type]
           b == Append(box, e)
<1>1. e \in Events /\ e.task = t /\ e.type # "completed"
  BY DEF Events
<1> HIDE DEF e
<1>2. /\ b \in Seq(Events) /\ Len(box) \in Nat /\ Len(b) = Len(box) + 1
      /\ \A i \in 1..Len(box) : b[i] = box[i]
      /\ b[Len(box) + 1] = e
  BY <1>1, SeqAppend DEF EventsOK
<1> HIDE DEF b
<1>3. \A i \in 1..Len(b) : i \in 1..Len(box) \/ i = Len(box) + 1
  BY <1>2
<1>4. \A i \in 1..Len(b) : att[b[i].task] = "started"
  BY <1>1, <1>2, <1>3 DEF EventsOK
<1>5. \A i \in 1..Len(b) : b[i].type = "completed" => ph[b[i].task] # "running"
  BY <1>1, <1>2, <1>3 DEF EventsOK
<1>6. ASSUME NEW i \in 1..Len(b), NEW j \in 1..Len(b), i < j, b[i].type = "completed"
      PROVE  b[j].task # b[i].task
  <2>1. i \in 1..Len(box) /\ b[i] = box[i]
    BY <1>2, <1>6
  <2>2. CASE j \in 1..Len(box)
    BY <1>2, <1>6, <2>1, <2>2 DEF EventsOK
  <2>3. CASE j = Len(box) + 1
    BY <1>1, <1>2, <1>6, <2>1, <2>3 DEF EventsOK
  <2> QED
    BY <1>3, <2>2, <2>3
<1> QED
  BY <1>2, <1>4, <1>5, <1>6 DEF EventsOK, b, e

(* It sends its last event.                                                *)
LEMMA EndSent ==
  ASSUME NEW box, NEW att, NEW ph, NEW ph2, EventsOK(box, att, ph),
         NEW t \in Tasks, att[t] = "started", ph[t] = "running",
         ph2[t] # "running", \A u \in Tasks \ {t} : ph2[u] = ph[u]
  PROVE  EventsOK(Append(box, [task |-> t, type |-> "completed"]), att, ph2)
<1> DEFINE e == [task |-> t, type |-> "completed"]
           b == Append(box, e)
<1>1. e \in Events /\ e.task = t /\ e.type = "completed"
  BY DEF Events, EventTypes
<1> HIDE DEF e
<1>2. /\ b \in Seq(Events) /\ Len(box) \in Nat /\ Len(b) = Len(box) + 1
      /\ \A i \in 1..Len(box) : b[i] = box[i]
      /\ b[Len(box) + 1] = e
  BY <1>1, SeqAppend DEF EventsOK
<1> HIDE DEF b
<1>3. \A i \in 1..Len(b) : i \in 1..Len(box) \/ i = Len(box) + 1
  BY <1>2
<1>4. \A i \in 1..Len(b) : att[b[i].task] = "started"
  BY <1>1, <1>2, <1>3 DEF EventsOK
<1>5. \A i \in 1..Len(b) : b[i].task \in Tasks
  BY <1>2, InEvents
<1>6. \A i \in 1..Len(b) : b[i].type = "completed" => ph2[b[i].task] # "running"
  BY <1>1, <1>2, <1>3, <1>5 DEF EventsOK
<1>7. ASSUME NEW i \in 1..Len(b), NEW j \in 1..Len(b), i < j, b[i].type = "completed"
      PROVE  b[j].task # b[i].task
  <2>1. i \in 1..Len(box) /\ b[i] = box[i]
    BY <1>2, <1>7
  <2>2. CASE j \in 1..Len(box)
    BY <1>2, <1>7, <2>1, <2>2 DEF EventsOK
  <2>3. CASE j = Len(box) + 1
    BY <1>1, <1>2, <1>7, <2>1, <2>3 DEF EventsOK
  <2> QED
    BY <1>3, <2>2, <2>3
<1> QED
  BY <1>2, <1>4, <1>6, <1>7 DEF EventsOK, b, e

(* The first event is handled; if it was the last of its task, the handler *)
(* may be over.                                                            *)
LEMMA EventTaken ==
  ASSUME NEW box, NEW att, NEW att2, NEW ph, EventsOK(box, att, ph), box # <<>>,
         \/ att2 = att
         \/ /\ Head(box).type = "completed"
            /\ \A u \in Tasks \ {Head(box).task} : att2[u] = att[u]
  PROVE  EventsOK(Tail(box), att2, ph)
<1> DEFINE b == Tail(box)
<1>1. /\ b \in Seq(Events) /\ Len(box) \in Nat \ {0} /\ Len(b) = Len(box) - 1
      /\ \A i \in 1..Len(b) : b[i] = box[i + 1] /\ i + 1 \in 1..Len(box)
      /\ Head(box) = box[1] /\ 1 \in 1..Len(box)
  BY SeqTail DEF EventsOK
<1> HIDE DEF b
<1>2. ASSUME NEW i \in 1..Len(b) PROVE att2[b[i].task] = "started"
  <2>1. att[box[i + 1].task] = "started" /\ b[i].task = box[i + 1].task
    BY <1>1 DEF EventsOK
  <2>2. b[i].task \in Tasks
    BY <1>1, InEvents
  <2>3. Head(box).type = "completed" => b[i].task # Head(box).task
    <3>1. 1 < i + 1
      BY <1>1
    <3> QED
      BY <1>1, <3>1 DEF EventsOK
  <2> QED
    BY <2>1, <2>2, <2>3
<1>3. \A i \in 1..Len(b) : b[i].type = "completed" => ph[b[i].task] # "running"
  BY <1>1 DEF EventsOK
<1>4. ASSUME NEW i \in 1..Len(b), NEW j \in 1..Len(b), i < j, b[i].type = "completed"
      PROVE  b[j].task # b[i].task
  <2>1. /\ i + 1 \in 1..Len(box) /\ j + 1 \in 1..Len(box) /\ i + 1 < j + 1
        /\ b[i] = box[i + 1] /\ b[j] = box[j + 1]
    BY <1>1, <1>4
  <2>2. box[i + 1].type = "completed"
    BY <1>4, <2>1
  <2> QED
    BY <2>1, <2>2 DEF EventsOK
<1> QED
  BY <1>1, <1>2, <1>3, <1>4 DEF EventsOK, b

(* A handler that has sent nothing moves on.                               *)
LEMMA OtherAttempt ==
  ASSUME AttemptsInv, NEW t \in Tasks, attempt[t] # "started",
         NEW at \in {"resetting", "started", "rejected", "over"},
         attempt' = [attempt EXCEPT ![t] = at], UNCHANGED <<phase, inbox>>
  PROVE  AttemptsInv'
<1>1. \A i \in 1..Len(inbox) : inbox[i].task \in Tasks /\ inbox[i].task # t
  BY InEvents DEF AttemptsInv, EventsOK
<1> QED
  BY <1>1 DEF AttemptsInv, EventsOK

LEMMA AttemptMoves ==
  ASSUME NEW box, NEW att, NEW att2, NEW ph, NEW ph2, EventsOK(box, att, ph),
         NEW t \in Tasks, att[t] # "started",
         \A u \in Tasks \ {t} : att2[u] = att[u] /\ ph2[u] = ph[u]
  PROVE  EventsOK(box, att2, ph2)
<1>1. \A i \in 1..Len(box) : box[i].task \in Tasks /\ box[i].task # t
  BY InEvents DEF EventsOK
<1> QED
  BY <1>1 DEF EventsOK

(* Resets that still wait are of handlers that still wait.                 *)
LEMMA ResetsKept ==
  ASSUME ResetsInv, UNCHANGED resets, AttemptsInv,
         \A t \in Tasks : attempt[t] = "resetting" => attempt'[t] = "resetting"
  PROVE  ResetsInv'
<1>1. ASSUME NEW i \in 1..Len(resets) PROVE resets[i].task \in Tasks
  <2>1. resets[i] \in Resets
    BY DEF ResetsInv
  <2> QED
    BY <2>1 DEF Resets
<1> QED
  BY <1>1 DEF ResetsInv

LEMMA FirstReset ==
  ASSUME ResetsInv, resets # <<>>
  PROVE  /\ Head(resets) = resets[1] /\ 1 \in 1..Len(resets)
         /\ resets[1] \in Resets /\ resets[1].task \in Tasks /\ resets[1].ok \in BOOLEAN
<1>1. /\ Head(resets) = resets[1] /\ Head(resets) \in Resets /\ Len(resets) \in Nat \ {0}
  BY SeqTail DEF ResetsInv
<1>2. 1 \in 1..Len(resets) /\ resets[1] \in Resets
  BY <1>1
<1>3. resets[1].task \in Tasks /\ resets[1].ok \in BOOLEAN
  BY <1>2 DEF Resets
<1> QED
  BY <1>1, <1>2, <1>3

-----------------------------------------------------------------------------
LEMMA StartExecutionKeeps ==
  ASSUME WindowInv, NEW t \in Tasks, StartExecution(t)
  PROVE  WindowInv'
<1> USE DEF WindowInv
<1> DEFINE s == Scope(t)
<1>1. s \in Scopes
  BY DEF Scope, ScopeOf, Scopes
<1>2. PICK ok \in BOOLEAN :
        /\ resets' = Append(resets, [task |-> t, ok |-> ok])
        /\ logFile' = IF ok THEN [logFile EXCEPT ![s] = [task |-> t, lines |-> {}]]
                      ELSE logFile
  BY DEF StartExecution
<1>3. /\ attempt[t] = "none" /\ window.task = NoTask
      /\ attempt' = [attempt EXCEPT ![t] = "resetting"]
      /\ target' = [target EXCEPT ![s] = "none"]
      /\ window' = IF ModeOf[t] = "build"
                   THEN [window EXCEPT !.build = t, !.buildStatus = "running"]
                   ELSE window
      /\ overlapped' = (overlapped \/ resets # <<>>)
      /\ UNCHANGED <<preview, phase, inbox>>
  BY DEF StartExecution, service
<1>4. AttemptsInv'
  BY <1>3, OtherAttempt
<1>5. ResetsInv'
  <2> DEFINE r == [task |-> t, ok |-> ok]
  <2>1. r \in Resets /\ r.task = t
    BY DEF Resets
  <2> HIDE DEF r
  <2>2. /\ resets' \in Seq(Resets) /\ Len(resets) \in Nat /\ Len(resets') = Len(resets) + 1
        /\ \A i \in 1..Len(resets) : resets'[i] = resets[i]
        /\ resets'[Len(resets) + 1] = r
    BY <1>2, <2>1, SeqAppend DEF ResetsInv, r
  <2>3. \A i \in 1..Len(resets') : i \in 1..Len(resets) \/ i = Len(resets) + 1
    BY <2>2
  <2>4. \A i \in 1..Len(resets) : /\ attempt[resets[i].task] = "resetting"
                                  /\ resets[i].task # t /\ resets'[i].task = resets[i].task
    BY <1>3, <2>2 DEF ResetsInv
  <2>5. attempt'[t] = "resetting" /\ \A u : u # t => attempt'[u] = attempt[u]
    BY <1>3 DEF AttemptsInv
  <2>6. \A i \in 1..Len(resets') : attempt'[resets'[i].task] = "resetting"
    BY <2>1, <2>2, <2>3, <2>4, <2>5
  <2>7. ASSUME NEW i \in 1..Len(resets'), NEW j \in 1..Len(resets'),
               resets'[i].task = resets'[j].task
        PROVE  i = j
    <3>1. CASE i \in 1..Len(resets) /\ j \in 1..Len(resets)
      BY <2>4, <2>7, <3>1 DEF ResetsInv
    <3>2. CASE ~(i \in 1..Len(resets) /\ j \in 1..Len(resets))
      BY <2>1, <2>2, <2>3, <2>4, <2>7, <3>2
    <3> QED
      BY <3>1, <3>2
  <2> QED
    BY <2>2, <2>6, <2>7 DEF ResetsInv
<1>6. /\ window' \in Windows /\ window'.task = NoTask
  BY <1>3 DEF ShapesInv, Windows
<1>7. /\ logFile' \in [Scopes -> LogFiles] /\ (ok => logFile'[s].task = t)
      /\ \A u \in Scopes : logFile'[u] = logFile[u] \/ logFile'[u].lines = {}
  BY <1>1, <1>2 DEF ShapesInv, LogFiles
<1>8. ShapesInv'
  BY <1>3, <1>6, <1>7 DEF ShapesInv
<1>9. ASSUME ~overlapped' PROVE ShownInv' /\ ConsolesInv'
  <2>1. ~overlapped /\ resets = <<>> /\ ShownInv /\ ConsolesInv
    BY <1>3, <1>9 DEF ShapesInv
  <2>2. Len(resets') = 1 /\ resets'[1] = [task |-> t, ok |-> ok]
    BY <1>2, <2>1
  <2>3. ShownInv'
    BY <1>3, <1>6, <1>7, <2>1, <2>2 DEF ShownInv, AttemptsInv
  <2>4. \A u \in Scopes : target'[u] # "active"
    BY <1>3, <2>1 DEF ConsolesInv, ShapesInv
  <2>5. \A u \in Scopes : logFile'[u].lines \subseteq {logFile'[u].task}
    BY <1>7, <2>1 DEF ConsolesInv
  <2> QED
    BY <1>3, <1>6, <2>1, <2>3, <2>4, <2>5 DEF ConsolesInv
<1> QED
  BY <1>4, <1>5, <1>8, <1>9

LEMMA ResetRepliedKeeps ==
  ASSUME WindowInv, ResetReplied
  PROVE  WindowInv'
<1> USE DEF WindowInv
<1> DEFINE t == resets[1].task
           ok == resets[1].ok
           s == Scope(t)
<1>1. resets # <<>> /\ Head(resets) = resets[1] /\ t \in Tasks /\ ok \in BOOLEAN
      /\ 1 \in 1..Len(resets)
  BY FirstReset DEF ResetReplied
<1>2. s \in Scopes
  BY DEF Scope, ScopeOf, Scopes
<1>3. /\ resets' = Tail(resets)
      /\ target' = [target EXCEPT ![s] = TargetOf(ok)]
      /\ logFile' = IF target'[s] = "active"
                    THEN [logFile EXCEPT ![s].lines = @ \union {t}] ELSE logFile
      /\ window' = [Running(window, t) EXCEPT !.scope = s]
      /\ preview' = [preview EXCEPT ![s] = t]
      /\ UNCHANGED overlapped
  BY <1>1 DEF ResetReplied
<1>4. \/ /\ attempt' = [attempt EXCEPT ![t] = "started"]
         /\ phase' = [phase EXCEPT ![t] = "running"]
         /\ inbox' = Append(inbox, [task |-> t, type |-> "started"])
      \/ /\ attempt' = [attempt EXCEPT ![t] = "rejected"]
         /\ UNCHANGED <<phase, inbox>>
  BY <1>1 DEF ResetReplied, Sent
<1>5. attempt[t] = "resetting"
  BY <1>1 DEF ResetsInv
<1> HIDE DEF t, ok, s
<1>6. AttemptsInv'
  <2>1. CASE /\ attempt' = [attempt EXCEPT ![t] = "started"]
             /\ phase' = [phase EXCEPT ![t] = "running"]
             /\ inbox' = Append(inbox, [task |-> t, type |-> "started"])
    <3>1. /\ \A u \in Tasks \ {t} : attempt'[u] = attempt[u] /\ phase'[u] = phase[u]
          /\ attempt'[t] = "started" /\ phase'[t] = "running"
          /\ attempt' \in [Tasks -> {"none", "resetting", "started", "rejected", "over"}]
          /\ phase' \in [Tasks -> {"new", "running", "forgotten"}]
      BY <1>1, <2>1 DEF AttemptsInv
    <3>2. EventsOK(inbox, attempt', phase')
      BY <1>1, <1>5, <3>1, AttemptMoves DEF AttemptsInv
    <3>3. EventsOK(inbox', attempt', phase')
      BY <1>1, <2>1, <3>1, <3>2, EventSent DEF EventTypes
    <3> QED
      BY <3>1, <3>3 DEF AttemptsInv
  <2>2. CASE /\ attempt' = [attempt EXCEPT ![t] = "rejected"]
             /\ UNCHANGED <<phase, inbox>>
    BY <1>1, <1>5, <2>2, OtherAttempt
  <2> QED
    BY <1>4, <2>1, <2>2
<1>7. /\ attempt'[t] \in {"started", "rejected"}
      /\ \A u \in Tasks \ {t} : attempt'[u] = attempt[u]
  BY <1>1, <1>4 DEF AttemptsInv
<1>8. ResetsInv'
  <2>1. /\ resets' \in Seq(Resets) /\ Len(resets) \in Nat \ {0} /\ Len(resets') = Len(resets) - 1
        /\ \A i \in 1..Len(resets') : resets'[i] = resets[i + 1] /\ i + 1 \in 1..Len(resets)
    BY <1>1, <1>3, SeqTail DEF ResetsInv
  <2>2. ASSUME NEW i \in 1..Len(resets') PROVE attempt'[resets'[i].task] = "resetting"
    <3>1. resets'[i].task = resets[i + 1].task /\ i + 1 \in 1..Len(resets) /\ i + 1 # 1
      BY <2>1
    <3>2. resets[i + 1].task # t /\ attempt[resets[i + 1].task] = "resetting"
      BY <1>1, <3>1 DEF ResetsInv, t
    <3>3. resets[i + 1] \in Resets
      BY <3>1 DEF ResetsInv
    <3> QED
      BY <1>7, <3>1, <3>2, <3>3 DEF Resets
  <2>3. ASSUME NEW i \in 1..Len(resets'), NEW j \in 1..Len(resets'),
               resets'[i].task = resets'[j].task
        PROVE  i = j
    <3>1. PICK k \in 1..Len(resets) : k = i + 1 /\ resets'[i] = resets[k]
      BY <2>1
    <3>2. PICK l \in 1..Len(resets) : l = j + 1 /\ resets'[j] = resets[l]
      BY <2>1
    <3>3. resets[k].task = resets[l].task
      BY <2>3, <3>1, <3>2
    <3>4. k = l
      BY <3>3 DEF ResetsInv
    <3> QED
      BY <3>1, <3>2, <3>4
  <2> QED
    BY <2>1, <2>2, <2>3 DEF ResetsInv
<1>9. /\ window' \in Windows /\ window'.task = t
  BY <1>1, <1>2, <1>3, WindowAssumption DEF ShapesInv, Windows, Running
<1>10. ShapesInv'
  <2>1. target' \in [Scopes -> {"none", "active", "inactive"}]
    BY <1>2, <1>3 DEF ShapesInv, TargetOf
  <2>2. logFile' \in [Scopes -> LogFiles]
    BY <1>1, <1>2, <1>3 DEF ShapesInv, LogFiles
  <2>3. preview' \in [Scopes -> Tasks \union {NoTask}]
    BY <1>1, <1>3 DEF ShapesInv
  <2> QED
    BY <1>3, <1>9, <2>1, <2>2, <2>3 DEF ShapesInv
<1>11. ASSUME ~overlapped' PROVE ShownInv' /\ ConsolesInv'
  <2>1. /\ ShownInv /\ ConsolesInv /\ window.task = NoTask /\ Len(resets) = 1
        /\ t # NoTask /\ (ok => logFile[s].task = t)
    BY <1>1, <1>3, <1>11, WindowAssumption DEF ShownInv, t, ok, s
  <2>2. resets' = <<>>
    <3>1. Len(Tail(resets)) = 0 /\ Tail(resets) \in Seq(Resets)
      BY <1>1, <2>1, SeqTail DEF ResetsInv
    <3> QED
      BY <1>3, <3>1
  <2>3. \A u \in Tasks \ {t} : attempt[u] \notin {"started", "rejected"}
    BY <2>1, WindowAssumption DEF ShownInv
  <2>4. ShownInv'
    BY <1>7, <1>9, <2>2, <2>3 DEF ShownInv
  <2>5. \A u \in Scopes : target[u] # "active" /\ preview[u] = NoTask
    BY <2>1 DEF ConsolesInv, ShapesInv
  <2>6. \A u \in Scopes \ {s} : target'[u] # "active" /\ preview'[u] = NoTask /\ logFile'[u] = logFile[u]
    BY <1>2, <1>3, <2>5 DEF ShapesInv
  <2>7. target'[s] = TargetOf(ok) /\ preview'[s] = t
    BY <1>2, <1>3 DEF ShapesInv
  <2>8. CASE target'[s] = "active"
    <3>1. ok
      BY <2>7, <2>8, <1>1 DEF TargetOf
    <3>2. logFile'[s].task = t /\ logFile'[s].lines = logFile[s].lines \union {t}
      BY <1>2, <1>3, <2>1, <2>8, <3>1 DEF ShapesInv, LogFiles
    <3>3. logFile'[s].lines \subseteq {logFile'[s].task}
      BY <1>2, <2>1, <3>1, <3>2 DEF ConsolesInv
    <3> QED
      BY <1>9, <2>1, <2>4, <2>6, <2>7, <3>2, <3>3 DEF ConsolesInv, s
  <2>9. CASE target'[s] # "active"
    BY <1>3, <1>9, <2>1, <2>4, <2>6, <2>7, <2>9 DEF ConsolesInv
  <2> QED
    BY <2>8, <2>9
<1> QED
  BY <1>6, <1>8, <1>10, <1>11

-----------------------------------------------------------------------------
(* A handler ends: the window shows no task, and its consoles are free.    *)
LEMMA EndFreesConsoles ==
  ASSUME ShapesInv, ShownInv, ConsolesInv, NEW t \in Tasks, window.task = t,
         logFile' = Append1(logFile, Scope(t), t),
         FinishConsole(Scope(t)), preview' = ReleaseExecutionCommand(t),
         window'.task = NoTask
  PROVE  ConsolesInv'
<1> DEFINE s == Scope(t)
<1>1. s \in Scopes /\ t # NoTask
  BY WindowAssumption DEF Scope, ScopeOf, Scopes
<1>2. \A u \in Scopes : target'[u] # "active"
  <2>1. \A u \in Scopes : target[u] = "active" => u = s
    BY DEF ConsolesInv
  <2>2. \A u \in Scopes : target'[u] = IF u = s /\ target[u] = "active" THEN "inactive"
                                        ELSE target[u]
    BY DEF FinishConsole, ShapesInv
  <2> QED
    BY <2>1, <2>2
<1>3. \A u \in Scopes : logFile'[u].lines \subseteq {logFile'[u].task}
  <2>1. CASE target[s] = "active"
    <3>1. logFile[s].task = t
      BY <1>1, <2>1 DEF ConsolesInv
    <3>2. logFile' = [logFile EXCEPT ![s].lines = @ \union {t}]
      BY <2>1 DEF Append1
    <3>3. /\ logFile'[s].task = t /\ logFile'[s].lines = logFile[s].lines \union {t}
          /\ \A u \in Scopes \ {s} : logFile'[u] = logFile[u]
      BY <1>1, <3>1, <3>2 DEF ShapesInv, LogFiles
    <3> QED
      BY <1>1, <3>1, <3>3 DEF ConsolesInv
  <2>2. CASE target[s] # "active"
    BY <2>2 DEF Append1, ConsolesInv
  <2> QED
    BY <2>1, <2>2
<1>4. \A u \in Scopes : preview'[u] = NoTask
  <2>1. \A u \in Scopes : preview[u] \in {NoTask, t}
    BY DEF ConsolesInv
  <2> DEFINE mine == {u \in Scopes : preview[u] = t}
  <2>2. window.scope \in Scopes
    BY DEF ShapesInv, Windows
  <2>3. CASE mine = {}
    <3>1. preview[window.scope] = NoTask
      BY <2>1, <2>2, <2>3
    <3>2. \A u \in Scopes : preview'[u] = NoTask
      BY <2>1, <2>3, <3>1 DEF ReleaseExecutionCommand
    <3> QED
      BY <3>2
  <2>4. CASE mine # {}
    BY <2>1, <2>4 DEF ReleaseExecutionCommand
  <2> QED
    BY <2>3, <2>4
<1> QED
  BY <1>2, <1>3, <1>4 DEF ConsolesInv

LEMMA EndKeepsShapes ==
  ASSUME ShapesInv, NEW t \in Tasks, UNCHANGED overlapped,
         logFile' = Append1(logFile, Scope(t), t),
         FinishConsole(Scope(t)), preview' = ReleaseExecutionCommand(t),
         NEW status \in {"none", "stopped", "ended"},
         window' = IF ModeOf[t] = "build"
                   THEN [NotRunning(window) EXCEPT !.buildStatus = status]
                   ELSE NotRunning(window)
  PROVE  ShapesInv' /\ window'.task = NoTask
<1>1. Scope(t) \in Scopes
  BY DEF Scope, ScopeOf, Scopes
<1>2. window' \in Windows /\ window'.task = NoTask
  BY DEF ShapesInv, Windows, NotRunning
<1>3. logFile' \in [Scopes -> LogFiles]
  BY <1>1 DEF ShapesInv, LogFiles, Append1
<1>4. target' \in [Scopes -> {"none", "active", "inactive"}]
  BY <1>1 DEF ShapesInv, FinishConsole
<1>5. preview' \in [Scopes -> Tasks \union {NoTask}]
  BY DEF ShapesInv, ReleaseExecutionCommand
<1> QED
  BY <1>2, <1>3, <1>4, <1>5 DEF ShapesInv

LEMMA StartRejectedKeeps ==
  ASSUME WindowInv, NEW t \in Tasks, StartRejected(t)
  PROVE  WindowInv'
<1> USE DEF WindowInv
<1>1. /\ attempt[t] = "rejected" /\ attempt' = [attempt EXCEPT ![t] = "over"]
      /\ logFile' = Append1(logFile, Scope(t), t) /\ FinishConsole(Scope(t))
      /\ UNCHANGED <<resets, phase, inbox, overlapped>>
      /\ IF window.task = t
         THEN /\ preview' = ReleaseExecutionCommand(t)
              /\ window' = IF ModeOf[t] = "build"
                           THEN [NotRunning(window) EXCEPT !.buildStatus = "none"]
                           ELSE NotRunning(window)
         ELSE UNCHANGED <<preview, window>>
  BY DEF StartRejected, service
<1>2. AttemptsInv'
  BY <1>1, OtherAttempt
<1>3. ResetsInv'
  BY <1>1, ResetsKept DEF AttemptsInv
<1>4. \A u \in Tasks \ {t} : attempt'[u] = attempt[u]
  BY <1>1 DEF AttemptsInv
<1>5. CASE window.task = t
  <2>1. ShapesInv' /\ window'.task = NoTask
    BY <1>1, <1>5, EndKeepsShapes
  <2>2. ASSUME ~overlapped PROVE ShownInv' /\ ConsolesInv'
    <3>1. ConsolesInv'
      BY <1>1, <1>5, <2>1, <2>2, EndFreesConsoles
    <3>2. resets = <<>>
      BY <1>5, <2>2, WindowAssumption DEF ShownInv
    <3>3. \A u \in Tasks : attempt'[u] \notin {"started", "rejected"}
      BY <1>1, <1>4, <1>5, <2>2 DEF ShownInv, AttemptsInv
    <3> QED
      BY <1>1, <3>1, <3>2, <3>3 DEF ShownInv
  <2> QED
    BY <1>1, <1>2, <1>3, <2>1, <2>2
<1>6. CASE window.task # t
  <2>1. overlapped
    BY <1>1, <1>6 DEF ShownInv, ShapesInv
  <2>2. Scope(t) \in Scopes
    BY DEF Scope, ScopeOf, Scopes
  <2>3. logFile' \in [Scopes -> LogFiles]
    BY <1>1, <2>2 DEF ShapesInv, LogFiles, Append1
  <2>4. target' \in [Scopes -> {"none", "active", "inactive"}]
    BY <1>1, <2>2 DEF ShapesInv, FinishConsole
  <2>5. ShapesInv'
    BY <1>1, <1>6, <2>3, <2>4 DEF ShapesInv
  <2> QED
    BY <1>1, <1>2, <1>3, <2>1, <2>5
<1> QED
  BY <1>5, <1>6

(* What the window shows changes, but not the task.                        *)
LEMMA SameTask ==
  ASSUME WindowInv, UNCHANGED <<attempt, resets, preview, target, logFile, overlapped>>,
         window' \in Windows, window'.task = window.task, AttemptsInv'
  PROVE  WindowInv'
<1>1. ResetsInv'
  BY ResetsKept DEF WindowInv
<1>2. ShapesInv'
  BY DEF WindowInv, ShapesInv
<1>3. ASSUME ~overlapped' PROVE ShownInv' /\ ConsolesInv'
  BY <1>3 DEF WindowInv, ShownInv, ConsolesInv
<1> QED
  BY <1>1, <1>2, <1>3 DEF WindowInv

LEMMA CompletedKeeps ==
  ASSUME WindowInv, inbox # <<>>, inbox' = Tail(inbox), NEW t \in Tasks, t = Head(inbox).task,
         Head(inbox).type = "completed", Completed(t), UNCHANGED <<resets, service, overlapped>>,
         outcome[t] \in {"none", "stopped", "ended"}
  PROVE  WindowInv'
<1> USE DEF WindowInv
<1>1. /\ logFile' = Append1(logFile, Scope(t), t) /\ FinishConsole(Scope(t))
      /\ preview' = ReleaseExecutionCommand(t)
      /\ window' = IF ModeOf[t] = "build"
                   THEN [NotRunning(window) EXCEPT !.buildStatus = outcome[t]]
                   ELSE NotRunning(window)
      /\ attempt' = [attempt EXCEPT ![t] = "over"] /\ UNCHANGED phase
  BY DEF Completed, service
<1>2. attempt[t] = "started" /\ phase[t] # "running"
  <2>1. /\ Head(inbox) = inbox[1] /\ Len(inbox) \in Nat \ {0}
    BY SeqTail DEF AttemptsInv, EventsOK
  <2> QED
    BY <2>1 DEF AttemptsInv, EventsOK
<1>3. \A u \in Tasks \ {t} : attempt'[u] = attempt[u]
  BY <1>1 DEF AttemptsInv
<1>4. AttemptsInv'
  <2>1. EventsOK(Tail(inbox), attempt', phase)
    BY <1>3, EventTaken DEF AttemptsInv
  <2>2. /\ attempt' \in [Tasks -> {"none", "resetting", "started", "rejected", "over"}]
    BY <1>1 DEF AttemptsInv
  <2> QED
    BY <1>1, <1>2, <1>3, <2>1, <2>2 DEF AttemptsInv
<1>5. ResetsInv'
  BY <1>1, <1>2, ResetsKept DEF AttemptsInv
<1>6. ShapesInv' /\ window'.task = NoTask
  BY <1>1, EndKeepsShapes
<1>7. ASSUME ~overlapped' PROVE ShownInv' /\ ConsolesInv'
  <2>1. ShownInv /\ ConsolesInv /\ window.task = t
    BY <1>2, <1>7 DEF ShownInv
  <2>2. ConsolesInv'
    BY <1>1, <1>6, <2>1, EndFreesConsoles
  <2>3. resets = <<>>
    BY <2>1, WindowAssumption DEF ShownInv
  <2>4. \A u \in Tasks : attempt'[u] \notin {"started", "rejected"}
    BY <1>1, <1>3, <2>1 DEF ShownInv, AttemptsInv
  <2> QED
    BY <2>2, <2>3, <2>4 DEF ShownInv
<1> QED
  BY <1>4, <1>5, <1>6, <1>7

LEMMA ShownKeeps ==
  ASSUME WindowInv, inbox # <<>>, inbox' = Tail(inbox), NEW t \in Tasks, t = Head(inbox).task,
         NEW type, type = Head(inbox).type, Shown(t, type),
         UNCHANGED <<resets, service, overlapped>>
  PROVE  WindowInv'
<1> USE DEF WindowInv
<1> DEFINE s == Scope(t)
<1>1. /\ window' = CASE type = "step-start" -> [window EXCEPT !.paused = TRUE]
                     [] type = "step-finish" -> [window EXCEPT !.paused = FALSE]
                     [] OTHER -> window
      /\ preview' = preview \/ preview' = [preview EXCEPT ![s] = t]
      /\ logFile' = logFile \/ logFile' = Append1(logFile, s, t)
      /\ UNCHANGED <<attempt, target, phase>>
  BY DEF Shown, service
<1>2. attempt[t] = "started" /\ s \in Scopes
  <2>1. /\ Head(inbox) = inbox[1] /\ Len(inbox) \in Nat \ {0}
    BY SeqTail DEF AttemptsInv, EventsOK
  <2> QED
    BY <2>1 DEF AttemptsInv, EventsOK, Scope, ScopeOf, Scopes
<1>3. AttemptsInv'
  <2>1. EventsOK(Tail(inbox), attempt, phase)
    BY EventTaken DEF AttemptsInv
  <2> QED
    BY <1>1, <2>1 DEF AttemptsInv
<1>4. ResetsInv'
  BY <1>1, ResetsKept
<1>5. window' \in Windows /\ window'.task = window.task
  BY <1>1 DEF ShapesInv, Windows
<1>6. ShapesInv'
  <2>3. logFile' = logFile \/ logFile' = [logFile EXCEPT ![s].lines = @ \union {t}]
    BY <1>1 DEF Append1
  <2>4. logFile \in [Scopes -> LogFiles]
    BY DEF ShapesInv
  <2>1. logFile' \in [Scopes -> LogFiles]
    <3> HIDE DEF s
    <3> QED
      BY <1>2, <2>3, <2>4 DEF LogFiles
  <2>2. preview' \in [Scopes -> Tasks \union {NoTask}]
    BY <1>1 DEF ShapesInv
  <2> QED
    BY <1>1, <1>5, <2>1, <2>2 DEF ShapesInv
<1>7. ASSUME ~overlapped' PROVE ShownInv' /\ ConsolesInv'
  <2>1. ShownInv /\ ConsolesInv /\ window.task = t /\ resets = <<>>
    BY <1>2, <1>7, WindowAssumption DEF ShownInv
  <2>2. ShownInv'
    BY <1>1, <1>5, <2>1 DEF ShownInv
  <2>3. /\ \A u \in Scopes : logFile'[u].task = logFile[u].task
        /\ \A u \in Scopes : logFile'[u].lines \subseteq {logFile'[u].task}
    <3>1. CASE logFile' = logFile
      BY <2>1, <3>1 DEF ConsolesInv
    <3>2. CASE target[s] = "active" /\ logFile' = [logFile EXCEPT ![s].lines = @ \union {t}]
      <4>1. logFile[s].task = t
        BY <1>2, <2>1, <3>2 DEF ConsolesInv
      <4>2. /\ logFile'[s].task = t /\ logFile'[s].lines = logFile[s].lines \union {t}
            /\ \A u \in Scopes \ {s} : logFile'[u] = logFile[u]
        BY <1>2, <3>2, <4>1 DEF ShapesInv, LogFiles
      <4> QED
        BY <1>2, <2>1, <4>1, <4>2 DEF ConsolesInv
    <3> QED
      BY <1>1, <3>1, <3>2 DEF Append1
  <2>4. \A u \in Scopes : preview'[u] # NoTask => window'.task = preview'[u]
    BY <1>1, <1>2, <1>5, <2>1 DEF ConsolesInv, ShapesInv
  <2> QED
    BY <1>1, <1>5, <2>1, <2>2, <2>3, <2>4 DEF ConsolesInv
<1> QED
  BY <1>3, <1>4, <1>6, <1>7

(* What the window takes from the outcomes and from the tabs.              *)
SourcesInv ==
  /\ open \subseteq Files
  /\ outcome \in [Tasks -> {"none", "stopped", "ended"}]
  /\ entry \in [Files -> BOOLEAN]

LEMMA HandleEventKeeps ==
  ASSUME WindowInv, SourcesInv, HandleEvent
  PROVE  WindowInv'
<1> DEFINE t == Head(inbox).task
           type == Head(inbox).type
<1>1. /\ inbox # <<>> /\ inbox' = Tail(inbox)
      /\ UNCHANGED <<resets, service, overlapped>>
      /\ \/ UNCHANGED <<attempt, window, preview, console>>
         \/ type = "completed" /\ Completed(t)
         \/ type # "completed" /\ Shown(t, type)
  BY DEF HandleEvent
<1>2. t \in Tasks
  <2>1. Head(inbox) \in Events
    BY <1>1, SeqTail DEF WindowInv, AttemptsInv, EventsOK
  <2> QED
    BY <2>1 DEF Events
<1>3. CASE UNCHANGED <<attempt, window, preview, console>>
  <2>1. EventsOK(Tail(inbox), attempt, phase)
    BY <1>1, EventTaken DEF WindowInv, AttemptsInv
  <2>2. AttemptsInv'
    BY <1>1, <1>3, <2>1 DEF WindowInv, AttemptsInv, service
  <2> QED
    BY <1>1, <1>3, <2>2, SameTask DEF WindowInv, ShapesInv, console
<1>4. CASE type = "completed" /\ Completed(t)
  BY <1>1, <1>2, <1>4, CompletedKeeps DEF SourcesInv
<1>5. CASE Shown(t, type)
  BY <1>1, <1>2, <1>5, ShownKeeps
<1> QED
  BY <1>1, <1>3, <1>4, <1>5

-----------------------------------------------------------------------------
(* The main process, and the rest of the window.                           *)
LEMMA QueueGrows ==
  ASSUME WindowInv, NEW t \in Tasks, phase[t] = "running",
         NEW type \in EventTypes \ {"completed"}, inbox' = Sent(t, type),
         UNCHANGED <<attempt, phase>>
  PROVE  AttemptsInv'
<1>1. EventsOK(inbox', attempt, phase)
  BY EventSent DEF WindowInv, AttemptsInv, Sent
<1> QED
  BY <1>1 DEF WindowInv, AttemptsInv

LEMMA TaskOutputKeeps ==
  ASSUME WindowInv, NEW t \in Tasks, TaskOutput(t)
  PROVE  WindowInv'
<1>1. AttemptsInv'
  BY QueueGrows DEF TaskOutput, EventTypes, service
<1> QED
  BY <1>1, SameTask DEF TaskOutput, WindowInv, ShapesInv, console

LEMMA StepStartsKeeps ==
  ASSUME WindowInv, NEW t \in Tasks, StepStarts(t)
  PROVE  WindowInv'
<1> DEFINE start == [task |-> t, type |-> "step-start"]
           finish == [task |-> t, type |-> "step-finish"]
<1>1. /\ phase[t] = "running" /\ UNCHANGED <<attempt, phase>>
      /\ inbox' = Append(inbox, start) \o (IF debugger[t].unread THEN <<finish>> ELSE <<>>)
  BY DEF StepStarts, Sent
<1>2. attempt[t] = "started" /\ EventsOK(inbox, attempt, phase)
  BY <1>1 DEF WindowInv, AttemptsInv
<1>3. EventsOK(Append(inbox, start), attempt, phase)
  BY <1>1, <1>2, EventSent DEF EventTypes
<1>4. Append(inbox, start) \in Seq(Events)
  BY <1>3 DEF EventsOK
<1>5. EventsOK(Append(Append(inbox, start), finish), attempt, phase)
  BY <1>1, <1>2, <1>3, EventSent DEF EventTypes
<1>6. finish \in Events
  BY DEF Events, EventTypes
<1> HIDE DEF start, finish
<1>7. \/ inbox' = Append(inbox, start)
      \/ inbox' = Append(Append(inbox, start), finish)
  <2> DEFINE b == Append(inbox, start)
  <2> HIDE DEF b
  <2>1. b \in Seq(Events)
    BY <1>4 DEF b
  <2>2. b \o <<>> = b /\ b \o <<finish>> = Append(b, finish)
    BY <1>6, <2>1
  <2> QED
    BY <1>1, <2>2 DEF b
<1>8. AttemptsInv'
  BY <1>1, <1>3, <1>5, <1>7 DEF WindowInv, AttemptsInv
<1> QED
  BY <1>8, SameTask DEF StepStarts, WindowInv, ShapesInv, console

LEMMA TaskCompletesKeeps ==
  ASSUME WindowInv, NEW t \in Tasks, TaskCompletes(t)
  PROVE  WindowInv'
<1>1. /\ phase[t] = "running" /\ phase' = [phase EXCEPT ![t] = "forgotten"]
      /\ inbox' = Append(inbox, [task |-> t, type |-> "completed"]) /\ UNCHANGED attempt
  BY DEF TaskCompletes, Sent
<1>2. /\ phase' \in [Tasks -> {"new", "running", "forgotten"}] /\ phase'[t] # "running"
      /\ \A u \in Tasks \ {t} : phase'[u] = phase[u]
  BY <1>1 DEF WindowInv, AttemptsInv
<1>3. EventsOK(inbox', attempt, phase')
  BY <1>1, <1>2, EndSent DEF WindowInv, AttemptsInv
<1>4. AttemptsInv'
  BY <1>1, <1>2, <1>3 DEF WindowInv, AttemptsInv
<1> QED
  BY <1>4, SameTask DEF TaskCompletes, WindowInv, ShapesInv, console

LEMMA SendDebugCommandKeeps ==
  ASSUME WindowInv, SendDebugCommand
  PROVE  WindowInv'
<1> DEFINE t == window.task
<1>1. t \in Tasks
  BY DEF SendDebugCommand, WindowInv, ShapesInv, Windows
<1>2. /\ \/ phase[t] = "running" /\ inbox' = Sent(t, "step-finish")
         \/ UNCHANGED inbox
      /\ UNCHANGED <<attempt, phase, resets, preview, target, logFile, overlapped>>
      /\ window' = [window EXCEPT !.paused = FALSE]
  BY DEF SendDebugCommand, console
<1>3. AttemptsInv'
  <2>1. CASE phase[t] = "running" /\ inbox' = Sent(t, "step-finish")
    BY <1>1, <1>2, <2>1, QueueGrows DEF EventTypes
  <2>2. CASE UNCHANGED inbox
    BY <1>2, <2>2 DEF WindowInv, AttemptsInv
  <2> QED
    BY <1>2, <2>1, <2>2
<1>4. window' \in Windows /\ window'.task = window.task
  BY <1>2 DEF WindowInv, ShapesInv, Windows
<1> QED
  BY <1>2, <1>3, <1>4, SameTask

(* The steps that send nothing and leave the handlers where they are.      *)
LEMMA OnlyPosition ==
  ASSUME WindowInv,
         UNCHANGED <<attempt, phase, inbox, resets, target, logFile, overlapped>>,
         UNCHANGED preview \/ ResetCommandPreview,
         window' \in Windows, window'.task = window.task
  PROVE  WindowInv'
<1>1. AttemptsInv'
  BY DEF WindowInv, AttemptsInv
<1>2. CASE UNCHANGED preview
  BY <1>1, <1>2, SameTask
<1>3. CASE ResetCommandPreview
  <2>1. PICK s \in Scopes : s = window.scope
    BY DEF WindowInv, ShapesInv, Windows
  <2>2. /\ preview' \in [Scopes -> Tasks \union {NoTask}]
        /\ \A u \in Scopes : preview'[u] \in {preview[u], NoTask}
    BY <1>3, <2>1 DEF ResetCommandPreview, WindowInv, ShapesInv
  <2>3. ResetsInv' /\ ShapesInv'
    BY <2>2 DEF WindowInv, ResetsInv, ShapesInv
  <2>4. ShownInv => ShownInv'
    BY DEF ShownInv
  <2>5. ConsolesInv => ConsolesInv'
    BY <2>2 DEF ConsolesInv
  <2> QED
    BY <1>1, <2>3, <2>4, <2>5 DEF WindowInv
<1> QED
  BY <1>2, <1>3

(* What opening, closing and looking at tabs changes besides the tabs.     *)
Synced(w) ==
  /\ w \in Windows
  /\ w.task = window.task /\ w.mode = window.mode /\ w.build = window.build

UntouchedByTabs == UNCHANGED otherThanTabs /\ (UNCHANGED preview \/ ResetCommandPreview)

LEMMA TabsSync ==
  ASSUME WindowInv, SourcesInv,
         (\E f \in Files : SwitchToTab(f) \/ OpenTab(f) \/ CloseTab(f)) \/ ClearEditor
  PROVE  Synced(window') /\ UntouchedByTabs
<1>1. window \in Windows
  BY DEF WindowInv, ShapesInv
<1>2. ASSUME NEW p \in BOOLEAN, SyncIn(p) PROVE Synced(window')
  BY <1>1, <1>2 DEF SyncIn, Windows, Synced
<1>3. PICK no \in BOOLEAN : no = FALSE
  OBVIOUS
<1>4. SyncIn(FALSE) => Synced(window')
  BY <1>2, <1>3
<1>5. \A f \in Files : SyncIn(entry[f]) => Synced(window')
  BY <1>2 DEF SourcesInv
<1>6. UNCHANGED window => Synced(window')
  BY <1>1 DEF Synced
<1>7. ASSUME NEW f \in Files, SwitchToTab(f) PROVE Synced(window') /\ UntouchedByTabs
  BY <1>5, <1>7 DEF SwitchToTab, UntouchedByTabs
<1>8. ASSUME NEW f \in Files, OpenTab(f) PROVE Synced(window') /\ UntouchedByTabs
  BY <1>4, <1>8 DEF OpenTab, UntouchedByTabs
<1>9. CASE ClearEditor
  BY <1>4, <1>9 DEF ClearEditor, UntouchedByTabs
<1>10. ASSUME NEW f \in Files, CloseTab(f) PROVE Synced(window') /\ UntouchedByTabs
  <2>1. \/ UNCHANGED window \/ SyncIn(FALSE) \/ \E g \in Files : SyncIn(entry[g])
    <3>1. CASE f # tab
      BY <1>10, <3>1 DEF CloseTab
    <3>2. CASE f = tab
      <4>1. \/ SyncIn(FALSE) \/ \E g \in open' : SyncIn(entry[g])
        BY <1>10, <3>2 DEF CloseTab
      <4>2. open' \subseteq Files
        BY <1>10 DEF CloseTab, SourcesInv
      <4> QED
        BY <4>1, <4>2
    <3> QED
      BY <3>1, <3>2
  <2>2. UntouchedByTabs
    BY <1>10 DEF CloseTab, UntouchedByTabs
  <2> QED
    BY <1>4, <1>5, <1>6, <2>1, <2>2
<1> QED
  BY <1>7, <1>8, <1>9, <1>10

LEMMA SyncKeeps ==
  ASSUME WindowInv, Synced(window'), UntouchedByTabs
  PROVE  WindowInv'
  BY OnlyPosition DEF Synced, UntouchedByTabs, otherThanTabs, service, console

LEMMA UserKeeps ==
  ASSUME WindowInv, SourcesInv, User
  PROVE  WindowInv'
<1>1. ASSUME NEW t \in Tasks, StartExecution(t) PROVE WindowInv'
  BY <1>1, StartExecutionKeeps
<1>2. CASE StopCurrentTask
  BY <1>2, OnlyPosition DEF StopCurrentTask, WindowInv, ShapesInv, console
<1>3. CASE SendDebugCommand
  BY <1>3, SendDebugCommandKeeps
<1>4. ASSUME NEW f \in Files, SwitchToTab(f) \/ OpenTab(f) \/ CloseTab(f) PROVE WindowInv'
  BY <1>4, TabsSync, SyncKeeps
<1>7. CASE ClearEditor
  BY <1>7, TabsSync, SyncKeeps
<1>5. ASSUME NEW s \in Scopes, SwitchWorkspaceView(s) PROVE WindowInv'
  <2>1. window' \in Windows /\ window'.task = window.task
    BY <1>5 DEF SwitchWorkspaceView, WindowInv, ShapesInv, Windows
  <2> QED
    BY <1>5, <2>1, OnlyPosition DEF SwitchWorkspaceView, otherThanTabs, service, console
<1>6. CASE OpenOtherProject
  <2>1. window' \in Windows /\ window'.task = window.task
    BY <1>6 DEF OpenOtherProject, WindowInv, ShapesInv, Windows
  <2> QED
    BY <1>6, <2>1, OnlyPosition DEF OpenOtherProject, otherThanTabs, service, console
<1> QED
  BY <1>1, <1>2, <1>3, <1>4, <1>5, <1>6, <1>7 DEF User

LEMMA DebugCommandRepliedKeeps ==
  ASSUME WindowInv, DebugCommandReplied
  PROVE  WindowInv'
<1>1. window' \in Windows /\ window'.task = window.task
  BY DEF DebugCommandReplied, WindowInv, ShapesInv, Windows
<1> QED
  BY <1>1, OnlyPosition DEF DebugCommandReplied, service, console

LEMMA SourcesKept ==
  ASSUME WindowInv, SourcesInv, [WindowNext]_windowVars
  PROVE  SourcesInv'
<1> USE DEF SourcesInv
<1>1. CASE UNCHANGED <<outcome, open, entry>>
  BY <1>1
<1>2. SyncOut \in [Files -> BOOLEAN]
  <2>1. window.paused \in BOOLEAN
    BY DEF WindowInv, ShapesInv, Windows
  <2> QED
    BY <2>1 DEF SyncOut
<1>3. ASSUME NEW f \in Files, SwitchToTab(f) PROVE SourcesInv'
  BY <1>2, <1>3 DEF SwitchToTab, otherThanTabs, service
<1>4. ASSUME NEW f \in Files, OpenTab(f) PROVE SourcesInv'
  BY <1>2, <1>4 DEF OpenTab, otherThanTabs, service
<1>5. ASSUME NEW f \in Files, CloseTab(f) PROVE SourcesInv'
  BY <1>5 DEF CloseTab, otherThanTabs, service
<1>6. CASE ClearEditor
  BY <1>6 DEF ClearEditor, otherThanTabs, service
<1>7. CASE OpenOtherProject
  BY <1>7 DEF OpenOtherProject, otherThanTabs, service
<1>8. ASSUME NEW t \in Tasks, TaskCompletes(t) PROVE SourcesInv'
  BY <1>8 DEF TaskCompletes, editor
<1> QED
  BY <1>1, <1>3, <1>4, <1>5, <1>6, <1>7, <1>8
     DEF WindowNext, User, StartExecution, StopCurrentTask, SendDebugCommand,
         SwitchWorkspaceView, ResetReplied, DebugCommandReplied, HandleEvent, StartRejected,
         TaskOutput, StepStarts, windowVars, service, editor, otherThanTabs

LEMMA WindowStep ==
  ASSUME WindowInv, SourcesInv, [WindowNext]_windowVars
  PROVE  WindowInv'
<1>1. CASE User
  BY <1>1, UserKeeps
<1>2. CASE ResetReplied \/ DebugCommandReplied \/ HandleEvent
  BY <1>2, ResetRepliedKeeps, DebugCommandRepliedKeeps, HandleEventKeeps
<1>3. ASSUME NEW t \in Tasks,
             StartRejected(t) \/ TaskOutput(t) \/ StepStarts(t) \/ TaskCompletes(t)
      PROVE  WindowInv'
  BY <1>3, StartRejectedKeeps, TaskOutputKeeps, StepStartsKeeps, TaskCompletesKeeps
<1>4. CASE UNCHANGED windowVars
  BY <1>4, OnlyPosition DEF windowVars, WindowInv, ShapesInv
<1> QED
  BY <1>1, <1>2, <1>3, <1>4 DEF WindowNext

LEMMA WindowStarts ==
  ASSUME WindowInit PROVE WindowInv /\ SourcesInv
<1>1. <<>> \in Seq(Events) /\ <<>> \in Seq(Resets) /\ Len(<<>>) = 0
  OBVIOUS
<1>2. AttemptsInv
  BY <1>1 DEF WindowInit, AttemptsInv, EventsOK
<1>3. ResetsInv
  BY <1>1 DEF WindowInit, ResetsInv
<1>4. ShapesInv
  <2>1. window \in Windows
    BY DEF WindowInit, Windows, Scopes
  <2>2. logFile \in [Scopes -> LogFiles]
    BY DEF WindowInit, LogFiles
  <2> QED
    BY <2>1, <2>2 DEF WindowInit, ShapesInv
<1>5. ShownInv /\ ConsolesInv
  BY DEF WindowInit, ShownInv, ConsolesInv
<1>6. SourcesInv
  BY WindowAssumption DEF WindowInit, SourcesInv
<1> QED
  BY <1>2, <1>3, <1>4, <1>5, <1>6 DEF WindowInv

LEMMA WindowInvariant == WindowSpec => [](WindowInv /\ SourcesInv)
  BY WindowStarts, WindowStep, SourcesKept, PTL DEF WindowSpec

(* Unless two starts overlapped, what is written on a console, its log     *)
(* file and its command, is of the one task the window shows.              *)
THEOREM ConsolesAreOwn == WindowSpec => []ConsoleIsOwn
<1>1. WindowInv => ConsoleIsOwn
  BY DEF WindowInv, ConsolesInv, ConsoleIsOwn, LogIsOwn, CommandReleased
<1> QED
  BY <1>1, WindowInvariant, PTL

-----------------------------------------------------------------------------
(* WindowFollowsTask: what the debugger and the tabs add.                  *)

Debuggers == [steps : Nat, waits : BOOLEAN, unread : BOOLEAN]

(* The types that WindowInv leaves out.                                    *)
DebugTypes ==
  /\ debugger \in [Tasks -> Debuggers]
  /\ cancelled \in [Tasks -> BOOLEAN]
  /\ command \in {"none", "sent", "unsent"}
  /\ tab \in open \union {NoTab} /\ dropped \in BOOLEAN

(* Only a debug run has steps, and it has none before it was started.      *)
DebugInv ==
  /\ window.task # NoTask => window.mode = ModeOf[window.task]
  /\ \A i \in 1..Len(inbox) :
       inbox[i].type \in {"step-start", "step-finish"} => ModeOf[inbox[i].task] = "debug"
  /\ \A t \in Tasks : debugger[t].waits => attempt[t] \in {"started", "over"}

Event(t, type) == [task |-> t, type |-> type]

(* The step t waits in is announced and not finished since.                *)
StepOnItsWay(t, box) ==
  \E i \in 1..Len(box) :
    /\ box[i] = Event(t, "step-start")
    /\ \A j \in 1..Len(box) : i < j => box[j] # Event(t, "step-finish")
NoFinish(t, box) == \A i \in 1..Len(box) : box[i] # Event(t, "step-finish")

(* By the tab on screen or by another, unless the offer was dropped.       *)
Offered == dropped \/ window.paused \/ \E f \in open \ {tab} : entry[f]

WaitsHere(t) == debugger[t].waits /\ phase[t] = "running" /\ window.task = t

(* A step in which a debugger waits is on its way to the window or offered *)
(* by a tab already.                                                       *)
StepInv ==
  \A t \in Tasks : WaitsHere(t) =>
    StepOnItsWay(t, inbox) \/ (Offered /\ NoFinish(t, inbox))

FollowInv == DebugTypes /\ DebugInv /\ ShownTaskLives /\ StepInv

(* Events in a queue that grows or is read from.                           *)
Has(box, e) == \E i \in 1..Len(box) : box[i] = e

LEMMA EventTyped ==
  ASSUME NEW t \in Tasks, NEW type \in EventTypes
  PROVE  Event(t, type) \in Events /\ Event(t, type).task = t /\ Event(t, type).type = type
  BY DEF Event, Events

(* What a queue keeps when e is put at its end.                            *)
Grown(box, b, e) ==
  /\ b \in Seq(Events) /\ Has(b, e)
  /\ \A x : Has(box, x) => Has(b, x)
  /\ \A x : Has(b, x) => x = e \/ Has(box, x)
  /\ \A t \in Tasks : e # Event(t, "step-finish") =>
       /\ StepOnItsWay(t, box) => StepOnItsWay(t, b)
       /\ NoFinish(t, box) => NoFinish(t, b)
  /\ \A t \in Tasks : e = Event(t, "step-start") => StepOnItsWay(t, b)

LEMMA BoxGrows ==
  ASSUME NEW box \in Seq(Events), NEW e \in Events, NEW b, b = Append(box, e)
  PROVE  Grown(box, b, e)
<1>1. /\ b \in Seq(Events) /\ Len(box) \in Nat /\ Len(b) = Len(box) + 1
      /\ \A i \in 1..Len(box) : b[i] = box[i] /\ i \in 1..Len(b)
      /\ b[Len(box) + 1] = e /\ Len(box) + 1 \in 1..Len(b)
  BY SeqAppend
<1>2. \A i \in 1..Len(b) : i \in 1..Len(box) \/ i = Len(box) + 1
  BY <1>1
<1>3. Has(b, e) /\ (\A x : Has(box, x) => Has(b, x)) /\ \A x : Has(b, x) => x = e \/ Has(box, x)
  <2>1. Has(b, e) /\ \A x : Has(box, x) => Has(b, x)
    BY <1>1 DEF Has
  <2>2. ASSUME NEW x, Has(b, x) PROVE x = e \/ Has(box, x)
    <3>1. PICK i \in 1..Len(b) : b[i] = x
      BY <2>2 DEF Has
    <3> QED
      BY <1>1, <1>2, <3>1 DEF Has
  <2> QED
    BY <2>1, <2>2
<1>4. ASSUME NEW t \in Tasks, e # Event(t, "step-finish"), StepOnItsWay(t, box)
      PROVE  StepOnItsWay(t, b)
  <2>1. PICK i \in 1..Len(box) :
          /\ box[i] = Event(t, "step-start")
          /\ \A j \in 1..Len(box) : i < j => box[j] # Event(t, "step-finish")
    BY <1>4 DEF StepOnItsWay
  <2>2. i \in 1..Len(b) /\ b[i] = Event(t, "step-start")
    BY <1>1, <2>1
  <2>3. \A j \in 1..Len(b) : i < j => b[j] # Event(t, "step-finish")
    BY <1>1, <1>2, <1>4, <2>1
  <2> QED
    BY <2>2, <2>3 DEF StepOnItsWay
<1>5. ASSUME NEW t \in Tasks, e # Event(t, "step-finish"), NoFinish(t, box)
      PROVE  NoFinish(t, b)
  BY <1>1, <1>2, <1>5 DEF NoFinish
<1>6. ASSUME NEW t \in Tasks, e = Event(t, "step-start")
      PROVE  StepOnItsWay(t, b)
  <2>1. PICK i \in 1..Len(b) : i = Len(box) + 1 /\ b[i] = Event(t, "step-start")
    BY <1>1, <1>6
  <2>2. \A j \in 1..Len(b) : ~(i < j)
    BY <1>1, <2>1
  <2> QED
    BY <2>1, <2>2 DEF StepOnItsWay
<1> QED
  BY <1>1, <1>3, <1>4, <1>5, <1>6 DEF Grown

(* What it keeps when its first event e is taken.                          *)
Shrunk(box, b, e) ==
  /\ b \in Seq(Events)
  /\ \A x : Has(box, x) => x = e \/ Has(b, x)
  /\ \A x : Has(b, x) => Has(box, x)
  /\ \A t \in Tasks :
       /\ NoFinish(t, box) => NoFinish(t, b) /\ e # Event(t, "step-finish")
       /\ StepOnItsWay(t, box) =>
            StepOnItsWay(t, b) \/ (e = Event(t, "step-start") /\ NoFinish(t, b))

LEMMA BoxShrinks ==
  ASSUME NEW box \in Seq(Events), box # <<>>, NEW b, b = Tail(box)
  PROVE  Shrunk(box, b, Head(box))
<1>1. /\ b \in Seq(Events) /\ Len(box) \in Nat \ {0} /\ Len(b) = Len(box) - 1
      /\ \A i \in 1..Len(b) : b[i] = box[i + 1] /\ i + 1 \in 1..Len(box)
      /\ Head(box) = box[1] /\ 1 \in 1..Len(box)
  BY SeqTail
<1>2. \A i \in 1..Len(box) : i = 1 \/ \E k \in 1..Len(b) : i = k + 1 /\ b[k] = box[i]
  <2> TAKE i \in 1..Len(box)
  <2>1. i = 1 \/ (i - 1 \in 1..Len(b) /\ i = (i - 1) + 1)
    BY <1>1
  <2> QED
    BY <1>1, <2>1
<1>3. (\A x : Has(box, x) => x = Head(box) \/ Has(b, x)) /\ \A x : Has(b, x) => Has(box, x)
  <2>1. ASSUME NEW x, Has(box, x) PROVE x = Head(box) \/ Has(b, x)
    <3>1. PICK i \in 1..Len(box) : box[i] = x
      BY <2>1 DEF Has
    <3> QED
      BY <1>1, <1>2, <3>1 DEF Has
  <2>2. ASSUME NEW x, Has(b, x) PROVE Has(box, x)
    <3>1. PICK i \in 1..Len(b) : b[i] = x
      BY <2>2 DEF Has
    <3> QED
      BY <1>1, <3>1 DEF Has
  <2> QED
    BY <2>1, <2>2
<1>4. ASSUME NEW t \in Tasks, NoFinish(t, box)
      PROVE  NoFinish(t, b) /\ Head(box) # Event(t, "step-finish")
  BY <1>1, <1>4 DEF NoFinish
<1>5. ASSUME NEW t \in Tasks, StepOnItsWay(t, box)
      PROVE  StepOnItsWay(t, b) \/ (Head(box) = Event(t, "step-start") /\ NoFinish(t, b))
  <2>1. PICK i \in 1..Len(box) :
          /\ box[i] = Event(t, "step-start")
          /\ \A j \in 1..Len(box) : i < j => box[j] # Event(t, "step-finish")
    BY <1>5 DEF StepOnItsWay
  <2>2. CASE i = 1
    <3>1. \A j \in 1..Len(b) : 1 < j + 1
      BY <1>1
    <3> QED
      BY <1>1, <2>1, <2>2, <3>1 DEF NoFinish
  <2>3. CASE i # 1
    <3>1. PICK k \in 1..Len(b) : i = k + 1 /\ b[k] = box[i]
      BY <1>2, <2>3
    <3>2. \A j \in 1..Len(b) : k < j => i < j + 1
      BY <1>1, <3>1
    <3>3. \A j \in 1..Len(b) : k < j => b[j] # Event(t, "step-finish")
      BY <1>1, <2>1, <3>2
    <3> QED
      BY <2>1, <3>1, <3>3 DEF StepOnItsWay
  <2> QED
    BY <2>2, <2>3
<1> QED
  BY <1>1, <1>3, <1>4, <1>5 DEF Shrunk

LEMMA InTransitHas ==
  ASSUME inbox \in Seq(Events), NEW t, NEW type
  PROVE  InTransit(t, type) <=> Has(inbox, Event(t, type))
<1>1. DOMAIN inbox = 1..Len(inbox)
  OBVIOUS
<1> QED
  BY <1>1 DEF InTransit, Has, Event

(* A step keeps what the window shows alive when it shows no other task    *)
(* and loses neither a task that runs nor the news of its end.             *)
LEMMA LivesOn ==
  ASSUME inbox \in Seq(Events), inbox' \in Seq(Events), ShownTaskLives,
         ASSUME NEW t \in Tasks, window'.task = t
         PROVE  /\ window.task = t /\ window'.build \in {window.build, NoTask}
                /\ attempt[t] = "rejected" => attempt'[t] = "rejected"
                /\ phase[t] = "running" =>
                     phase'[t] = "running" \/ Has(inbox', Event(t, "completed"))
                /\ Has(inbox, Event(t, "completed")) =>
                     Has(inbox', Event(t, "completed")) \/ Forgotten(t)'
  PROVE  ShownTaskLives'
<1> SUFFICES ASSUME NEW t \in Tasks, window'.task = t
             PROVE  \/ phase'[t] = "running" \/ InTransit(t, "completed")'
                    \/ attempt'[t] = "rejected" \/ Forgotten(t)'
  BY DEF ShownTaskLives
<1>1. /\ window.task = t /\ window'.build \in {window.build, NoTask}
      /\ attempt[t] = "rejected" => attempt'[t] = "rejected"
      /\ phase[t] = "running" =>
           phase'[t] = "running" \/ Has(inbox', Event(t, "completed"))
      /\ Has(inbox, Event(t, "completed")) =>
           Has(inbox', Event(t, "completed")) \/ Forgotten(t)'
  OBVIOUS
<1>2. InTransit(t, "completed") <=> Has(inbox, Event(t, "completed"))
  BY InTransitHas
<1>3. InTransit(t, "completed")' <=> Has(inbox', Event(t, "completed"))
  <2>1. DOMAIN inbox' = 1..Len(inbox')
    OBVIOUS
  <2> QED
    BY <2>1 DEF InTransit, Has, Event
<1>4. Forgotten(t) => Forgotten(t)'
  BY <1>1, WindowAssumption DEF Forgotten
<1> QED
  BY <1>1, <1>2, <1>3, <1>4 DEF ShownTaskLives

(* It keeps the step of a waiting debugger when no debugger begins to wait *)
(* and neither the announcement nor the offer is lost.                     *)
LEMMA StepStays ==
  ASSUME StepInv,
         ASSUME NEW t \in Tasks, WaitsHere(t)'
         PROVE  /\ WaitsHere(t) /\ Offered => Offered'
                /\ WaitsHere(t)
                /\ StepOnItsWay(t, inbox) => StepOnItsWay(t, inbox')
                /\ NoFinish(t, inbox) => NoFinish(t, inbox')
  PROVE  StepInv'
  BY DEF StepInv, StepOnItsWay, NoFinish

(* DebugInv speaks of the task shown, of the events and of attempts.       *)
LEMMA DebugStays ==
  ASSUME inbox \in Seq(Events), inbox' \in Seq(Events), DebugInv,
         window'.task # NoTask => window'.mode = ModeOf[window'.task],
         ASSUME NEW x \in Events, Has(inbox', x), x.type \in {"step-start", "step-finish"}
         PROVE  Has(inbox, x) \/ ModeOf[x.task] = "debug",
         ASSUME NEW t \in Tasks, debugger'[t].waits
         PROVE  /\ debugger[t].waits \/ attempt[t] = "started"
                /\ attempt[t] \in {"started", "over"} => attempt'[t] \in {"started", "over"}
  PROVE  DebugInv'
<1>1. ASSUME NEW i \in 1..Len(inbox'), inbox'[i].type \in {"step-start", "step-finish"}
      PROVE  ModeOf[inbox'[i].task] = "debug"
  <2>1. PICK x \in Events : x = inbox'[i]
    OBVIOUS
  <2>2. Has(inbox', x) /\ x.type \in {"step-start", "step-finish"}
    BY <1>1, <2>1 DEF Has
  <2>3. CASE Has(inbox, x)
    <3>1. PICK j \in 1..Len(inbox) : inbox[j] = x
      BY <2>3 DEF Has
    <3> QED
      BY <2>1, <2>2, <3>1 DEF DebugInv
  <2> QED
    BY <2>1, <2>2, <2>3
<1>2. ASSUME NEW t \in Tasks, debugger'[t].waits PROVE attempt'[t] \in {"started", "over"}
  BY <1>2 DEF DebugInv
<1> QED
  BY <1>1, <1>2 DEF DebugInv

(* A step without events that leaves the tasks, and whose window shows the *)
(* same task or none.                                                      *)
LEMMA QuietFollows ==
  ASSUME WindowInv, FollowInv, window' \in Windows, DebugTypes',
         UNCHANGED <<inbox, phase, debugger>>,
         ASSUME NEW t \in Tasks, window'.task = t
         PROVE  /\ window.task = t /\ window'.mode = window.mode
                /\ window'.build \in {window.build, NoTask}
                /\ attempt'[t] = attempt[t]
                /\ Offered => Offered',
         ASSUME NEW t \in Tasks, attempt[t] \in {"started", "over"}
         PROVE  attempt'[t] \in {"started", "over"}
  PROVE  FollowInv'
<1>1. inbox \in Seq(Events) /\ inbox' \in Seq(Events)
  BY DEF WindowInv, AttemptsInv, EventsOK
<1>2. window'.task \in Tasks \union {NoTask}
  BY DEF Windows
<1>3. ShownTaskLives'
  BY <1>1, LivesOn DEF FollowInv
<1>4. StepInv'
  BY StepStays DEF FollowInv, WaitsHere
<1>5. DebugInv'
  <2>1. \A t \in Tasks : debugger'[t].waits => attempt'[t] \in {"started", "over"}
    BY DEF FollowInv, DebugInv
  <2>2. window'.task # NoTask => window'.mode = ModeOf[window'.task]
    <3>1. CASE window'.task \in Tasks /\ window'.task # NoTask
      <4>1. window.task = window'.task /\ window'.mode = window.mode
        BY <3>1
      <4> QED
        BY <3>1, <4>1 DEF FollowInv, DebugInv
    <3> QED
      BY <1>2, <3>1
  <2> QED
    BY <2>1, <2>2 DEF FollowInv, DebugInv
<1> QED
  BY <1>3, <1>4, <1>5 DEF FollowInv

LEMMA FollowsStart ==
  ASSUME WindowInv, FollowInv, NEW u \in Tasks, StartExecution(u)
  PROVE  FollowInv'
<1>1. window' \in Windows /\ window'.task = NoTask
  BY DEF StartExecution, WindowInv, ShapesInv, Windows
<1>2. /\ UNCHANGED <<inbox, phase, debugger, cancelled, command, editor>>
      /\ attempt' = [attempt EXCEPT ![u] = "resetting"] /\ attempt[u] = "none"
  BY DEF StartExecution, service
<1>3. DebugTypes'
  BY <1>2 DEF FollowInv, DebugTypes, editor
<1>4. ASSUME NEW t \in Tasks, attempt[t] \in {"started", "over"}
      PROVE  attempt'[t] \in {"started", "over"}
  BY <1>2, <1>4 DEF WindowInv, AttemptsInv
<1>5. \A t \in Tasks : window'.task # t
  BY <1>1, WindowAssumption
<1> QED
  BY <1>1, <1>2, <1>3, <1>4, <1>5, QuietFollows

LEMMA FollowsReset ==
  ASSUME WindowInv, FollowInv, ResetReplied
  PROVE  FollowInv'
<1>1. PICK u \in Tasks : u = Head(resets).task /\ attempt[u] = "resetting" /\ u # NoTask
  <2>1. Head(resets) = resets[1] /\ 1 \in 1..Len(resets) /\ resets[1].task \in Tasks
    BY FirstReset DEF ResetReplied, WindowInv
  <2> QED
    BY <2>1, WindowAssumption DEF WindowInv, ResetsInv
<1>2. /\ UNCHANGED <<debugger, cancelled, command, editor>>
      /\ window' = [Running(window, u) EXCEPT !.scope = Scope(u)]
      /\ \/ /\ attempt' = [attempt EXCEPT ![u] = "started"]
            /\ phase' = [phase EXCEPT ![u] = "running"]
            /\ inbox' = Sent(u, "started")
         \/ /\ attempt' = [attempt EXCEPT ![u] = "rejected"]
            /\ UNCHANGED <<phase, inbox>>
  BY <1>1 DEF ResetReplied
<1>3. window'.task = u /\ window'.mode = ModeOf[u]
  BY <1>2 DEF Running, WindowInv, ShapesInv, Windows
<1>4. ~debugger[u].waits
  BY <1>1 DEF FollowInv, DebugInv
<1>5. PICK e \in Events : e = Event(u, "started") /\ e.type = "started"
  BY EventTyped DEF EventTypes
<1>6. inbox \in Seq(Events) /\ (inbox' = inbox \/ inbox' = Append(inbox, e))
  BY <1>2, <1>5 DEF WindowInv, AttemptsInv, EventsOK, Sent, Event
<1>7. inbox' \in Seq(Events) /\ \A x : Has(inbox', x) => x = e \/ Has(inbox, x)
  <2>1. inbox' = Append(inbox, e) => Grown(inbox, inbox', e)
    BY <1>6, BoxGrows
  <2> QED
    BY <1>6, <2>1 DEF Grown
<1>8. ShownTaskLives'
  <2>1. attempt \in [Tasks -> {"none", "resetting", "started", "rejected", "over"}]
        /\ phase \in [Tasks -> {"new", "running", "forgotten"}]
    BY DEF WindowInv, AttemptsInv
  <2>2. phase'[u] = "running" \/ attempt'[u] = "rejected"
    BY <1>2, <2>1
  <2> QED
    BY <1>3, <2>2 DEF ShownTaskLives
<1>9. StepInv'
  BY <1>2, <1>3, <1>4 DEF StepInv, WaitsHere
<1>10. DebugInv'
  <2>1. \A x \in Events : Has(inbox', x) /\ x.type \in {"step-start", "step-finish"} =>
          Has(inbox, x)
    BY <1>5, <1>7
  <2>2. \A t \in Tasks : attempt[t] \in {"started", "over"} => attempt'[t] = attempt[t]
    BY <1>1, <1>2 DEF WindowInv, AttemptsInv
  <2>3. \A t \in Tasks : debugger'[t].waits => debugger[t].waits
    BY <1>2
  <2> QED
    BY <1>3, <1>6, <1>7, <2>1, <2>2, <2>3, DebugStays DEF FollowInv
<1>11. DebugTypes'
  BY <1>2 DEF FollowInv, DebugTypes, editor
<1> QED
  BY <1>8, <1>9, <1>10, <1>11 DEF FollowInv

LEMMA FreeWindow ==
  ASSUME NEW w \in Windows, NEW status \in {"none", "stopped", "ended"}, NEW free,
         free = NotRunning(w) \/ free = [NotRunning(w) EXCEPT !.buildStatus = status]
  PROVE  free \in Windows /\ free.task = NoTask
  BY DEF NotRunning, Windows

LEMMA FollowsRejected ==
  ASSUME WindowInv, FollowInv, NEW u \in Tasks, StartRejected(u)
  PROVE  FollowInv'
<1>1. /\ UNCHANGED <<inbox, phase, debugger, cancelled, command, editor>>
      /\ attempt' = [attempt EXCEPT ![u] = "over"] /\ attempt[u] = "rejected"
      /\ \/ /\ window.task = u
            /\ \E w \in {NotRunning(window), [NotRunning(window) EXCEPT !.buildStatus = "none"]} :
                 window' = w
         \/ window.task # u /\ window' = window
  BY DEF StartRejected, service
<1>5. window \in Windows
  BY DEF WindowInv, ShapesInv
<1>6. /\ \/ window.task = u /\ window'.task = NoTask
         \/ window.task # u /\ window' = window
      /\ window' \in Windows
  BY <1>1, <1>5, FreeWindow
<1>2. DebugTypes'
  BY <1>1 DEF FollowInv, DebugTypes, editor
<1>3. ASSUME NEW t \in Tasks, window'.task = t
      PROVE  window' = window /\ t # u /\ attempt'[t] = attempt[t] /\ (Offered => Offered')
  <2>1. window' = window /\ t # u
    BY <1>3, <1>6, WindowAssumption
  <2> QED
    BY <1>1, <2>1 DEF WindowInv, AttemptsInv, Offered, editor
<1>4. ASSUME NEW t \in Tasks, attempt[t] \in {"started", "over"}
      PROVE  attempt'[t] \in {"started", "over"}
  BY <1>1, <1>4 DEF WindowInv, AttemptsInv
<1> QED
  BY <1>1, <1>2, <1>3, <1>4, <1>6, QuietFollows

(* The user and the main process.                                          *)
LEMMA FollowsStop ==
  ASSUME WindowInv, FollowInv, StopCurrentTask
  PROVE  FollowInv'
<1>1. /\ UNCHANGED <<inbox, phase, debugger, attempt, command, editor, window>>
      /\ cancelled' = [cancelled EXCEPT ![window.task] = TRUE]
  BY DEF StopCurrentTask, console
<1>2. DebugTypes'
  BY <1>1 DEF FollowInv, DebugTypes, editor
<1>3. window' \in Windows /\ (Offered => Offered')
  BY <1>1 DEF WindowInv, ShapesInv, Offered, editor
<1> QED
  BY <1>1, <1>2, <1>3, QuietFollows

(* An offer that moves from the screen to the tabs or back.                *)
LEMMA SyncFollows ==
  ASSUME WindowInv, SourcesInv, FollowInv, Synced(window'), UntouchedByTabs,
         tab' \in open' \union {NoTab}, dropped' \in BOOLEAN, Offered => Offered'
  PROVE  FollowInv'
<1>1. UNCHANGED <<inbox, phase, debugger, attempt, command, cancelled>>
  BY DEF UntouchedByTabs, otherThanTabs, service
<1>2. DebugTypes'
  BY <1>1 DEF FollowInv, DebugTypes
<1> QED
  BY <1>1, <1>2, QuietFollows DEF Synced

LEMMA PausedSynced ==
  ASSUME WindowInv, NEW p \in BOOLEAN, SyncIn(p) PROVE window'.paused = p
  BY DEF SyncIn, WindowInv, ShapesInv, Windows

LEMMA FollowsTab ==
  ASSUME WindowInv, SourcesInv, FollowInv, NEW f \in Files, SwitchToTab(f)
  PROVE  FollowInv'
<1>1. /\ f \in open /\ tab' = f /\ UNCHANGED open
      /\ entry' = IF f = tab THEN entry ELSE SyncOut
      /\ SyncIn(entry[f])
      /\ dropped' = (dropped \/ (window.paused /\ tab \in {f, NoTab}))
  BY DEF SwitchToTab
<1>2. window'.paused = entry[f]
  BY <1>1, PausedSynced DEF SourcesInv
<1>3. dropped' \in BOOLEAN
  BY <1>1
<1>4. ASSUME window.paused, ~dropped' PROVE Offered'
  <2>1. tab \in open \ {f}
    BY <1>1, <1>4 DEF FollowInv, DebugTypes
  <2>2. entry'[tab] /\ tab \in open' \ {tab'}
    BY <1>1, <1>4, <2>1, WindowAssumption DEF SyncOut, SourcesInv
  <2> QED
    BY <2>2 DEF Offered
<1>5. ASSUME NEW g \in open \ {tab}, entry[g] PROVE Offered'
  <2>1. CASE g = f
    BY <1>2, <1>5, <2>1 DEF Offered
  <2>2. CASE g # f
    <3>1. entry'[g] /\ g \in open' \ {tab'}
      BY <1>1, <1>5, <2>2 DEF SyncOut, SourcesInv
    <3> QED
      BY <3>1 DEF Offered
  <2> QED
    BY <2>1, <2>2
<1>6. Offered => Offered'
  BY <1>1, <1>4, <1>5 DEF Offered
<1> QED
  BY <1>1, <1>3, <1>6, TabsSync, SyncFollows

LEMMA FollowsOpen ==
  ASSUME WindowInv, SourcesInv, FollowInv, NEW f \in Files, OpenTab(f)
  PROVE  FollowInv'
<1>1. /\ f \notin open /\ tab' = f /\ open' = open \union {f}
      /\ entry' = SyncOut
      /\ dropped' = (dropped \/ (window.paused /\ tab = NoTab))
  BY DEF OpenTab
<1>2. dropped' \in BOOLEAN
  BY <1>1
<1>3. ASSUME window.paused, ~dropped' PROVE Offered'
  <2>1. tab \in open /\ tab # f /\ tab # NoTab
    BY <1>1, <1>3 DEF FollowInv, DebugTypes
  <2>2. entry'[tab] /\ tab \in open' \ {tab'}
    BY <1>1, <1>3, <2>1 DEF SyncOut, SourcesInv
  <2> QED
    BY <2>2 DEF Offered
<1>4. ASSUME NEW g \in open \ {tab}, entry[g] PROVE Offered'
  <2>1. entry'[g] /\ g \in open' \ {tab'}
    BY <1>1, <1>4 DEF SyncOut, SourcesInv
  <2> QED
    BY <2>1 DEF Offered
<1>5. Offered => Offered'
  BY <1>1, <1>3, <1>4 DEF Offered
<1> QED
  BY <1>1, <1>2, <1>5, TabsSync, SyncFollows

LEMMA FollowsClose ==
  ASSUME WindowInv, SourcesInv, FollowInv, NEW f \in Files, CloseTab(f)
  PROVE  FollowInv'
<1>1. /\ f \in open /\ open' = open \ {f}
      /\ entry' = [entry EXCEPT ![f] = FALSE]
  BY DEF CloseTab
<1>2. \A g \in Files \ {f} : entry'[g] = entry[g]
  BY <1>1 DEF SourcesInv
<1>3. CASE f # tab
  <2>1. UNCHANGED <<tab, window>> /\ dropped' = (dropped \/ entry[f])
    BY <1>3 DEF CloseTab
  <2>2. ASSUME NEW g \in open \ {tab}, entry[g] PROVE Offered'
    <3>1. CASE g = f
      BY <2>1, <2>2, <3>1 DEF Offered
    <3>2. CASE g # f
      <4>1. entry'[g] /\ g \in open' \ {tab'}
        BY <1>1, <1>2, <2>1, <2>2, <3>2 DEF SourcesInv
      <4> QED
        BY <4>1 DEF Offered
    <3> QED
      BY <3>1, <3>2
  <2>3. Offered => Offered'
    BY <2>1, <2>2 DEF Offered
  <2>4. tab' \in open' \union {NoTab} /\ dropped' \in BOOLEAN
    BY <1>1, <1>3, <2>1 DEF FollowInv, DebugTypes
  <2> QED
    BY <2>3, <2>4, TabsSync, SyncFollows
<1>4. CASE f = tab
  <2>1. /\ dropped' = (dropped \/ window.paused)
        /\ \/ open' = {} /\ tab' = NoTab
           \/ \E g \in open' : tab' = g /\ SyncIn(entry[g])
    BY <1>4 DEF CloseTab
  <2>2. ASSUME NEW g \in open \ {tab}, entry[g] PROVE Offered'
    <3>1. g \in open' /\ entry'[g]
      BY <1>1, <1>2, <1>4, <2>2 DEF SourcesInv
    <3>2. CASE tab' = g
      <4>1. window'.paused = entry[g]
        BY <2>1, <3>1, <3>2, PausedSynced, WindowAssumption DEF SourcesInv
      <4> QED
        BY <2>2, <4>1 DEF Offered
    <3>3. CASE tab' # g
      BY <3>1, <3>3 DEF Offered
    <3> QED
      BY <3>2, <3>3
  <2>3. Offered => Offered'
    BY <2>1, <2>2 DEF Offered
  <2>4. tab' \in open' \union {NoTab} /\ dropped' \in BOOLEAN
    BY <2>1
  <2> QED
    BY <2>3, <2>4, TabsSync, SyncFollows
<1> QED
  BY <1>3, <1>4

LEMMA FollowsClear ==
  ASSUME WindowInv, SourcesInv, FollowInv, ClearEditor
  PROVE  FollowInv'
<1>1. tab' = NoTab /\ dropped' = (dropped \/ window.paused) /\ UNCHANGED <<open, entry>>
  BY DEF ClearEditor
<1>2. Offered => Offered'
  BY <1>1, WindowAssumption DEF Offered, SourcesInv
<1>3. tab' \in open' \union {NoTab} /\ dropped' \in BOOLEAN
  BY <1>1
<1> QED
  BY <1>2, <1>3, TabsSync, SyncFollows

LEMMA FollowsView ==
  ASSUME WindowInv, SourcesInv, FollowInv,
         (\E s \in Scopes : SwitchWorkspaceView(s)) \/ OpenOtherProject
  PROVE  FollowInv'
<1>1. UNCHANGED <<inbox, phase, debugger, attempt, command, cancelled>>
  BY DEF SwitchWorkspaceView, OpenOtherProject, otherThanTabs, service
<1>2. CASE \E s \in Scopes : SwitchWorkspaceView(s)
  <2>1. PICK s \in Scopes : window' = [window EXCEPT !.scope = s] /\ UNCHANGED editor
    BY <1>2 DEF SwitchWorkspaceView
  <2>2. /\ window' \in Windows /\ window'.task = window.task /\ window'.mode = window.mode
        /\ window'.build = window.build /\ window'.paused = window.paused
    BY <2>1 DEF WindowInv, ShapesInv, Windows
  <2>3. (Offered => Offered') /\ DebugTypes'
    BY <1>1, <2>1, <2>2 DEF Offered, FollowInv, DebugTypes, editor
  <2> QED
    BY <1>1, <2>2, <2>3, QuietFollows
<1>3. CASE OpenOtherProject
  <2>1. /\ window' = [window EXCEPT !.paused = FALSE, !.build = NoTask, !.buildStatus = "none"]
        /\ open' = {} /\ tab' = NoTab
        /\ dropped' = (dropped \/ window.paused \/ \E f \in Files : entry[f])
    BY <1>3 DEF OpenOtherProject
  <2>2. /\ window' \in Windows /\ window'.task = window.task /\ window'.mode = window.mode
        /\ window'.build = NoTask
    BY <2>1 DEF WindowInv, ShapesInv, Windows
  <2>3. (Offered => Offered') /\ DebugTypes'
    BY <1>1, <2>1 DEF Offered, FollowInv, DebugTypes, SourcesInv
  <2> QED
    BY <1>1, <2>2, <2>3, QuietFollows
<1> QED
  BY <1>2, <1>3

LEMMA FollowsReply ==
  ASSUME WindowInv, FollowInv, DebugCommandReplied
  PROVE  FollowInv'
<1>1. /\ UNCHANGED <<inbox, phase, debugger, attempt, cancelled, editor>>
      /\ command' = "none"
      /\ window' = window \/ window' = [window EXCEPT !.paused = window.task # NoTask]
  BY DEF DebugCommandReplied, service
<1>2. DebugTypes'
  BY <1>1 DEF FollowInv, DebugTypes, editor
<1>3. PICK p \in BOOLEAN : p <=> window.task # NoTask
  OBVIOUS
<1>4. /\ window' \in Windows /\ window'.task = window.task /\ window'.mode = window.mode
      /\ window'.build = window.build
      /\ window'.paused = window.paused \/ window'.paused = (window.task # NoTask)
  BY <1>1, <1>3 DEF WindowInv, ShapesInv, Windows
<1>5. ASSUME NEW t \in Tasks, window'.task = t PROVE Offered => Offered'
  <2>1. window'.task # NoTask
    BY <1>5, WindowAssumption
  <2> QED
    BY <1>1, <1>4, <2>1 DEF Offered, editor
<1> QED
  BY <1>1, <1>2, <1>4, <1>5, QuietFollows

(* A step that sends events and leaves the window's task.                  *)
LEMMA QueueFollows ==
  ASSUME WindowInv, FollowInv, DebugTypes', inbox' \in Seq(Events), UNCHANGED attempt,
         window' \in Windows, window'.task = window.task, window'.mode = window.mode,
         window'.build = window.build,
         \A x : Has(inbox, x) => Has(inbox', x),
         \A x \in Events : Has(inbox', x) /\ x.type \in {"step-start", "step-finish"} =>
           Has(inbox, x) \/ ModeOf[x.task] = "debug",
         \A t \in Tasks : phase[t] = "running" =>
           phase'[t] = "running" \/ Has(inbox', Event(t, "completed")),
         \A t \in Tasks : debugger'[t].waits => debugger[t].waits \/ attempt[t] = "started",
         \A t \in Tasks : WaitsHere(t)' =>
           \/ StepOnItsWay(t, inbox')
           \/ /\ WaitsHere(t) /\ (Offered => Offered')
              /\ StepOnItsWay(t, inbox) => StepOnItsWay(t, inbox')
              /\ NoFinish(t, inbox) => NoFinish(t, inbox')
  PROVE  FollowInv'
<1>1. inbox \in Seq(Events)
  BY DEF WindowInv, AttemptsInv, EventsOK
<1>2. ShownTaskLives'
  BY <1>1, LivesOn DEF FollowInv
<1>3. StepInv'
  <2> SUFFICES ASSUME NEW t \in Tasks, WaitsHere(t)'
               PROVE  StepOnItsWay(t, inbox') \/ (Offered' /\ NoFinish(t, inbox'))
    BY DEF StepInv, StepOnItsWay, NoFinish
  <2> QED
    BY DEF FollowInv, StepInv
<1>4. window'.task # NoTask => window'.mode = ModeOf[window'.task]
  BY DEF FollowInv, DebugInv
<1>5. DebugInv'
  BY <1>1, <1>4, DebugStays DEF FollowInv
<1> QED
  BY <1>2, <1>3, <1>5 DEF FollowInv

LEMMA FollowsOutput ==
  ASSUME WindowInv, FollowInv, NEW u \in Tasks, TaskOutput(u)
  PROVE  FollowInv'
<1>1. /\ UNCHANGED <<phase, debugger, attempt, cancelled, command, editor, window>>
      /\ inbox' = Append(inbox, Event(u, "output"))
  BY DEF TaskOutput, service, Sent, Event
<1>2. PICK e \in Events : e = Event(u, "output") /\ e.type = "output"
  BY EventTyped DEF EventTypes
<1>3. \A t \in Tasks : e # Event(t, "step-finish")
  BY <1>2, EventTyped DEF EventTypes
<1>4. inbox \in Seq(Events) /\ window \in Windows
  BY DEF WindowInv, AttemptsInv, EventsOK, ShapesInv
<1>5. /\ inbox' \in Seq(Events)
      /\ \A x : Has(inbox, x) => Has(inbox', x)
      /\ \A x : Has(inbox', x) => x = e \/ Has(inbox, x)
      /\ \A t \in Tasks : /\ StepOnItsWay(t, inbox) => StepOnItsWay(t, inbox')
                          /\ NoFinish(t, inbox) => NoFinish(t, inbox')
  <2>1. Grown(inbox, inbox', e)
    BY <1>1, <1>2, <1>4, BoxGrows
  <2> QED
    BY <1>3, <2>1 DEF Grown
<1>6. DebugTypes' /\ (Offered => Offered') /\ (\A t \in Tasks : WaitsHere(t)' => WaitsHere(t))
  BY <1>1 DEF FollowInv, DebugTypes, Offered, WaitsHere, editor
<1> QED
  BY <1>1, <1>2, <1>4, <1>5, <1>6, QueueFollows

LEMMA FollowsCompletes ==
  ASSUME WindowInv, FollowInv, NEW u \in Tasks, TaskCompletes(u)
  PROVE  FollowInv'
<1>1. /\ UNCHANGED <<debugger, attempt, cancelled, command, editor, window>>
      /\ phase' = [phase EXCEPT ![u] = "forgotten"]
      /\ inbox' = Append(inbox, Event(u, "completed"))
  BY DEF TaskCompletes, Sent, Event
<1>2. PICK e \in Events : e = Event(u, "completed") /\ e.type = "completed"
  BY EventTyped DEF EventTypes
<1>3. \A t \in Tasks : e # Event(t, "step-finish")
  BY <1>2, EventTyped DEF EventTypes
<1>4. inbox \in Seq(Events) /\ window \in Windows
  BY DEF WindowInv, AttemptsInv, EventsOK, ShapesInv
<1>5. /\ inbox' \in Seq(Events) /\ Has(inbox', e)
      /\ \A x : Has(inbox, x) => Has(inbox', x)
      /\ \A x : Has(inbox', x) => x = e \/ Has(inbox, x)
      /\ \A t \in Tasks : /\ StepOnItsWay(t, inbox) => StepOnItsWay(t, inbox')
                          /\ NoFinish(t, inbox) => NoFinish(t, inbox')
  <2>1. Grown(inbox, inbox', e)
    BY <1>1, <1>2, <1>4, BoxGrows
  <2> QED
    BY <1>3, <2>1 DEF Grown
<1>6. \A t \in Tasks : phase'[t] = IF t = u THEN "forgotten" ELSE phase[t]
  BY <1>1 DEF WindowInv, AttemptsInv
<1>7. DebugTypes' /\ (Offered => Offered') /\ (\A t \in Tasks : WaitsHere(t)' => WaitsHere(t))
  BY <1>1, <1>6 DEF FollowInv, DebugTypes, Offered, WaitsHere, editor
<1>8. \A t \in Tasks : phase[t] = "running" =>
        phase'[t] = "running" \/ Has(inbox', Event(t, "completed"))
  BY <1>2, <1>5, <1>6
<1> QED
  BY <1>1, <1>2, <1>4, <1>5, <1>7, <1>8, QueueFollows

LEMMA FollowsCommand ==
  ASSUME WindowInv, FollowInv, SendDebugCommand
  PROVE  FollowInv'
<1>1. PICK u \in Tasks : u = window.task /\ ModeOf[u] = "debug"
  <2>1. window.task \in Tasks /\ window.task # NoTask /\ window.mode = "debug"
    BY DEF SendDebugCommand, WindowInv, ShapesInv, Windows
  <2> QED
    BY <2>1 DEF FollowInv, DebugInv
<1>2. /\ UNCHANGED <<phase, attempt, cancelled, editor>>
      /\ window' = [window EXCEPT !.paused = FALSE]
      /\ command' \in {"sent", "unsent"}
      /\ inbox' = inbox \/ inbox' = Append(inbox, Event(u, "step-finish"))
  BY <1>1 DEF SendDebugCommand, Sent, Event
<1>3. debugger' \in [Tasks -> Debuggers] /\ ~debugger'[u].waits
      /\ \A t \in Tasks \ {u} : debugger'[t] = debugger[t]
  <2>1. debugger \in [Tasks -> Debuggers]
    BY DEF FollowInv, DebugTypes
  <2>2. PICK r \in BOOLEAN : debugger' = [debugger EXCEPT ![u].waits = FALSE, ![u].unread = r]
    <3>1. debugger[u].unread \in BOOLEAN
      BY <2>1 DEF Debuggers
    <3> QED
      BY <1>1, <2>1, <3>1 DEF SendDebugCommand
  <2> QED
    BY <2>1, <2>2 DEF Debuggers
<1>4. /\ window' \in Windows /\ window'.task = window.task /\ window'.mode = window.mode
      /\ window'.build = window.build
  BY <1>2 DEF WindowInv, ShapesInv, Windows
<1>5. PICK e \in Events : e = Event(u, "step-finish") /\ e.task = u /\ e.type = "step-finish"
  BY EventTyped DEF EventTypes
<1>6. inbox \in Seq(Events)
  BY DEF WindowInv, AttemptsInv, EventsOK
<1>7. /\ inbox' \in Seq(Events)
      /\ \A x : Has(inbox, x) => Has(inbox', x)
      /\ \A x : Has(inbox', x) => x = e \/ Has(inbox, x)
  <2>1. CASE inbox' = inbox
    BY <1>6, <2>1
  <2>2. CASE inbox' = Append(inbox, Event(u, "step-finish"))
    <3>1. Grown(inbox, inbox', e)
      BY <1>5, <1>6, <2>2, BoxGrows
    <3> QED
      BY <3>1 DEF Grown
  <2> QED
    BY <1>2, <2>1, <2>2
<1>8. DebugTypes'
  BY <1>2, <1>3 DEF FollowInv, DebugTypes, editor
<1>9. \A t \in Tasks : ~WaitsHere(t)'
  BY <1>1, <1>3, <1>4 DEF WaitsHere
<1>10. \A t \in Tasks : debugger'[t].waits => debugger[t].waits
  BY <1>3
<1> QED
  BY <1>1, <1>2, <1>4, <1>5, <1>7, <1>8, <1>9, <1>10, QueueFollows

LEMMA FollowsAnnounced ==
  ASSUME WindowInv, FollowInv, NEW u \in Tasks, StepStarts(u)
  PROVE  FollowInv'
<1>1. /\ UNCHANGED <<phase, attempt, cancelled, command, editor, window>>
      /\ ModeOf[u] = "debug" /\ phase[u] = "running"
  BY DEF StepStarts
<1>2. PICK e \in Events, g \in Events :
        /\ e = Event(u, "step-start") /\ e.task = u /\ e.type = "step-start"
        /\ g = Event(u, "step-finish") /\ g.task = u /\ g.type = "step-finish"
  BY EventTyped DEF EventTypes
<1>3. PICK box : box = Append(inbox, e)
  OBVIOUS
<1>4. inbox \in Seq(Events) /\ window \in Windows
  BY DEF WindowInv, AttemptsInv, EventsOK, ShapesInv
<1>5. \A t \in Tasks : /\ e # Event(t, "step-finish")
                       /\ t # u => g # Event(t, "step-finish")
  BY <1>2, EventTyped DEF EventTypes
<1>6. /\ box \in Seq(Events) /\ StepOnItsWay(u, box)
      /\ \A x : Has(inbox, x) => Has(box, x)
      /\ \A x : Has(box, x) => x = e \/ Has(inbox, x)
      /\ \A t \in Tasks : /\ StepOnItsWay(t, inbox) => StepOnItsWay(t, box)
                          /\ NoFinish(t, inbox) => NoFinish(t, box)
  <2>1. Grown(inbox, box, e)
    BY <1>2, <1>3, <1>4, BoxGrows
  <2> QED
    BY <1>2, <1>5, <2>1 DEF Grown
<1>7. /\ debugger' \in [Tasks -> Debuggers]
      /\ debugger'[u].waits <=> ~debugger[u].unread
      /\ \A t \in Tasks \ {u} : debugger'[t] = debugger[t]
  <2>1. debugger \in [Tasks -> Debuggers] /\ debugger[u].steps \in Nat
        /\ debugger[u].unread \in BOOLEAN
    BY DEF FollowInv, DebugTypes, Debuggers
  <2>2. PICK n \in Nat : n = debugger[u].steps + 1
    BY <2>1
  <2>4. PICK w \in BOOLEAN : w = ~debugger[u].unread
    OBVIOUS
  <2>5. PICK r \in BOOLEAN : r = FALSE
    OBVIOUS
  <2>3. debugger' = [debugger EXCEPT ![u] = [steps |-> n, waits |-> w, unread |-> r]]
    BY <2>1, <2>2, <2>4, <2>5 DEF StepStarts
  <2> QED
    BY <2>1, <2>2, <2>3, <2>4 DEF Debuggers
<1>8. IF debugger[u].unread THEN inbox' = Append(box, g) ELSE inbox' = box
  BY <1>2, <1>3, <1>4 DEF StepStarts, Sent, Event
<1>9. /\ inbox' \in Seq(Events)
      /\ \A x : Has(inbox, x) => Has(inbox', x)
      /\ \A x : Has(inbox', x) => x = e \/ x = g \/ Has(inbox, x)
      /\ \A t \in Tasks \ {u} : /\ StepOnItsWay(t, inbox) => StepOnItsWay(t, inbox')
                                /\ NoFinish(t, inbox) => NoFinish(t, inbox')
  <2>1. CASE inbox' = box
    BY <1>6, <2>1
  <2>2. CASE inbox' = Append(box, g)
    <3>1. Grown(box, inbox', g)
      BY <1>2, <1>6, <2>2, BoxGrows
    <3> QED
      BY <1>5, <1>6, <3>1 DEF Grown
  <2> QED
    BY <1>8, <2>1, <2>2
<1>10. DebugTypes' /\ (Offered => Offered')
  BY <1>1, <1>7 DEF FollowInv, DebugTypes, Offered, editor
<1>11. ASSUME NEW t \in Tasks, WaitsHere(t)'
       PROVE  \/ StepOnItsWay(t, inbox')
              \/ /\ WaitsHere(t)
                 /\ StepOnItsWay(t, inbox) => StepOnItsWay(t, inbox')
                 /\ NoFinish(t, inbox) => NoFinish(t, inbox')
  <2>1. CASE t = u
    BY <1>6, <1>7, <1>8, <1>11, <2>1 DEF WaitsHere
  <2>2. CASE t # u
    BY <1>1, <1>7, <1>9, <1>11, <2>2 DEF WaitsHere
  <2> QED
    BY <2>1, <2>2
<1>12. \A t \in Tasks : debugger'[t].waits => debugger[t].waits \/ attempt[t] = "started"
  BY <1>1, <1>7 DEF WindowInv, AttemptsInv
<1> QED
  BY <1>1, <1>2, <1>4, <1>9, <1>10, <1>11, <1>12, QueueFollows

(* An event arrives.                                                       *)
LEMMA FollowsDropped ==
  ASSUME WindowInv, FollowInv, NEW u \in Tasks, NEW type \in EventTypes,
         Shrunk(inbox, inbox', Event(u, type)), ~Takes(u),
         type \in {"step-start", "step-finish"} => ModeOf[u] = "debug",
         UNCHANGED <<phase, debugger, attempt, cancelled, command, editor, window>>
  PROVE  FollowInv'
<1>1. inbox \in Seq(Events) /\ inbox' \in Seq(Events) /\ window \in Windows
  BY DEF WindowInv, AttemptsInv, EventsOK, ShapesInv, Shrunk
<1>2. ASSUME NEW t \in Tasks, window.task = t, Has(inbox, Event(t, "completed"))
      PROVE  Has(inbox', Event(t, "completed")) \/ Forgotten(t)
  <2>1. CASE Event(u, type) = Event(t, "completed")
    <3>1. t = u
      BY <2>1, EventTyped DEF EventTypes
    <3> QED
      BY <1>2, <3>1 DEF Takes, Forgotten
  <2> QED
    BY <1>2, <2>1 DEF Shrunk
<1>3. ShownTaskLives'
  <2>1. \A t \in Tasks : Forgotten(t)' <=> Forgotten(t)
    BY DEF Forgotten
  <2> QED
    BY <1>1, <1>2, <2>1, LivesOn DEF FollowInv
<1>4. ASSUME NEW t \in Tasks, window.task = t
      PROVE  Event(u, type) # Event(t, "step-start")
  <2>1. SUFFICES ASSUME Event(u, type) = Event(t, "step-start") PROVE FALSE
    OBVIOUS
  <2>2. t = u /\ type = "step-start"
    BY <2>1, EventTyped DEF EventTypes
  <2> QED
    BY <1>4, <2>2 DEF Takes
<1>5. StepInv'
  <2> SUFFICES ASSUME NEW t \in Tasks, WaitsHere(t)'
               PROVE  StepOnItsWay(t, inbox') \/ (Offered' /\ NoFinish(t, inbox'))
    BY DEF StepInv, StepOnItsWay, NoFinish
  <2>1. WaitsHere(t) /\ window.task = t /\ (Offered => Offered')
    BY DEF WaitsHere, Offered, editor
  <2> QED
    BY <1>4, <2>1 DEF FollowInv, StepInv, Shrunk
<1>6. DebugInv'
  BY <1>1, DebugStays DEF FollowInv, DebugInv, Shrunk
<1>7. DebugTypes'
  BY DEF FollowInv, DebugTypes, editor
<1> QED
  BY <1>3, <1>5, <1>6, <1>7 DEF FollowInv

LEMMA FollowsCompleted ==
  ASSUME WindowInv, SourcesInv, FollowInv, NEW u \in Tasks, Completed(u),
         inbox' \in Seq(Events), \A x : Has(inbox', x) => Has(inbox, x),
         UNCHANGED <<phase, debugger, cancelled, command, open, tab, dropped>>
  PROVE  FollowInv'
<1>1. window' \in Windows /\ window'.task = NoTask
  <2>1. window \in Windows /\ outcome[u] \in {"none", "stopped", "ended"}
    BY DEF WindowInv, ShapesInv, SourcesInv
  <2> QED
    BY <2>1, FreeWindow DEF Completed
<1>2. attempt' = [attempt EXCEPT ![u] = "over"]
  BY DEF Completed
<1>3. ShownTaskLives' /\ StepInv'
  BY <1>1, WindowAssumption DEF ShownTaskLives, StepInv, WaitsHere
<1>4. \A t \in Tasks : attempt[t] \in {"started", "over"} => attempt'[t] \in {"started", "over"}
  BY <1>2 DEF WindowInv, AttemptsInv
<1>5. inbox \in Seq(Events)
  BY DEF WindowInv, AttemptsInv, EventsOK
<1>6. DebugInv'
  BY <1>1, <1>4, <1>5, DebugStays DEF FollowInv
<1>7. DebugTypes'
  BY DEF FollowInv, DebugTypes
<1> QED
  BY <1>3, <1>6, <1>7 DEF FollowInv

LEMMA FollowsShown ==
  ASSUME WindowInv, FollowInv, NEW u \in Tasks, NEW type \in EventTypes,
         Shrunk(inbox, inbox', Event(u, type)), Takes(u), type # "completed", Shown(u, type),
         type \in {"step-start", "step-finish"} => ModeOf[u] = "debug",
         UNCHANGED <<phase, debugger, cancelled, command, open, tab, entry>>
  PROVE  FollowInv'
<1>1. inbox \in Seq(Events) /\ inbox' \in Seq(Events) /\ window \in Windows
  BY DEF WindowInv, AttemptsInv, EventsOK, ShapesInv, Shrunk
<1>2. attempt' = attempt
  BY DEF Shown
<1>3. /\ window' \in Windows /\ window'.task = window.task /\ window'.mode = window.mode
      /\ window'.build = window.build
      /\ type = "step-start" => window'.paused
      /\ type \notin {"step-start", "step-finish"} => window' = window
  <2>1. CASE type = "step-start"
    <3>1. window' = [window EXCEPT !.paused = TRUE]
      BY <2>1 DEF Shown
    <3> QED
      BY <1>1, <2>1, <3>1 DEF Windows
  <2>2. CASE type = "step-finish"
    <3>1. window' = [window EXCEPT !.paused = FALSE]
      BY <2>2 DEF Shown
    <3> QED
      BY <1>1, <2>2, <3>1 DEF Windows
  <2>3. CASE type \notin {"step-start", "step-finish"}
    BY <1>1, <2>3 DEF Shown
  <2> QED
    BY <2>1, <2>2, <2>3
<1>4. \A t \in Tasks : Event(u, type) # Event(t, "completed")
  BY EventTyped DEF EventTypes
<1>5. ShownTaskLives'
  BY <1>1, <1>2, <1>3, <1>4, LivesOn DEF FollowInv, Shrunk
<1>6. StepInv'
  <2> SUFFICES ASSUME NEW t \in Tasks, WaitsHere(t)'
               PROVE  StepOnItsWay(t, inbox') \/ (Offered' /\ NoFinish(t, inbox'))
    BY DEF StepInv, StepOnItsWay, NoFinish
  <2>1. WaitsHere(t) /\ window.task = t
    BY <1>3 DEF WaitsHere
  <2>2. CASE type \in {"step-start", "step-finish"}
    <3>1. u = t
      BY <2>1, <2>2 DEF Takes
    <3>2. CASE type = "step-start"
      BY <1>3, <2>1, <3>2 DEF FollowInv, StepInv, Shrunk, Offered
    <3>3. CASE type = "step-finish"
      <4>1. Event(u, type) # Event(t, "step-start")
        BY <3>3, EventTyped DEF EventTypes
      <4> QED
        BY <2>1, <3>1, <3>3, <4>1 DEF FollowInv, StepInv, Shrunk
    <3> QED
      BY <2>2, <3>2, <3>3
  <2>3. CASE type \notin {"step-start", "step-finish"}
    <3>1. Event(u, type) # Event(t, "step-start")
      BY <2>3, EventTyped DEF EventTypes
    <3>2. window' = window /\ dropped' = dropped
      <4>1. dropped' = (dropped /\ type # "step-start") /\ dropped \in BOOLEAN
        BY DEF Shown, FollowInv, DebugTypes
      <4> QED
        BY <1>3, <2>3, <4>1
    <3>3. Offered => Offered'
      BY <3>2 DEF Offered
    <3> QED
      BY <2>1, <3>1, <3>3 DEF FollowInv, StepInv, Shrunk
  <2> QED
    BY <2>2, <2>3
<1>7. DebugInv'
  BY <1>1, <1>2, <1>3, DebugStays DEF FollowInv, DebugInv, Shrunk
<1>8. DebugTypes'
  BY DEF FollowInv, DebugTypes, Shown
<1> QED
  BY <1>5, <1>6, <1>7, <1>8 DEF FollowInv

LEMMA FollowsEvent ==
  ASSUME WindowInv, SourcesInv, FollowInv, HandleEvent
  PROVE  FollowInv'
<1>1. PICK e \in Events : e = Head(inbox) /\ e = inbox[1] /\ 1 \in 1..Len(inbox)
  <2>1. inbox \in Seq(Events) /\ inbox # <<>>
    BY DEF WindowInv, AttemptsInv, EventsOK, HandleEvent
  <2> QED
    BY <2>1, SeqTail
<1>2. PICK u \in Tasks, type \in EventTypes : u = e.task /\ type = e.type /\ e = Event(u, type)
  BY DEF Events, Event
<1>3. Shrunk(inbox, inbox', Event(u, type))
  <2>1. inbox \in Seq(Events) /\ inbox # <<>> /\ inbox' = Tail(inbox)
    BY DEF HandleEvent, WindowInv, AttemptsInv, EventsOK
  <2>2. Shrunk(inbox, inbox', Head(inbox))
    BY <2>1, BoxShrinks
  <2> QED
    BY <1>1, <1>2, <2>2
<1>4. type \in {"step-start", "step-finish"} => ModeOf[u] = "debug"
  BY <1>1, <1>2 DEF FollowInv, DebugInv
<1>5. /\ UNCHANGED <<phase, debugger, cancelled, command, open, tab, entry>>
      /\ \/ ~Takes(u) /\ UNCHANGED <<attempt, window, dropped>>
         \/ Completed(u) /\ UNCHANGED dropped
         \/ Takes(u) /\ type # "completed" /\ Shown(u, type)
  BY <1>1, <1>2 DEF HandleEvent, service
<1>6. inbox' \in Seq(Events) /\ \A x : Has(inbox', x) => Has(inbox, x)
  BY <1>3 DEF Shrunk
<1> QED
  BY <1>3, <1>4, <1>5, <1>6, FollowsDropped, FollowsCompleted, FollowsShown DEF editor

LEMMA WindowKeepsFollowing ==
  ASSUME WindowInv, SourcesInv, FollowInv, [WindowNext]_windowVars
  PROVE  FollowInv'
<1>1. CASE UNCHANGED windowVars
  BY <1>1 DEF windowVars, FollowInv, DebugTypes, DebugInv, ShownTaskLives, StepInv, WaitsHere,
       Offered, StepOnItsWay, NoFinish, InTransit, Forgotten
<1> QED
  BY <1>1, FollowsStart, FollowsStop, FollowsCommand, FollowsTab, FollowsOpen, FollowsClose,
     FollowsClear, FollowsView, FollowsReset, FollowsReply, FollowsEvent, FollowsRejected,
     FollowsOutput, FollowsAnnounced, FollowsCompletes
     DEF WindowNext, User

LEMMA FollowsInit ==
  ASSUME WindowInit PROVE FollowInv
<1>1. DebugTypes
  <2>1. PICK n \in Nat, w \in BOOLEAN : n = 0 /\ w = FALSE
    OBVIOUS
  <2>2. debugger = [t \in Tasks |-> [steps |-> n, waits |-> w, unread |-> w]]
    BY <2>1 DEF WindowInit
  <2>3. debugger \in [Tasks -> Debuggers]
    BY <2>2 DEF Debuggers
  <2> QED
    BY <2>3, WindowAssumption DEF WindowInit, DebugTypes
<1>2. window.task = NoTask /\ Len(inbox) = 0 /\ \A t \in Tasks : ~debugger[t].waits
  BY DEF WindowInit
<1> QED
  BY <1>1, <1>2, WindowAssumption DEF FollowInv, DebugInv, ShownTaskLives, StepInv, WaitsHere

(* What the window shows as running, and offers to stop or to step, is     *)
(* what runs in the main process: a task that is shown lives or the news   *)
(* of its end is coming, one that runs is shown, and a debugger that waits *)
(* can be told to go on until the tab that offers it is selected again,    *)
(* closed, cleared or forgotten.                                           *)
THEOREM WindowAlwaysFollows == WindowSpec => []WindowFollowsTask
<1>1. WindowInv /\ SourcesInv /\ FollowInv => WindowFollowsTask
  <2> SUFFICES ASSUME WindowInv, SourcesInv, FollowInv PROVE WindowFollowsTask
    OBVIOUS
  <2>1. WindowTypeOK
    BY DEF WindowInv, AttemptsInv, EventsOK, ResetsInv, ShapesInv, SourcesInv, FollowInv, DebugTypes,
       WindowTypeOK, Events, EventTypes, Resets, Windows, LogFiles, Debuggers
  <2>2. RunningTaskShown
    BY DEF WindowInv, AttemptsInv, ShownInv, RunningTaskShown
  <2>3. StepCanContinue
    <3> SUFFICES ASSUME NEW t \in Tasks, WaitsHere(t), inbox = <<>> PROVE Offered
      BY DEF StepCanContinue, WaitsHere, Offered
    <3>1. ~StepOnItsWay(t, inbox)
      BY DEF StepOnItsWay
    <3> QED
      BY <3>1 DEF FollowInv, StepInv
  <2> QED
    BY <2>1, <2>2, <2>3 DEF FollowInv, WindowFollowsTask
<1> QED
  BY <1>1, WindowInvariant, FollowsInit, WindowKeepsFollowing, PTL DEF WindowSpec

=============================================================================
