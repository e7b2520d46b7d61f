------------------------- MODULE RemoteServerProofs -------------------------
(***************************************************************************)
(* Proofs about RemoteServer: permits, the shared log level, the recursion *)
(* guard, the capture handlers and the records they keep, for every number *)
(* of threads and every limit.                                             *)
(***************************************************************************)
EXTENDS RemoteServer, FiniteSetTheorems, SequenceTheorems, TLAPS

(* Appending to and shortening a sequence, as the steps of a thread do.    *)
LEMMA AppendFacts ==
  ASSUME NEW S, NEW s \in Seq(S), NEW e \in S
  PROVE  /\ Append(s, e) \in Seq(S)
         /\ Len(Append(s, e)) = Len(s) + 1
         /\ \A i \in 1..Len(s) : Append(s, e)[i] = s[i]
         /\ Append(s, e)[Len(s) + 1] = e
  OBVIOUS

LEMMA FrontFacts ==
  ASSUME NEW S, NEW s \in Seq(S), s # <<>>
  PROVE  /\ SubSeq(s, 1, Len(s) - 1) \in Seq(S)
         /\ Len(SubSeq(s, 1, Len(s) - 1)) = Len(s) - 1
         /\ \A i \in 1..(Len(s) - 1) : SubSeq(s, 1, Len(s) - 1)[i] = s[i]
         /\ s[Len(s)] \in S
         /\ Len(s) \in Nat \ {0}
<1>1. Len(s) \in Nat \ {0} /\ s[Len(s)] \in S
  BY EmptySeq
<1>2. Len(s) - 1 \in Nat /\ Len(s) - 1 <= Len(s)
  BY <1>1
<1>3. PICK n \in Nat : n = Len(s) - 1 /\ n <= Len(s)
  BY <1>2, Zenon
<1>4. Len(SubSeq(s, 1, n)) = n
  BY <1>3
<1>5. /\ SubSeq(s, 1, n) \in Seq(S)
      /\ \A i \in 1..n : SubSeq(s, 1, n)[i] = s[i]
  BY <1>3
<1> QED BY <1>1, <1>3, <1>4, <1>5

LEMMA RemoveFacts ==
  ASSUME NEW S, NEW s \in Seq(S), NEW i \in 1..Len(s), NEW r,
         r = [j \in 1..(Len(s) - 1) |-> IF j < i THEN s[j] ELSE s[j + 1]]
  PROVE  /\ r \in Seq(S)
         /\ Len(r) = Len(s) - 1
         /\ \A j \in 1..(Len(s) - 1) : r[j] = IF j < i THEN s[j] ELSE s[j + 1]
<1>1. Len(s) \in Nat /\ \A j \in 1..Len(s) : s[j] \in S
  BY LenProperties, ElementOfSeq
<1>2. r \in [1..(Len(s) - 1) -> S]
  BY <1>1
<1>3. Len(s) - 1 \in Nat
  BY <1>1
<1>4. r \in Seq(S)
  BY <1>2, <1>3, SeqDef, Zenon
<1>5. DOMAIN r = 1..(Len(s) - 1) /\ DOMAIN r = 1..Len(r) /\ Len(r) \in Nat
  BY <1>2, <1>4, LenProperties
<1> QED BY <1>3, <1>4, <1>5

-----------------------------------------------------------------------------
(* A thread about to enter a body was asked for a custom keyword.          *)
EnteringCustom == \A t \in Threads : pc[t] = "entering" => request[t] \in CustomKeywords

(* The inductive invariant of the limiter: permits stay in range because   *)
(* the admitted requests account for the missing ones.                     *)
LimiterInv == TypeOK /\ EnteringCustom /\ PermitsConserved

LEMMA AdmittedFinite == IsFiniteSet(Admitted) /\ Cardinality(Admitted) \in Nat
  BY ServerAssumption, FS_Subset, FS_CardinalityType DEF Admitted

THEOREM LimiterInit == Init => LimiterInv
<1> SUFFICES ASSUME Init PROVE LimiterInv
  OBVIOUS
<1>1. TypeOK
  BY ServerAssumption, EmptySeq DEF Init, TypeOK, Phases, Replies
<1>2. EnteringCustom
  BY DEF Init, EnteringCustom
<1>3. Admitted = {}
  BY DEF Init, Admitted
<1>4. PermitsConserved
  BY <1>3, FS_EmptySet, ServerAssumption DEF Init, PermitsConserved
<1> QED BY <1>1, <1>2, <1>4 DEF LimiterInv

(* How a step of one thread changes the set of admitted requests. *)
Outside == {"idle", "arrived", "wrong key"}

LEMMA AdmittedMoves ==
  ASSUME TypeOK, NEW t \in Threads, NEW p, Goto(t, p)
  PROVE  Admitted' = IF p \in Outside THEN Admitted \ {t} ELSE Admitted \cup {t}
<1>1. \A u \in Threads : pc'[u] = IF u = t THEN p ELSE pc[u]
  BY DEF TypeOK, Goto
<1> QED BY <1>1 DEF Admitted, Outside

(* A step that neither acquires nor releases a permit keeps the balance.   *)
LEMMA BalanceKept ==
  ASSUME LimiterInv, NEW t \in Threads, NEW p, Goto(t, p),
         (pc[t] \in Outside) <=> (p \in Outside), permits' = permits
  PROVE  PermitsConserved'
<1>1. Admitted' = Admitted
  BY AdmittedMoves DEF LimiterInv, Admitted, Outside
<1> QED BY <1>1 DEF LimiterInv, PermitsConserved

THEOREM LimiterStep == LimiterInv /\ [Next]_vars => LimiterInv'
<1> SUFFICES ASSUME LimiterInv, [Next]_vars PROVE LimiterInv'
  OBVIOUS
<1> USE DEF LimiterInv
<1>1. CASE UNCHANGED vars
  <2>1. TypeOK' /\ EnteringCustom'
    BY <1>1 DEF vars, limiterVars, logVars, recordVars, callVars, TypeOK, EnteringCustom
  <2>2. PermitsConserved'
    BY <1>1 DEF vars, limiterVars, PermitsConserved, Admitted
  <2> QED BY <2>1, <2>2
<1>2. ASSUME NEW t \in Threads, NEW k \in Keywords, Request(t, k) PROVE LimiterInv'
  <2>1. TypeOK'
    BY <1>2, ServerAssumption DEF Request, Goto, Answer, At, TypeOK, Phases, Replies,
                                  limiterVars, logVars
  <2>2. EnteringCustom'
    BY <1>2 DEF Request, Goto, TypeOK, EnteringCustom
  <2>3. PermitsConserved'
    <3>1. CASE Goto(t, "arrived")
      BY <3>1, <1>2, BalanceKept DEF Request, At, limiterVars, Outside
    <3>2. CASE Goto(t, "wrong key")
      BY <3>2, <1>2, BalanceKept DEF Request, At, limiterVars, Outside
    <3> QED BY <3>1, <3>2, <1>2 DEF Request
  <2> QED BY <2>1, <2>2, <2>3
<1>3. ASSUME NEW t \in Threads, Admit(t) PROVE LimiterInv'
  <2>1. permits' \in 0..MaxConcurrency /\ permits' = permits - 1
    BY <1>3, ServerAssumption DEF Admit, TypeOK
  <2>2. TypeOK'
    BY <1>3, <2>1 DEF Admit, Goto, TypeOK, Phases, logVars, recordVars, callVars
  <2>3. EnteringCustom'
    BY <1>3 DEF Admit, Goto, TypeOK, EnteringCustom
  <2>4. PermitsConserved'
    <3>1. Admitted' = Admitted \cup {t} /\ t \notin Admitted
      BY <1>3, AdmittedMoves DEF Admit, At, Outside, Admitted
    <3>2. Cardinality(Admitted') = Cardinality(Admitted) + 1
      BY <3>1, AdmittedFinite, FS_AddElement
    <3> QED BY <2>1, <3>2, AdmittedFinite, ServerAssumption DEF PermitsConserved, TypeOK
  <2> QED BY <2>2, <2>3, <2>4
<1>4. ASSUME NEW t \in Threads, Reply(t) PROVE LimiterInv'
  <2>1. Admitted' = Admitted \ {t} /\ t \in Admitted
    BY <1>4, AdmittedMoves DEF Reply, ReplyAnd, At, Outside, Admitted
  <2>2. Cardinality(Admitted') = Cardinality(Admitted) - 1
    BY <2>1, AdmittedFinite, FS_RemoveElement
  <2>3. Cardinality(Admitted) >= 1
    BY <2>1, AdmittedFinite, FS_EmptySet
  <2>4. permits' \in 0..MaxConcurrency /\ permits' = permits + 1
    BY <1>4, <2>3, AdmittedFinite, ServerAssumption DEF Reply, ReplyAnd, TypeOK,
                                                        PermitsConserved
  <2>5. TypeOK'
    BY <1>4, <2>4 DEF Reply, ReplyAnd, Goto, Answer, TypeOK, Phases, Replies, logVars,
                      recordVars, callVars
  <2>6. EnteringCustom'
    BY <1>4 DEF Reply, ReplyAnd, Goto, TypeOK, EnteringCustom
  <2>7. PermitsConserved'
    BY <2>2, <2>4, AdmittedFinite, ServerAssumption DEF PermitsConserved, TypeOK
  <2> QED BY <2>5, <2>6, <2>7
<1>5. ASSUME NEW t \in Threads, Unauthorised(t) PROVE LimiterInv'
  <2>1. TypeOK'
    BY <1>5 DEF Unauthorised, TypeOK, Phases, Replies, At, Goto, Answer, limiterVars,
                logVars, recordVars, callVars
  <2>2. EnteringCustom'
    BY <1>5 DEF Unauthorised, Goto, TypeOK, EnteringCustom
  <2>3. PermitsConserved'
    BY <1>5, BalanceKept DEF Unauthorised, At, Outside, limiterVars
  <2> QED BY <2>1, <2>2, <2>3
<1>6. ASSUME NEW t \in Threads, Busy(t) PROVE LimiterInv'
  <2>1. TypeOK'
    BY <1>6 DEF Busy, BusyAnd, TypeOK, Phases, Replies, At, Goto, Answer, limiterVars,
                logVars, recordVars, callVars
  <2>2. EnteringCustom'
    BY <1>6 DEF Busy, BusyAnd, Goto, TypeOK, EnteringCustom
  <2>3. PermitsConserved'
    BY <1>6, BalanceKept DEF Busy, BusyAnd, At, Outside, limiterVars
  <2> QED BY <2>1, <2>2, <2>3
<1>7. ASSUME NEW t \in Threads, Completes(t) PROVE LimiterInv'
  <2>1. TypeOK'
    BY <1>7 DEF Completes, TypeOK, Phases, Replies, At, Goto, Answer, limiterVars, logVars,
                recordVars, callVars
  <2>2. EnteringCustom'
    BY <1>7 DEF Completes, Goto, TypeOK, EnteringCustom
  <2>3. PermitsConserved'
    BY <1>7, BalanceKept DEF Completes, At, Outside, limiterVars
  <2> QED BY <2>1, <2>2, <2>3
<1>8. ASSUME NEW t \in Threads, Fails(t) PROVE LimiterInv'
  <2>1. TypeOK'
    BY <1>8 DEF Fails, FailsInto, TypeOK, Phases, Replies, At, Goto, Answer, limiterVars,
                logVars, recordVars, callVars
  <2>2. EnteringCustom'
    BY <1>8 DEF Fails, FailsInto, Goto, TypeOK, EnteringCustom
  <2>3. PermitsConserved'
    BY <1>8, BalanceKept DEF Fails, FailsInto, At, Outside, limiterVars
  <2> QED BY <2>1, <2>2, <2>3
<1>9. ASSUME NEW t \in Threads, AttachHandler(t) PROVE LimiterInv'
  <2>1. handlers' \in Seq(Threads)
    BY <1>9, AppendFacts DEF AttachHandler, AddHandlers, TypeOK
  <2>2. TypeOK'
    BY <2>1, <1>9 DEF AttachHandler, AddHandlers, TypeOK, Phases, Replies, At, Goto,
                      Answer, limiterVars, logVars, recordVars, callVars
  <2>3. EnteringCustom'
    BY <1>9 DEF AttachHandler, AddHandlers, Goto, TypeOK, EnteringCustom
  <2>4. PermitsConserved'
    BY <1>9, BalanceKept DEF AttachHandler, AddHandlers, At, Outside, limiterVars
  <2> QED BY <2>2, <2>3, <2>4
<1>10. ASSUME NEW t \in Threads, AcquireLevel(t) PROVE LimiterInv'
  <2>1. rootLevel' \in Nat /\ levelRequests' \in Nat /\ savedLevel' \in Nat \cup {NoLevel}
    BY <1>10, ServerAssumption DEF AcquireLevel, TypeOK
  <2>2. TypeOK'
    BY <2>1, <1>10 DEF AcquireLevel, TypeOK, Phases, Replies, At, Goto, Answer,
                       limiterVars, logVars, recordVars, callVars
  <2>3. EnteringCustom'
    BY <1>10 DEF AcquireLevel, Goto, TypeOK, EnteringCustom
  <2>4. PermitsConserved'
    BY <1>10, BalanceKept DEF AcquireLevel, At, Outside, limiterVars
  <2> QED BY <2>2, <2>3, <2>4
<1>11. ASSUME NEW t \in Threads, DetachHandler(t) PROVE LimiterInv'
  <2>1. handlers' \in Seq(Threads)
    <3>1. PICK i \in 1..Len(handlers) :
            handlers' = [j \in 1..(Len(handlers) - 1) |->
                           IF j < i THEN handlers[j] ELSE handlers[j + 1]]
      BY <1>11 DEF DetachHandler
    <3>2. handlers \in Seq(Threads)
      BY DEF TypeOK
    <3> HIDE DEF LimiterInv
    <3> QED BY <3>1, <3>2, RemoveFacts, Zenon
  <2>2. TypeOK'
    BY <2>1, <1>11 DEF DetachHandler, TypeOK, Phases, Replies, At, Goto, Answer,
                       limiterVars, logVars, recordVars, callVars
  <2>3. EnteringCustom'
    BY <1>11 DEF DetachHandler, Goto, TypeOK, EnteringCustom
  <2>4. PermitsConserved'
    BY <1>11, BalanceKept DEF DetachHandler, At, Outside, limiterVars
  <2> QED BY <2>2, <2>3, <2>4
<1>12. ASSUME NEW t \in Threads, ReleaseLevel(t) PROVE LimiterInv'
  <2>1. rootLevel' \in Nat /\ levelRequests' \in Nat /\ savedLevel' \in Nat \cup {NoLevel}
    BY <1>12, ServerAssumption DEF ReleaseLevel, RestoreLevelWhen, TypeOK
  <2>2. TypeOK'
    BY <2>1, <1>12 DEF ReleaseLevel, RestoreLevelWhen, TypeOK, Phases, Replies, At, Goto,
                       Answer, limiterVars, logVars, recordVars, callVars
  <2>3. EnteringCustom'
    BY <1>12 DEF ReleaseLevel, RestoreLevelWhen, Goto, TypeOK, EnteringCustom
  <2>4. PermitsConserved'
    BY <1>12, BalanceKept DEF ReleaseLevel, RestoreLevelWhen, At, Outside, limiterVars
  <2> QED BY <2>2, <2>3, <2>4
<1>13. ASSUME NEW t \in Threads, EnterBody(t) PROVE LimiterInv'
  <2>1. request[t] \in CustomKeywords
    BY <1>13 DEF EnterBody, At, EnteringCustom
  <2>2. calls' \in [Threads -> Seq(CustomKeywords)]
    BY <1>13, <2>1, AppendFacts DEF EnterBody, TypeOK
  <2>3. TypeOK'
    BY <2>1, <2>2, <1>13 DEF EnterBody, TypeOK, Phases, Replies, At, Goto, Answer,
                             limiterVars, logVars, recordVars, callVars
  <2>4. EnteringCustom'
    BY <1>13 DEF EnterBody, Goto, TypeOK, EnteringCustom
  <2>5. PermitsConserved'
    BY <1>13, BalanceKept DEF EnterBody, At, Outside, limiterVars
  <2> QED BY <2>3, <2>4, <2>5
<1>14. ASSUME NEW t \in Threads, NEW k \in Keywords, CallCustom(t, k) PROVE LimiterInv'
  <2>1. CASE k \in guard
    <3>1. PICK p \in {"exiting", "running"} : Goto(t, p)
      BY <1>14, <2>1 DEF CallCustom
    <3>2. TypeOK'
      BY <1>14, <2>1, <3>1 DEF CallCustom, Goto, TypeOK, Phases, limiterVars, logVars,
                               recordVars
    <3>3. EnteringCustom'
      BY <1>14, <3>1 DEF CallCustom, Goto, TypeOK, EnteringCustom
    <3>4. PermitsConserved'
      BY <1>14, <3>1, BalanceKept DEF CallCustom, At, Outside, limiterVars
    <3> QED BY <3>2, <3>3, <3>4
  <2>2. CASE k \notin guard
    <3>1. Goto(t, "entering")
      BY <1>14, <2>2 DEF CallCustom
    <3>2. TypeOK'
      BY <1>14, <2>2, <3>1 DEF CallCustom, Goto, TypeOK, Phases, limiterVars, logVars,
                               recordVars
    <3>3. EnteringCustom'
      BY <1>14, <3>1 DEF CallCustom, Goto, TypeOK, EnteringCustom
    <3>4. PermitsConserved'
      BY <1>14, <3>1, BalanceKept DEF CallCustom, At, Outside, limiterVars
    <3> QED BY <3>2, <3>3, <3>4
  <2> QED BY <2>1, <2>2
<1>15. ASSUME NEW t \in Threads, LeaveBody(t) PROVE LimiterInv'
  <2>1. calls[t] \in Seq(CustomKeywords) /\ calls[t] # <<>>
    BY <1>15 DEF LeaveBody, LeaveBodyAnd, Innermost, TypeOK
  <2>2. calls' \in [Threads -> Seq(CustomKeywords)]
    BY <1>15, <2>1, FrontFacts DEF LeaveBody, LeaveBodyAnd, Innermost, TypeOK
  <2>3. PICK p \in {"exiting", "running"} : Goto(t, p)
    BY <1>15 DEF LeaveBody, LeaveBodyAnd, Innermost
  <2>4. TypeOK'
    BY <1>15, <2>2, <2>3 DEF LeaveBody, LeaveBodyAnd, Innermost, Goto, TypeOK, Phases,
                             limiterVars, logVars,
                             recordVars
  <2>5. EnteringCustom'
    BY <1>15, <2>3 DEF LeaveBody, LeaveBodyAnd, Innermost, Goto, TypeOK, EnteringCustom
  <2>6. PermitsConserved'
    BY <1>15, <2>3, BalanceKept DEF LeaveBody, LeaveBodyAnd, Innermost, At, Outside,
                                    limiterVars
  <2> QED BY <2>4, <2>5, <2>6
<1>16. ASSUME NEW t \in Threads, Log(t) \/ Deliver(t) \/ BodyRaises(t) PROVE LimiterInv'
  <2>1. UNCHANGED <<pc, request, permits>>
    BY <1>16 DEF Log, Deliver, BodyRaises, limiterVars
  <2>2. EnteringCustom' /\ PermitsConserved'
    BY <2>1 DEF EnteringCustom, PermitsConserved, Admitted
  <2>3. CASE Log(t)
    BY <2>2, <2>3 DEF Log, TypeOK, limiterVars, logVars, callVars
  <2>4. CASE Deliver(t)
    <3>1. cursor \in [Threads -> Nat] /\ captured \in [Threads -> Nat]
      BY DEF TypeOK
    <3>2. /\ cursor' \in {[cursor EXCEPT ![t] = cursor[t] + 1], [cursor EXCEPT ![t] = 0]}
          /\ captured' \in {captured, [captured EXCEPT ![t] = captured[t] + 1]}
      BY <2>4 DEF Deliver
    <3>3. cursor' \in [Threads -> Nat] /\ captured' \in [Threads -> Nat]
      <4> HIDE DEF LimiterInv
      <4> QED BY <3>1, <3>2
    <3> QED BY <2>2, <2>4, <3>3 DEF Deliver, TypeOK, limiterVars, logVars, callVars
  <2>5. CASE BodyRaises(t)
    BY <2>2, <2>5 DEF BodyRaises, TypeOK, limiterVars, logVars, recordVars
  <2> QED BY <1>16, <2>3, <2>4, <2>5
<1> QED
  BY <1>1, <1>2, <1>3, <1>4, <1>5, <1>6, <1>7, <1>8, <1>9, <1>10, <1>11, <1>12, <1>13,
     <1>14, <1>15, <1>16 DEF Next, Step

(* The state stays well typed and the limiter neither loses nor invents a  *)
(* permit, for every number of threads and every limit.                    *)
THEOREM TypesAndPermits == Spec => [](TypeOK /\ PermitsConserved)
<1>1. LimiterInv => TypeOK /\ PermitsConserved
  BY DEF LimiterInv
<1> QED BY LimiterInit, LimiterStep, <1>1, PTL DEF Spec

-----------------------------------------------------------------------------
(* The shared log level.                                                   *)
CapturePhases == {"running", "entering", "exiting", "detached"}

LEMMA CapturingMoves ==
  ASSUME TypeOK, NEW t \in Threads, NEW p, Goto(t, p)
  PROVE  Capturing' = IF p \in CapturePhases THEN Capturing \cup {t} ELSE Capturing \ {t}
<1>1. \A u \in Threads : pc'[u] = IF u = t THEN p ELSE pc[u]
  BY DEF TypeOK, Goto
<1> QED BY <1>1 DEF Capturing, CapturePhases

LEMMA CapturingFinite == IsFiniteSet(Capturing) /\ Cardinality(Capturing) \in Nat
  BY ServerAssumption, FS_Subset, FS_CardinalityType DEF Capturing

(* A step that does not touch the level stays inside or outside the        *)
(* captures.                                                               *)
LEMMA OtherStepsKeepCapturing ==
  ASSUME LimiterInv, NEW t \in Threads,
         \/ \E k \in Keywords : Request(t, k) \/ CallCustom(t, k)
         \/ Unauthorised(t) \/ Admit(t) \/ Busy(t) \/ AttachHandler(t)
         \/ Log(t) \/ Deliver(t) \/ Completes(t) \/ Fails(t)
         \/ EnterBody(t) \/ BodyRaises(t) \/ LeaveBody(t)
         \/ DetachHandler(t) \/ Reply(t)
  PROVE  Capturing' = Capturing /\ UNCHANGED <<levelRequests, savedLevel, rootLevel>>
<1> USE DEF At, LimiterInv
<1>1. UNCHANGED <<levelRequests, savedLevel, rootLevel>>
  BY DEF Request, CallCustom, Unauthorised, Admit, Busy, BusyAnd, AttachHandler,
         AddHandlers, Log, Deliver,
         Completes, Fails, FailsInto, EnterBody, BodyRaises, LeaveBody, LeaveBodyAnd,
         Innermost, DetachHandler, Reply, ReplyAnd, logVars
<1>2. CASE Log(t) \/ Deliver(t) \/ BodyRaises(t)
  BY <1>1, <1>2 DEF Log, Deliver, BodyRaises, Capturing
<1>3. CASE \/ Unauthorised(t) \/ Admit(t) \/ Busy(t) \/ AttachHandler(t) \/ Reply(t)
           \/ \E k \in Keywords : Request(t, k)
  <2>1. PICK p \in Phases \ CapturePhases : Goto(t, p)
    BY <1>3 DEF Request, Unauthorised, Admit, Busy, BusyAnd, AttachHandler, AddHandlers,
                Reply, ReplyAnd, Phases,
                CapturePhases
  <2>2. t \notin Capturing
    BY <1>3 DEF Request, Unauthorised, Admit, Busy, BusyAnd, AttachHandler, AddHandlers,
                Reply, ReplyAnd, Capturing
  <2> QED BY <1>1, <2>1, <2>2, CapturingMoves
<1>4. CASE \/ Completes(t) \/ Fails(t) \/ EnterBody(t) \/ LeaveBody(t) \/ DetachHandler(t)
           \/ \E k \in Keywords : CallCustom(t, k)
  <2>1. PICK p \in CapturePhases : Goto(t, p)
    BY <1>4 DEF Completes, Fails, FailsInto, EnterBody, LeaveBody, LeaveBodyAnd, Innermost,
                DetachHandler, CallCustom,
                CapturePhases
  <2>2. t \in Capturing
    BY <1>4 DEF Completes, Fails, FailsInto, EnterBody, LeaveBody, LeaveBodyAnd, Innermost,
                DetachHandler, CallCustom, Capturing
  <2> QED BY <1>1, <2>1, <2>2, CapturingMoves
<1> QED BY <1>2, <1>3, <1>4

THEOREM LevelStep == LimiterInv /\ LevelShared /\ [Next]_vars => LevelShared'
<1> SUFFICES ASSUME LimiterInv, LevelShared, [Next]_vars PROVE LevelShared'
  OBVIOUS
<1>1. ASSUME Capturing' = Capturing, UNCHANGED <<levelRequests, savedLevel, rootLevel>>
      PROVE LevelShared'
  BY <1>1 DEF LevelShared
<1>2. CASE UNCHANGED vars
  BY <1>1, <1>2 DEF vars, logVars, Capturing
<1>3. ASSUME NEW t \in Threads, AcquireLevel(t) PROVE LevelShared'
  <2>1. Capturing' = Capturing \cup {t} /\ t \notin Capturing
    BY <1>3, CapturingMoves DEF AcquireLevel, At, CapturePhases, Capturing, LimiterInv
  <2>2. Cardinality(Capturing') = Cardinality(Capturing) + 1
    BY <2>1, CapturingFinite, FS_AddElement
  <2>3. levelRequests' = levelRequests + 1 /\ levelRequests \in Nat
    BY <1>3 DEF AcquireLevel, LimiterInv, TypeOK
  <2>4. savedLevel' = HostLevel
    BY <1>3 DEF AcquireLevel, LevelShared
  <2>5. rootLevel' = IF HostLevel <= CaptureLevel THEN HostLevel ELSE CaptureLevel
    BY <1>3, ServerAssumption DEF AcquireLevel, LevelShared
  <2> QED BY <2>2, <2>3, <2>4, <2>5 DEF LevelShared
<1>4. ASSUME NEW t \in Threads, ReleaseLevel(t) PROVE LevelShared'
  <2>1. Capturing' = Capturing \ {t} /\ t \in Capturing
    BY <1>4, CapturingMoves DEF ReleaseLevel, RestoreLevelWhen, At, CapturePhases,
                                Capturing, LimiterInv
  <2>2. Cardinality(Capturing') = Cardinality(Capturing) - 1
    BY <2>1, CapturingFinite, FS_RemoveElement
  <2>3. Cardinality(Capturing) >= 1
    BY <2>1, CapturingFinite, FS_EmptySet
  <2>4. levelRequests' = levelRequests - 1 /\ levelRequests >= 1 /\ levelRequests \in Nat
    BY <1>4, <2>3 DEF ReleaseLevel, RestoreLevelWhen, LevelShared, LimiterInv, TypeOK
  <2>5. savedLevel = HostLevel /\ HostLevel # NoLevel
    BY <2>4, ServerAssumption DEF LevelShared
  <2>6. CASE levelRequests' = 0
    BY <1>4, <2>2, <2>4, <2>5, <2>6 DEF ReleaseLevel, RestoreLevelWhen, LevelShared
  <2>7. CASE levelRequests' # 0
    BY <1>4, <2>2, <2>4, <2>5, <2>7 DEF ReleaseLevel, RestoreLevelWhen, LevelShared
  <2> QED BY <2>6, <2>7
<1> QED
  BY <1>1, <1>2, <1>3, <1>4, OtherStepsKeepCapturing DEF Next, Step

(* Concurrent captures never lose the host's log level and never keep the  *)
(* diagnostics' one: whatever the order of enters and exits, the level is  *)
(* the host's again when no request captures.                              *)
THEOREM LevelSharedAlways == Spec => []LevelShared
<1>1. Init => LevelShared
  <2> SUFFICES ASSUME Init PROVE LevelShared
    OBVIOUS
  <2>1. Capturing = {}
    BY DEF Init, Capturing
  <2> QED BY <2>1, FS_EmptySet, ServerAssumption DEF Init, LevelShared
<1> QED BY LimiterInit, LimiterStep, <1>1, LevelStep, PTL DEF Spec

-----------------------------------------------------------------------------
(* The recursion guard.                                                    *)
THEOREM GuardStep == LimiterInv /\ GuardReleased /\ [Next]_vars => GuardReleased'
<1> SUFFICES ASSUME LimiterInv, GuardReleased, [Next]_vars PROVE GuardReleased'
  OBVIOUS
<1>1. CASE UNCHANGED <<guard, calls>>
  BY <1>1 DEF GuardReleased
<1>2. ASSUME NEW t \in Threads, EnterBody(t) PROVE GuardReleased'
  <2>1. /\ guard' = guard \cup {request[t]}
        /\ calls' = [calls EXCEPT ![t] = Append(calls[t], request[t])]
        /\ calls \in [Threads -> Seq(CustomKeywords)]
        /\ request[t] \in CustomKeywords
    BY <1>2 DEF EnterBody, At, LimiterInv, TypeOK, EnteringCustom
  <2>2. ASSUME NEW u \in Threads, NEW i \in 1..Len(calls[u])
        PROVE  i \in 1..Len(calls'[u]) /\ calls'[u][i] = calls[u][i]
    BY <2>1, <2>2, AppendFacts
  <2>3. Len(calls'[t]) \in 1..Len(calls'[t]) /\ calls'[t][Len(calls'[t])] = request[t]
    BY <2>1, AppendFacts
  <2>4. ASSUME NEW k \in guard'
        PROVE  \E u \in Threads : \E i \in 1..Len(calls'[u]) : calls'[u][i] = k
    <3>1. CASE k = request[t]
      BY <2>3, <3>1
    <3>2. CASE k \in guard
      <4>1. PICK u \in Threads : \E i \in 1..Len(calls[u]) : calls[u][i] = k
        BY <3>2 DEF GuardReleased
      <4>2. PICK i \in 1..Len(calls[u]) : calls[u][i] = k
        BY <4>1
      <4> QED BY <4>2, <2>2
    <3> QED BY <2>1, <2>4, <3>1, <3>2
  <2> QED BY <2>4 DEF GuardReleased
<1>3. ASSUME NEW t \in Threads, LeaveBody(t) PROVE GuardReleased'
  <2>1. /\ guard' = guard \ {calls[t][Len(calls[t])]}
        /\ calls' = [calls EXCEPT ![t] = SubSeq(calls[t], 1, Len(calls[t]) - 1)]
        /\ calls \in [Threads -> Seq(CustomKeywords)]
        /\ calls[t] \in Seq(CustomKeywords) /\ calls[t] # <<>>
    BY <1>3 DEF LeaveBody, LeaveBodyAnd, Innermost, LimiterInv, TypeOK
  <2>2. ASSUME NEW u \in Threads, NEW i \in 1..Len(calls[u]),
               calls[u][i] # calls[t][Len(calls[t])]
        PROVE  i \in 1..Len(calls'[u]) /\ calls'[u][i] = calls[u][i]
    <3>1. CASE u # t
      BY <2>1, <2>2, <3>1
    <3>2. CASE u = t
      <4>1. calls'[t] = SubSeq(calls[t], 1, Len(calls[t]) - 1)
        BY <2>1
      <4>2. i # Len(calls[t]) /\ Len(calls[t]) \in Nat \ {0}
        BY <2>1, <2>2, <3>2, FrontFacts
      <4>3. i \in 1..(Len(calls[t]) - 1)
        BY <2>2, <3>2, <4>2
      <4> QED BY <2>1, <3>2, <4>1, <4>2, <4>3, FrontFacts
    <3> QED BY <3>1, <3>2
  <2>3. ASSUME NEW k \in guard'
        PROVE  \E u \in Threads : \E i \in 1..Len(calls'[u]) : calls'[u][i] = k
    <3>1. k \in guard /\ k # calls[t][Len(calls[t])]
      BY <2>1, <2>3
    <3>2. PICK u \in Threads : \E i \in 1..Len(calls[u]) : calls[u][i] = k
      BY <3>1 DEF GuardReleased
    <3>3. PICK i \in 1..Len(calls[u]) : calls[u][i] = k
      BY <3>2
    <3> QED BY <2>2, <3>1, <3>3
  <2> QED BY <2>3 DEF GuardReleased
<1> QED
  BY <1>1, <1>2, <1>3
  DEF Next, Step, vars, callVars, Request, CallCustom, Unauthorised, Admit, Busy, BusyAnd,
      AttachHandler, AddHandlers, AcquireLevel, Log, Deliver, Completes, Fails, FailsInto,
      BodyRaises,
      DetachHandler, ReleaseLevel, RestoreLevelWhen, Reply, ReplyAnd

(* A custom keyword that no thread runs can always be called: overlapping  *)
(* calls may clear each other's guard, but none leaves it set.             *)
THEOREM GuardAlwaysReleased == Spec => []GuardReleased
<1>1. Init => GuardReleased
  BY DEF Init, GuardReleased
<1> QED BY LimiterInit, LimiterStep, <1>1, GuardStep, PTL DEF Spec

-----------------------------------------------------------------------------
(* The capture handlers of the root logger.                                *)
AttachedPhases == {"attached", "running", "entering", "exiting"}

LEMMA OtherStepsKeepAttached ==
  ASSUME LimiterInv, NEW t \in Threads,
         \/ \E k \in Keywords : Request(t, k) \/ CallCustom(t, k)
         \/ Unauthorised(t) \/ Admit(t) \/ Busy(t) \/ AcquireLevel(t)
         \/ Log(t) \/ Deliver(t) \/ Completes(t) \/ Fails(t)
         \/ EnterBody(t) \/ BodyRaises(t) \/ LeaveBody(t)
         \/ ReleaseLevel(t) \/ Reply(t)
  PROVE  /\ handlers' = handlers
         /\ \A u \in Threads : pc'[u] \in AttachedPhases <=> pc[u] \in AttachedPhases
<1> USE DEF At, LimiterInv
<1>1. handlers' = handlers
  BY DEF Request, CallCustom, Unauthorised, Admit, Busy, BusyAnd, AcquireLevel, Log,
         Deliver,
         Completes, Fails, FailsInto, EnterBody, BodyRaises, LeaveBody, LeaveBodyAnd,
         Innermost, ReleaseLevel, RestoreLevelWhen, Reply, ReplyAnd, logVars
<1>2. CASE Log(t) \/ Deliver(t) \/ BodyRaises(t)
  BY <1>1, <1>2 DEF Log, Deliver, BodyRaises
<1>3. ASSUME NEW p, Goto(t, p), pc[t] \in AttachedPhases <=> p \in AttachedPhases
      PROVE \A u \in Threads : pc'[u] \in AttachedPhases <=> pc[u] \in AttachedPhases
  BY <1>3 DEF Goto, TypeOK
<1>4. CASE \/ Unauthorised(t) \/ Admit(t) \/ Busy(t) \/ ReleaseLevel(t) \/ Reply(t)
           \/ \E k \in Keywords : Request(t, k)
  <2>1. PICK p \in Phases \ AttachedPhases : Goto(t, p)
    BY <1>4 DEF Request, Unauthorised, Admit, Busy, BusyAnd, ReleaseLevel,
                RestoreLevelWhen, Reply, ReplyAnd, Phases,
                AttachedPhases
  <2>2. pc[t] \notin AttachedPhases
    BY <1>4 DEF Request, Unauthorised, Admit, Busy, BusyAnd, ReleaseLevel,
                RestoreLevelWhen, Reply, ReplyAnd, AttachedPhases
  <2> QED BY <1>1, <1>3, <2>1, <2>2
<1>5. CASE \/ AcquireLevel(t) \/ Completes(t) \/ Fails(t) \/ EnterBody(t) \/ LeaveBody(t)
           \/ \E k \in Keywords : CallCustom(t, k)
  <2>1. PICK p \in AttachedPhases : Goto(t, p)
    BY <1>5 DEF AcquireLevel, Completes, Fails, FailsInto, EnterBody, LeaveBody,
                LeaveBodyAnd, Innermost, CallCustom,
                AttachedPhases
  <2>2. pc[t] \in AttachedPhases
    BY <1>5 DEF AcquireLevel, Completes, Fails, FailsInto, EnterBody, LeaveBody,
                LeaveBodyAnd, Innermost, CallCustom,
                AttachedPhases
  <2> QED BY <1>1, <1>3, <2>1, <2>2
<1> QED BY <1>2, <1>4, <1>5

THEOREM HandlersStep == LimiterInv /\ HandlersMatch /\ [Next]_vars => HandlersMatch'
<1> SUFFICES ASSUME LimiterInv, HandlersMatch, [Next]_vars PROVE HandlersMatch'
  OBVIOUS
<1>1. ASSUME handlers' = handlers,
             \A u \in Threads : pc'[u] \in AttachedPhases <=> pc[u] \in AttachedPhases
      PROVE  HandlersMatch'
  BY <1>1 DEF HandlersMatch, AttachedPhases
<1>2. CASE UNCHANGED vars
  BY <1>1, <1>2 DEF vars, logVars
<1>3. handlers \in Seq(Threads) /\ pc \in [Threads -> Phases]
  BY DEF LimiterInv, TypeOK
<1>4. ASSUME NEW t \in Threads, AttachHandler(t) PROVE HandlersMatch'
  <2>1. \A u \in Threads : pc'[u] = IF u = t THEN "attached" ELSE pc[u]
    BY <1>3, <1>4 DEF AttachHandler, AddHandlers, Goto
  <2>2. \A i \in 1..Len(handlers) : handlers[i] # t
    BY <1>4 DEF AttachHandler, AddHandlers, At, HandlersMatch
  <2>3. /\ Len(handlers') = Len(handlers) + 1 /\ Len(handlers) \in Nat
        /\ \A i \in 1..Len(handlers) : handlers'[i] = handlers[i]
        /\ handlers'[Len(handlers) + 1] = t
    BY <1>3, <1>4, AppendFacts, LenProperties DEF AttachHandler, AddHandlers
  <2>4. \A i, j \in 1..Len(handlers') : handlers'[i] = handlers'[j] => i = j
    BY <2>2, <2>3 DEF HandlersMatch
  <2>5. {handlers'[i] : i \in 1..Len(handlers')} = {handlers[i] : i \in 1..Len(handlers)} \cup {t}
    BY <2>3
  <2>6. {u \in Threads : pc'[u] \in AttachedPhases} = {u \in Threads : pc[u] \in AttachedPhases} \cup {t}
    BY <2>1 DEF AttachedPhases
  <2> QED BY <2>4, <2>5, <2>6 DEF HandlersMatch, AttachedPhases
<1>5. ASSUME NEW t \in Threads, DetachHandler(t) PROVE HandlersMatch'
  <2>1. \A u \in Threads : pc'[u] = IF u = t THEN "detached" ELSE pc[u]
    BY <1>3, <1>5 DEF DetachHandler, Goto
  <2>2. PICK p \in 1..Len(handlers) :
          /\ handlers[p] = t
          /\ handlers' = [j \in 1..(Len(handlers) - 1) |->
                            IF j < p THEN handlers[j] ELSE handlers[j + 1]]
    BY <1>5 DEF DetachHandler
  <2>3. /\ Len(handlers') = Len(handlers) - 1 /\ Len(handlers) \in Nat
        /\ \A j \in 1..(Len(handlers) - 1) :
              handlers'[j] = IF j < p THEN handlers[j] ELSE handlers[j + 1]
    <3>1. Len(handlers) \in Nat
      BY <1>3
    <3>2. handlers' = [j \in 1..(Len(handlers) - 1) |->
                         IF j < p THEN handlers[j] ELSE handlers[j + 1]]
      BY <2>2
    <3>3. /\ Len(handlers') = Len(handlers) - 1
          /\ \A j \in 1..(Len(handlers) - 1) :
                handlers'[j] = IF j < p THEN handlers[j] ELSE handlers[j + 1]
      <4>1. ASSUME NEW r, r = [j \in 1..(Len(handlers) - 1) |->
                                 IF j < p THEN handlers[j] ELSE handlers[j + 1]]
            PROVE  /\ Len(r) = Len(handlers) - 1
                   /\ \A j \in 1..(Len(handlers) - 1) :
                         r[j] = IF j < p THEN handlers[j] ELSE handlers[j + 1]
        BY <1>3, <4>1, RemoveFacts
      <4> QED BY <3>2, <4>1, Zenon
    <3> QED BY <3>1, <3>3
  <2>4. \A i, j \in 1..Len(handlers') : handlers'[i] = handlers'[j] => i = j
    BY <2>3 DEF HandlersMatch
  <2>5. {handlers'[i] : i \in 1..Len(handlers')} = {handlers[i] : i \in 1..Len(handlers)} \ {t}
    <3>1. ASSUME NEW i \in 1..Len(handlers')
          PROVE  handlers'[i] \in {handlers[j] : j \in 1..Len(handlers)} \ {t}
      BY <2>2, <2>3 DEF HandlersMatch
    <3>2. ASSUME NEW j \in 1..Len(handlers), handlers[j] # t
          PROVE  \E i \in 1..Len(handlers') : handlers'[i] = handlers[j]
      <4>1. CASE j < p
        BY <2>2, <2>3, <4>1
      <4>2. CASE j > p
        <5>1. j - 1 \in 1..Len(handlers') /\ handlers'[j - 1] = handlers[j]
          BY <2>2, <2>3, <4>2
        <5> QED BY <5>1, Zenon
      <4>3. j # p /\ j \in Int /\ p \in Int
        BY <2>2, <3>2
      <4> QED BY <4>1, <4>2, <4>3
    <3> QED BY <3>1, <3>2
  <2>6. {u \in Threads : pc'[u] \in AttachedPhases} = {u \in Threads : pc[u] \in AttachedPhases} \ {t}
    BY <2>1 DEF AttachedPhases
  <2> QED BY <2>4, <2>5, <2>6 DEF HandlersMatch, AttachedPhases
<1> QED
  BY <1>1, <1>2, <1>4, <1>5, OtherStepsKeepAttached DEF Next, Step

(* The root logger holds exactly the handlers of the requests being        *)
(* captured, each once, for any number of overlapping requests.            *)
THEOREM HandlersAlwaysMatch == Spec => []HandlersMatch
<1>1. Init => HandlersMatch
  BY EmptySeq DEF Init, HandlersMatch
<1> QED BY LimiterInit, LimiterStep, <1>1, HandlersStep, PTL DEF Spec

-----------------------------------------------------------------------------
(* The records in a request's diagnostics.  While a record of a thread is  *)
(* handed from handler to handler, the thread's own handler may still be   *)
(* ahead; handlers that leave move the ones behind them towards the        *)
(* cursor, never behind it.                                                *)
Ahead(t) == \E i \in cursor[t]..Len(handlers) : handlers[i] = t

CaptureInv ==
  \A t \in Threads :
    /\ captured[t] <= emitted[t]
    /\ cursor[t] # 0 => pc[t] = "running" /\ (Ahead(t) => captured[t] < emitted[t])

LEMMA QuietCapture ==
  ASSUME LimiterInv, CaptureInv, NEW t \in Threads,
         \/ Unauthorised(t) \/ Admit(t) \/ Busy(t) \/ AcquireLevel(t)
         \/ Completes(t) \/ Fails(t) \/ \E k \in Keywords : CallCustom(t, k)
         \/ EnterBody(t) \/ BodyRaises(t) \/ LeaveBody(t) \/ ReleaseLevel(t) \/ Reply(t)
  PROVE  CaptureInv'
<1>1. UNCHANGED <<cursor, emitted, captured, handlers>> /\ cursor[t] = 0
  BY DEF At, Unauthorised, Admit, Busy, BusyAnd, AcquireLevel, Completes, Fails, FailsInto,
         CallCustom, EnterBody, BodyRaises, LeaveBody, LeaveBodyAnd, ReleaseLevel,
         RestoreLevelWhen, Reply, ReplyAnd, recordVars, logVars
<1>2. \/ pc' = pc
      \/ \E p : Goto(t, p)
  BY DEF Unauthorised, Admit, Busy, BusyAnd, AcquireLevel, Completes, Fails, FailsInto,
         CallCustom, EnterBody, BodyRaises, LeaveBody, LeaveBodyAnd, ReleaseLevel,
         RestoreLevelWhen, Reply, ReplyAnd
<1>3. \A u \in Threads : u # t => pc'[u] = pc[u]
  BY <1>2 DEF Goto, LimiterInv, TypeOK
<1> QED BY <1>1, <1>3 DEF CaptureInv, Ahead

THEOREM CaptureStep == LimiterInv /\ HandlersMatch /\ CaptureInv /\ [Next]_vars => CaptureInv'
<1> SUFFICES ASSUME LimiterInv, HandlersMatch, CaptureInv, [Next]_vars PROVE CaptureInv'
  OBVIOUS
<1>1. /\ handlers \in Seq(Threads) /\ pc \in [Threads -> Phases] /\ Len(handlers) \in Nat
      /\ cursor \in [Threads -> Nat] /\ emitted \in [Threads -> Nat]
      /\ captured \in [Threads -> Nat]
  BY LenProperties DEF LimiterInv, TypeOK
<1>2. CASE UNCHANGED vars
  BY <1>2 DEF vars, recordVars, logVars, CaptureInv, Ahead
<1>3. ASSUME NEW t \in Threads, NEW k \in Keywords, Request(t, k) PROVE CaptureInv'
  <2>1. /\ handlers' = handlers /\ cursor' = cursor /\ cursor[t] = 0
        /\ \A u \in Threads : u # t => pc'[u] = pc[u]
        /\ emitted'[t] = 0 /\ captured'[t] = 0
        /\ \A u \in Threads : u # t => emitted'[u] = emitted[u] /\ captured'[u] = captured[u]
    BY <1>1, <1>3 DEF Request, At, Goto, logVars
  <2> QED BY <2>1 DEF CaptureInv, Ahead
<1>4. ASSUME NEW t \in Threads, Log(t) PROVE CaptureInv'
  <2>1. /\ handlers' = handlers /\ pc' = pc /\ captured' = captured /\ pc[t] = "running"
        /\ emitted'[t] = emitted[t] + 1
        /\ \A u \in Threads : u # t => emitted'[u] = emitted[u] /\ cursor'[u] = cursor[u]
    BY <1>1, <1>4 DEF Log, At, logVars
  <2>2. captured[t] <= emitted[t] /\ captured[t] \in Nat /\ emitted[t] \in Nat
    BY <1>1 DEF CaptureInv
  <2>3. captured'[t] < emitted'[t] /\ captured'[t] <= emitted'[t]
    BY <2>1, <2>2
  <2> QED BY <2>1, <2>3 DEF CaptureInv, Ahead
<1>5. ASSUME NEW t \in Threads, Deliver(t) PROVE CaptureInv'
  <2>1. /\ handlers' = handlers /\ pc' = pc /\ emitted' = emitted
        /\ cursor[t] # 0 /\ pc[t] = "running"
        /\ \A u \in Threads : u # t => captured'[u] = captured[u] /\ cursor'[u] = cursor[u]
    BY <1>1, <1>5 DEF Deliver, logVars, CaptureInv
  <2>2. captured[t] <= emitted[t] /\ captured[t] \in Nat /\ emitted[t] \in Nat
        /\ cursor[t] \in Nat /\ (Ahead(t) => captured[t] < emitted[t])
    BY <1>1, <2>1 DEF CaptureInv
  <2>3. captured'[t] <= emitted'[t] /\ (cursor'[t] # 0 /\ Ahead(t)' => captured'[t] < emitted'[t])
    <3>1. CASE cursor[t] > Len(handlers)
      BY <1>1, <1>5, <2>1, <2>2, <3>1 DEF Deliver
    <3>2. CASE cursor[t] <= Len(handlers) /\ handlers[cursor[t]] = t
      <4>1. captured'[t] = captured[t] + 1 /\ cursor'[t] = cursor[t] + 1
        BY <1>1, <1>5, <3>2 DEF Deliver
      <4>2. Ahead(t) /\ cursor[t] \in 1..Len(handlers)
        BY <1>1, <2>1, <2>2, <3>2 DEF Ahead
      <4>3. ~Ahead(t)'
        <5>1. SUFFICES ASSUME NEW i \in (cursor[t] + 1)..Len(handlers), handlers[i] = t PROVE FALSE
          BY <2>1, <4>1 DEF Ahead
        <5>2. i \in 1..Len(handlers) /\ i # cursor[t]
          BY <1>1, <2>2, <4>2
        <5> QED BY <3>2, <4>2, <5>1, <5>2 DEF HandlersMatch
      <4> QED BY <2>1, <2>2, <4>1, <4>2, <4>3
    <3>3. CASE cursor[t] <= Len(handlers) /\ handlers[cursor[t]] # t
      <4>1. captured'[t] = captured[t] /\ cursor'[t] = cursor[t] + 1
        BY <1>1, <1>5, <3>3 DEF Deliver
      <4>2. ASSUME Ahead(t)' PROVE Ahead(t)
        <5>1. PICK i \in (cursor[t] + 1)..Len(handlers) : handlers[i] = t
          BY <2>1, <4>1, <4>2 DEF Ahead
        <5>2. i \in cursor[t]..Len(handlers)
          BY <1>1, <2>2
        <5> QED BY <5>1, <5>2 DEF Ahead
      <4> QED BY <2>1, <2>2, <4>1, <4>2
    <3> QED BY <1>1, <2>2, <3>1, <3>2, <3>3
  <2> QED BY <2>1, <2>3 DEF CaptureInv, Ahead
<1>6. ASSUME NEW t \in Threads, UNCHANGED recordVars, cursor[t] = 0,
             \A u \in Threads : u # t => pc'[u] = pc[u],
             \A u \in Threads : u # t /\ cursor[u] # 0 /\ Ahead(u)' => Ahead(u)
      PROVE  CaptureInv'
  BY <1>6 DEF CaptureInv, recordVars
<1>7. ASSUME NEW t \in Threads, AttachHandler(t) PROVE CaptureInv'
  <2>1. /\ UNCHANGED recordVars /\ cursor[t] = 0 /\ \A u \in Threads : u # t => pc'[u] = pc[u]
    BY <1>1, <1>7 DEF AttachHandler, AddHandlers, Goto, At
  <2>2. /\ Len(handlers') = Len(handlers) + 1
        /\ \A i \in 1..Len(handlers) : handlers'[i] = handlers[i]
        /\ handlers'[Len(handlers) + 1] = t
    BY <1>1, <1>7, AppendFacts DEF AttachHandler, AddHandlers
  <2>3. ASSUME NEW u \in Threads, u # t, cursor[u] # 0, Ahead(u)' PROVE Ahead(u)
    <3>1. PICK i \in cursor[u]..(Len(handlers) + 1) : handlers'[i] = u
      BY <2>1, <2>2, <2>3 DEF Ahead, recordVars
    <3>2. cursor[u] \in Nat \ {0} /\ i # Len(handlers) + 1
      BY <1>1, <2>2, <2>3, <3>1
    <3>3. i \in 1..Len(handlers) /\ i \in cursor[u]..Len(handlers)
      BY <1>1, <3>1, <3>2
    <3> QED BY <2>2, <3>1, <3>3 DEF Ahead
  <2> QED BY <1>6, <2>1, <2>3
<1>8. ASSUME NEW t \in Threads, DetachHandler(t) PROVE CaptureInv'
  <2>1. /\ UNCHANGED recordVars /\ cursor[t] = 0 /\ \A u \in Threads : u # t => pc'[u] = pc[u]
    BY <1>1, <1>8 DEF DetachHandler, Goto, At
  <2>2. PICK p \in 1..Len(handlers) :
          handlers' = [j \in 1..(Len(handlers) - 1) |->
                         IF j < p THEN handlers[j] ELSE handlers[j + 1]]
    BY <1>8 DEF DetachHandler
  <2>3. /\ Len(handlers') = Len(handlers) - 1
        /\ \A j \in 1..(Len(handlers) - 1) :
             handlers'[j] = IF j < p THEN handlers[j] ELSE handlers[j + 1]
    <3>1. ASSUME NEW r, r = [j \in 1..(Len(handlers) - 1) |->
                               IF j < p THEN handlers[j] ELSE handlers[j + 1]]
          PROVE  /\ Len(r) = Len(handlers) - 1
                 /\ \A j \in 1..(Len(handlers) - 1) :
                      r[j] = IF j < p THEN handlers[j] ELSE handlers[j + 1]
      BY <1>1, <3>1, RemoveFacts
    <3> QED BY <2>2, <3>1, Zenon
  <2>4. ASSUME NEW u \in Threads, cursor[u] # 0, Ahead(u)' PROVE Ahead(u)
    <3>1. PICK i \in cursor[u]..(Len(handlers) - 1) : handlers'[i] = u
      BY <2>1, <2>3, <2>4 DEF Ahead, recordVars
    <3>2. i \in 1..(Len(handlers) - 1) /\ cursor[u] \in Nat
      BY <1>1, <2>4, <3>1
    <3>3. handlers[i] = u \/ handlers[i + 1] = u
      BY <2>3, <3>1, <3>2
    <3>4. i \in cursor[u]..Len(handlers) /\ i + 1 \in cursor[u]..Len(handlers)
      <4>1. PICK m \in Nat, n \in Nat : m = cursor[u] /\ n = Len(handlers)
        BY <1>1, <3>2
      <4>2. i \in m..(n - 1)
        BY <3>1, <4>1
      <4>3. i \in m..n /\ i + 1 \in m..n
        BY <4>2
      <4> QED BY <4>1, <4>3
    <3> QED BY <3>3, <3>4 DEF Ahead
  <2> QED BY <1>6, <2>1, <2>4
<1> QED
  BY <1>2, <1>3, <1>4, <1>5, <1>7, <1>8, QuietCapture DEF Next, Step

(* A record is in its request's diagnostics at most once, although other   *)
(* requests add and remove handlers while it is being delivered.           *)
THEOREM RecordsCapturedOnce == Spec => []CapturedAtMostOnce
<1>1. Init => HandlersMatch /\ CaptureInv
  BY EmptySeq DEF Init, HandlersMatch, CaptureInv
<1>2. CaptureInv => CapturedAtMostOnce
  BY DEF CaptureInv, CapturedAtMostOnce
<1> QED BY LimiterInit, LimiterStep, HandlersStep, CaptureStep, <1>1, <1>2, PTL DEF Spec

=============================================================================
