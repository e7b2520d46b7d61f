------------------------- MODULE DirectoryHooksProofs -------------------------
(***************************************************************************)
(* Proofs about DirectoryHooks, for any number of processes, cases and     *)
(* directories.                                                            *)
(*                                                                         *)
(* The argument: the count of a directory is never below the number of its *)
(* cases the process may still count down, so a directory of a case that   *)
(* runs is not torn down; and the count of an outer directory exceeds that *)
(* of an inner one by the cases in between, plus one when the teardown of  *)
(* the inner one failed, so the outer one does not become zero before the  *)
(* inner one is torn down.                                                 *)
(***************************************************************************)
EXTENDS DirectoryHooks, FiniteSetTheorems, SequenceTheorems, TLAPS

Places == {"idle", "setup", "case", "teardown", "finish", "ended"}

TakenCases == Cases \cup {NoCase}
HookStates == {"none", "due", "runs"}

Procs == [at : Places, case : TakenCases, todo : Seq(Collected), hook : HookStates, cut : BOOLEAN]
Scopes == [setup : SUBSET Collected, teardown : SUBSET Collected, count : [Collected -> Nat]]

TypesInv ==
  /\ left \subseteq Cases
  /\ proc \in [Processes -> Procs] /\ scope \in [Processes -> Scopes]
  /\ ran \in [Processes -> [Kinds -> SUBSET Directories]]
  /\ times \in [Processes -> [Kinds -> [Directories -> Nat]]]

(* o is above i in the tree of directories.                                *)
Above(o, i) ==
  \E c \in Cases : \E a, b \in DOMAIN ChainOf[c] :
    a < b /\ ChainOf[c][a] = o /\ ChainOf[c][b] = i

Bit(b) == IF b THEN 1 ELSE 0

(* Cases that no process has taken, in d, and in o but not in i.           *)
Waiting(d) == Cardinality(CasesIn(d) \cap left)
Outside(o, i) == Cardinality((CasesIn(o) \ CasesIn(i)) \cap left)

(* The directories for which the case of p has not been counted down yet,  *)
(* and the one whose teardown p has come to.                               *)
Uncounted(p) ==
  IF proc[p].at \in {"setup", "case"} THEN ToSet(ChainOf[proc[p].case])
  ELSE IF proc[p].at # "teardown" THEN {}
  ELSE IF proc[p].hook = "none" THEN ToSet(proc[p].todo) ELSE ToSet(Tail(proc[p].todo))
InHand(p) ==
  IF proc[p].at = "teardown" /\ proc[p].hook # "none" THEN {Head(proc[p].todo)} ELSE {}

(* Where a process may be, and what its loop has done and still has to do. *)
PlaceOK(s, sc) ==
  /\ s.at \in {"setup", "case"} => s.case \in Cases
  /\ s.at = "setup" =>
       /\ ToSet(s.todo) \subseteq ToSet(ChainOf[s.case])
       /\ ToSet(ChainOf[s.case]) \subseteq sc.setup \cup ToSet(s.todo)
  /\ s.at = "case" => ToSet(ChainOf[s.case]) \subseteq sc.setup
  /\ s.at = "teardown" =>
       \A i, j \in 1 .. Len(s.todo) : i < j => Depth(s.todo[i]) > Depth(s.todo[j])
  /\ s.at = "finish" =>
       /\ Collected \subseteq sc.teardown \cup ToSet(s.todo)
       /\ \A i, j \in 1 .. Len(s.todo) : i < j => Depth(s.todo[i]) >= Depth(s.todo[j])
  /\ s.at = "ended" /\ ~s.cut => Collected \subseteq sc.teardown

PlaceInv(p) == PlaceOK(proc[p], scope[p])

(* A hook that is due or runs is that of the first directory to come.      *)
HookOK(s, sc, done) ==
  LET kind == IF s.at = "setup" THEN "setup" ELSE "teardown" IN
  /\ s.hook # "none" => s.todo # <<>> /\ s.at \in {"setup", "teardown", "finish"}
  /\ s.hook = "due" => s.at = "teardown"
  /\ s.hook = "runs" => Head(s.todo) \in FileIn(kind) \ done[kind]
  /\ s.at = "teardown" /\ s.hook # "none" =>
       sc.count[Head(s.todo)] = 0 /\ Head(s.todo) \notin sc.teardown

HookInv(p) == HookOK(proc[p], scope[p], ran[p])

RanInv(p) ==
  /\ \A k \in Kinds, d \in Directories : times[p][k][d] = Bit(d \in ran[p][k])
  /\ scope[p].setup \cap SetupIn \subseteq ran[p]["setup"]

(* What the count of i stands for: its cases, or its teardown.             *)
Owed(p, i) ==
  IF scope[p].count[i] > 0 THEN scope[p].count[i]
  ELSE Bit(i \in (scope[p].setup \cup InHand(p)) \ scope[p].teardown)

CountsCases(p) ==
  \A d \in Collected : scope[p].count[d] >= Waiting(d) + Bit(d \in Uncounted(p))

CountsInner(p) ==
  \A o, i \in Collected : Above(o, i) =>
    scope[p].count[o] >= Owed(p, i) + Outside(o, i)
      + Bit(o \in Uncounted(p) /\ i \notin Uncounted(p) \cup InHand(p))

(* Until the end only what is counted down is torn down.                   *)
TornDownInv(p) ==
  \A d \in Collected : d \in scope[p].teardown \cup ran[p]["teardown"] =>
    scope[p].count[d] = 0 \/ proc[p].at \in {"finish", "ended"}

OrderInv(p) ==
  \A o, i \in Collected : Above(o, i) /\ o \in scope[p].teardown /\ i \in scope[p].setup
    => i \in scope[p].teardown

ProcessInv(p) ==
  /\ PlaceInv(p) /\ HookInv(p) /\ RanInv(p)
  /\ CountsCases(p) /\ CountsInner(p) /\ TornDownInv(p) /\ OrderInv(p)

HooksInv == TypesInv /\ \A p \in Processes : ProcessInv(p)

-----------------------------------------------------------------------------
(* Sequences.                                                              *)

LEMMA ToSetFacts ==
  ASSUME NEW S, NEW s \in Seq(S)
  PROVE  /\ ToSet(s) \subseteq S
         /\ \A e : e \in ToSet(s) <=> \E i \in 1 .. Len(s) : s[i] = e
<1>1. DOMAIN s = 1 .. Len(s) /\ \A i \in 1 .. Len(s) : s[i] \in S
  BY LenProperties, ElementOfSeq
<1> QED
  BY <1>1 DEF ToSet

LEMMA TailFacts ==
  ASSUME NEW S, NEW s \in Seq(S), s # <<>>
  PROVE  /\ Head(s) \in S /\ Head(s) = s[1] /\ Len(s) \in Nat \ {0}
         /\ Tail(s) \in Seq(S) /\ Len(Tail(s)) = Len(s) - 1
         /\ \A i \in 1 .. Len(s) - 1 : Tail(s)[i] = s[i + 1]
         /\ ToSet(s) = {Head(s)} \cup ToSet(Tail(s))
<1>1. /\ Tail(s) \in Seq(S) /\ Len(s) \in Nat \ {0}
      /\ Len(Tail(s)) = Len(s) - 1
      /\ \A i \in 1 .. Len(Tail(s)) : Tail(s)[i] = s[i + 1]
      /\ Head(s) = s[1] /\ Head(s) \in S
  BY HeadTailProperties, EmptySeq, LenProperties
<1>2. PICK n \in Nat \ {0} : n = Len(s)
  BY <1>1
<1>3. PICK t \in Seq(S) : t = Tail(s)
  BY <1>1
<1>4. ASSUME NEW x PROVE x \in ToSet(s) <=> x \in {Head(s)} \cup ToSet(Tail(s))
  <2>1. x \in ToSet(t) <=> \E i \in 1 .. Len(t) : t[i] = x
    BY ToSetFacts, Zenon
  <2>2. x \in ToSet(s) <=> \E i \in 1 .. n : s[i] = x
    BY <1>2, ToSetFacts
  <2>3. x \in ToSet(Tail(s)) <=> \E i \in 1 .. n - 1 : s[i + 1] = x
    BY <1>1, <1>2, <1>3, <2>1
  <2>4. ASSUME NEW i \in 1 .. n, s[i] = x, i # 1
        PROVE  \E j \in 1 .. n - 1 : s[j + 1] = x
    <3>1. i - 1 \in 1 .. n - 1 /\ (i - 1) + 1 = i
      BY <2>4
    <3> QED
      BY <3>1, <2>4
  <2>5. ASSUME NEW j \in 1 .. n - 1 PROVE j + 1 \in 1 .. n
    BY <2>5
  <2>6. 1 \in 1 .. n
    OBVIOUS
  <2> QED
    BY <1>1, <2>2, <2>3, <2>4, <2>5, <2>6
<1> QED
  BY <1>1, <1>2, <1>4

LEMMA ReverseFacts ==
  ASSUME NEW S, NEW s \in Seq(S)
  PROVE  /\ Reverse(s) \in Seq(S) /\ Len(Reverse(s)) = Len(s)
         /\ \A i \in 1 .. Len(s) : Reverse(s)[i] = s[(Len(s) - i) + 1]
         /\ ToSet(Reverse(s)) = ToSet(s)
<1>1. PICK n \in Nat : n = Len(s)
  BY LenProperties
<1>2. PICK r : r = Reverse(s)
  OBVIOUS
<1>3. /\ DOMAIN r = 1 .. n
      /\ \A i \in 1 .. n : r[i] = s[(n - i) + 1]
  BY <1>1, <1>2 DEF Reverse
<1>4. \A i \in 1 .. n : s[i] \in S
  BY <1>1, ElementOfSeq
<1>5. \A i \in 1 .. n : (n - i) + 1 \in 1 .. n /\ (n - ((n - i) + 1)) + 1 = i
  OBVIOUS
<1>6. \A i \in 1 .. n : r[i] \in S
  BY <1>3, <1>4, <1>5
<1>7. r \in [1 .. n -> S]
  BY <1>1, <1>2, <1>3, <1>6 DEF Reverse
<1>8. r \in Seq(S)
  BY <1>7, SeqDef
<1>9. Len(r) = n
  BY <1>3, <1>8, LenProperties
<1>10. ASSUME NEW x PROVE x \in ToSet(r) <=> x \in ToSet(s)
  <2>1. x \in ToSet(s) <=> \E i \in 1 .. n : s[i] = x
    BY <1>1, ToSetFacts
  <2>2. x \in ToSet(r) <=> \E i \in 1 .. n : r[i] = x
    BY <1>3 DEF ToSet
  <2> QED
    BY <2>1, <2>2, <1>3, <1>5
<1> QED
  BY <1>1, <1>2, <1>3, <1>8, <1>9, <1>10

-----------------------------------------------------------------------------
(* Directories.                                                            *)

LEMMA ChainFacts ==
  ASSUME NEW c \in Cases
  PROVE  /\ ChainOf[c] \in Seq(Collected) /\ ToSet(ChainOf[c]) \subseteq Collected
         /\ \A d : d \in ToSet(ChainOf[c]) <=> c \in CasesIn(d)
<1>1. ChainOf[c] \in Seq(Directories)
  BY HooksAssumption
<1>2. \A d : d \in ToSet(ChainOf[c]) <=> c \in CasesIn(d)
  BY DEF CasesIn
<1>3. ToSet(ChainOf[c]) \subseteq Collected
  BY <1>1, <1>2, ToSetFacts DEF Collected
<1>4. ChainOf[c] \in Seq(Collected)
  <2>1. PICK s \in Seq(Directories) : s = ChainOf[c]
    BY <1>1
  <2>2. PICK n \in Nat : n = Len(s) /\ s \in [1 .. n -> Directories]
    BY LenProperties
  <2>3. \A i \in 1 .. n : s[i] \in ToSet(s)
    BY <2>2, ToSetFacts
  <2>4. s \in [1 .. n -> Collected]
    BY <2>1, <2>2, <2>3, <1>3
  <2> QED
    BY <2>1, <2>4, SeqDef
<1> QED
  BY <1>2, <1>3, <1>4

(* Two chains that meet in a directory are the same down to it.            *)
LEMMA ChainsMeet ==
  ASSUME NEW c \in Cases, NEW e \in Cases,
         NEW i \in 1 .. Len(ChainOf[c]), NEW j \in 1 .. Len(ChainOf[e]),
         ChainOf[c][i] = ChainOf[e][j]
  PROVE  i = j /\ \A a \in 1 .. i : ChainOf[c][a] = ChainOf[e][a]
<1>1. PICK s \in Seq(Directories) : s = ChainOf[c]
  BY HooksAssumption
<1>2. PICK t \in Seq(Directories) : t = ChainOf[e]
  BY HooksAssumption
<1>3. i \in DOMAIN s /\ j \in DOMAIN t
  BY <1>1, <1>2, LenProperties
<1>4. SubSeq(s, 1, i) = SubSeq(t, 1, j)
  BY <1>1, <1>2, <1>3, HooksAssumption
<1>5. PICK m \in Nat : m = Len(s) /\ i \in 1 .. m
  BY <1>1, LenProperties
<1>6. PICK n \in Nat : n = Len(t) /\ j \in 1 .. n
  BY <1>2, LenProperties
<1>7. Len(SubSeq(s, 1, i)) = i /\ \A a \in 1 .. i : SubSeq(s, 1, i)[a] = s[a]
  BY <1>5
<1>8. Len(SubSeq(t, 1, j)) = j /\ \A a \in 1 .. j : SubSeq(t, 1, j)[a] = t[a]
  BY <1>6
<1> QED
  BY <1>1, <1>2, <1>4, <1>7, <1>8

LEMMA DepthOnChain ==
  ASSUME NEW c \in Cases, NEW i \in 1 .. Len(ChainOf[c])
  PROVE  Depth(ChainOf[c][i]) = i
<1> DEFINE d == ChainOf[c][i]
           e == CHOOSE x \in CasesIn(d) : TRUE
           j == CHOOSE x \in DOMAIN ChainOf[e] : ChainOf[e][x] = d
<1>1. DOMAIN ChainOf[c] = 1 .. Len(ChainOf[c])
  BY HooksAssumption, LenProperties
<1>2. c \in CasesIn(d)
  BY <1>1 DEF CasesIn, ToSet
<1>3. e \in CasesIn(d)
  BY <1>2
<1>4. e \in Cases /\ d \in ToSet(ChainOf[e])
  BY <1>3 DEF CasesIn
<1>5. DOMAIN ChainOf[e] = 1 .. Len(ChainOf[e])
  BY <1>4, HooksAssumption, LenProperties
<1>6. \E x \in DOMAIN ChainOf[e] : ChainOf[e][x] = d
  BY <1>4 DEF ToSet
<1>7. j \in DOMAIN ChainOf[e] /\ ChainOf[e][j] = d
  BY <1>6
<1>8. Depth(d) = j
  BY DEF Depth
<1> HIDE DEF e, j
<1>9. j = i
  BY <1>4, <1>5, <1>7, ChainsMeet
<1> QED
  BY <1>8, <1>9

LEMMA DepthFacts ==
  ASSUME NEW d \in Collected
  PROVE  Depth(d) \in Nat
<1>1. PICK c \in Cases : d \in ToSet(ChainOf[c])
  BY DEF Collected, CasesIn
<1>2. PICK i \in 1 .. Len(ChainOf[c]) : ChainOf[c][i] = d
  BY <1>1, HooksAssumption, ToSetFacts
<1>3. Depth(d) = i
  BY <1>2, DepthOnChain
<1> QED
  BY <1>3

LEMMA AboveFacts ==
  ASSUME NEW o, NEW i, Above(o, i)
  PROVE  /\ Depth(o) \in Nat /\ Depth(i) \in Nat /\ Depth(o) < Depth(i)
         /\ CasesIn(i) \subseteq CasesIn(o)
<1>1. PICK c \in Cases : \E a, b \in DOMAIN ChainOf[c] :
        a < b /\ ChainOf[c][a] = o /\ ChainOf[c][b] = i
  BY DEF Above
<1>2. DOMAIN ChainOf[c] = 1 .. Len(ChainOf[c]) /\ Len(ChainOf[c]) \in Nat
  BY HooksAssumption, LenProperties
<1>3. PICK a \in 1 .. Len(ChainOf[c]), b \in 1 .. Len(ChainOf[c]) :
        a < b /\ ChainOf[c][a] = o /\ ChainOf[c][b] = i
  BY <1>1, <1>2
<1>4. Depth(o) = a /\ Depth(i) = b
  BY <1>3, DepthOnChain
<1>5. ASSUME NEW e \in CasesIn(i) PROVE e \in CasesIn(o)
  <2>1. e \in Cases /\ i \in ToSet(ChainOf[e])
    BY <1>5 DEF CasesIn
  <2>2. PICK k \in 1 .. Len(ChainOf[e]) : ChainOf[e][k] = i
    BY <2>1, HooksAssumption, ToSetFacts
  <2>3. b = k /\ \A x \in 1 .. b : ChainOf[c][x] = ChainOf[e][x]
    BY <2>1, <2>2, <1>3, ChainsMeet
  <2>4. a \in 1 .. b /\ a \in 1 .. Len(ChainOf[e])
    <3>1. PICK n \in Nat : n = Len(ChainOf[e])
      BY <2>1, HooksAssumption, LenProperties
    <3>2. PICK m \in Nat : m = Len(ChainOf[c])
      BY <1>2
    <3> QED
      BY <3>1, <3>2, <2>2, <2>3, <1>3
  <2>5. ChainOf[e][a] = o
    BY <2>3, <2>4, <1>3
  <2>6. o \in ToSet(ChainOf[e])
    BY <2>1, <2>4, <2>5, HooksAssumption, ToSetFacts
  <2> QED
    BY <2>1, <2>6 DEF CasesIn
<1> QED
  BY <1>2, <1>3, <1>4, <1>5

-----------------------------------------------------------------------------
(* Counting the cases that wait.                                           *)

LEMMA WaitingFacts ==
  ASSUME left \subseteq Cases
  PROVE  \A d, i : Waiting(d) \in Nat /\ Outside(d, i) \in Nat
<1> TAKE d, i
<1>1. IsFiniteSet(CasesIn(d) \cap left) /\ IsFiniteSet((CasesIn(d) \ CasesIn(i)) \cap left)
  BY HooksAssumption, FS_Subset
<1> QED
  BY <1>1, FS_CardinalityType DEF Waiting, Outside

LEMMA OneCaseTaken ==
  ASSUME left \subseteq Cases, NEW c \in left, left' = left \ {c}
  PROVE  \A d, i :
           /\ Waiting(d)' = Waiting(d) - Bit(c \in CasesIn(d))
           /\ Outside(d, i)' = Outside(d, i) - Bit(c \in CasesIn(d) \ CasesIn(i))
<1> TAKE d, i
<1>1. ASSUME NEW S, S \subseteq Cases
      PROVE  Cardinality(S \cap left') = Cardinality(S \cap left) - Bit(c \in S)
  <2>1. IsFiniteSet(S \cap left)
    BY HooksAssumption, FS_Subset
  <2>2. S \cap left' = (S \cap left) \ {c}
    OBVIOUS
  <2>3. Cardinality((S \cap left) \ {c}) =
          IF c \in S \cap left THEN Cardinality(S \cap left) - 1 ELSE Cardinality(S \cap left)
    BY <2>1, FS_RemoveElement
  <2>4. Cardinality(S \cap left) \in Nat
    BY <2>1, FS_CardinalityType
  <2>5. Cardinality(S \cap left') = Cardinality((S \cap left) \ {c})
    BY <2>2
  <2>6. CASE c \in S
    BY <2>3, <2>4, <2>5, <2>6 DEF Bit
  <2>7. CASE c \notin S
    BY <2>3, <2>4, <2>5, <2>7 DEF Bit
  <2> QED
    BY <2>6, <2>7
<1>2. CasesIn(d) \subseteq Cases /\ CasesIn(d) \ CasesIn(i) \subseteq Cases
  BY DEF CasesIn
<1>3. Waiting(d)' = Cardinality(CasesIn(d) \cap left')
  BY DEF Waiting, CasesIn
<1>4. Outside(d, i)' = Cardinality((CasesIn(d) \ CasesIn(i)) \cap left')
  BY DEF Outside, CasesIn
<1> QED
  BY <1>1, <1>2, <1>3, <1>4 DEF Waiting, Outside

-----------------------------------------------------------------------------
(* What a step leaves as it was.                                           *)

Moved(s, a, c, d, h, x) ==
  [s EXCEPT !.at = a, !.case = c, !.todo = d, !.hook = h, !.cut = x]

LEMMA ProcUpdate ==
  ASSUME NEW s \in Procs, NEW a \in Places, NEW c \in TakenCases,
         NEW d \in Seq(Collected), NEW h \in HookStates, NEW x \in BOOLEAN
  PROVE  /\ Moved(s, a, c, d, h, x) \in Procs
         /\ Moved(s, a, c, d, h, x).at = a /\ Moved(s, a, c, d, h, x).case = c
         /\ Moved(s, a, c, d, h, x).todo = d /\ Moved(s, a, c, d, h, x).hook = h
         /\ Moved(s, a, c, d, h, x).cut = x
  BY DEF Procs, Moved

LEMMA StateNames ==
  /\ "idle" \in Places /\ "setup" \in Places /\ "case" \in Places
  /\ "teardown" \in Places /\ "finish" \in Places /\ "ended" \in Places
  /\ "none" \in HookStates /\ "due" \in HookStates /\ "runs" \in HookStates
  /\ NoCase \in TakenCases /\ \A c \in Cases : c \in TakenCases
  BY DEF Places, HookStates, TakenCases

LEMMA ProcFields ==
  ASSUME NEW s \in Procs
  PROVE  /\ s.at \in Places /\ s.case \in TakenCases /\ s.todo \in Seq(Collected)
         /\ s.hook \in HookStates /\ s.cut \in BOOLEAN
  BY DEF Procs

LEMMA UncountedFacts ==
  ASSUME TypesInv, NEW p \in Processes, PlaceInv(p), HookInv(p)
  PROVE  /\ Uncounted(p) \subseteq Collected /\ InHand(p) \subseteq Collected
         /\ InHand(p) \cap Uncounted(p) = {}
         /\ proc[p].at = "teardown" => ToSet(proc[p].todo) = InHand(p) \cup Uncounted(p)
<1>1. PICK s \in Procs : s = proc[p]
  BY DEF TypesInv
<1>2. s.todo \in Seq(Collected) /\ s.hook \in {"none", "due", "runs"}
  BY DEF Procs, HookStates
<1>3. s.at \in {"setup", "case"} => ToSet(ChainOf[s.case]) \subseteq Collected
  BY <1>1, ChainFacts DEF PlaceInv, PlaceOK
<1>4. CASE s.at # "teardown"
  BY <1>1, <1>3, <1>4 DEF Uncounted, InHand
<1>5. CASE s.at = "teardown" /\ s.hook = "none"
  <2>1. ToSet(s.todo) \subseteq Collected
    BY <1>2, ToSetFacts
  <2> QED
    BY <1>1, <1>5, <2>1 DEF Uncounted, InHand
<1>6. CASE s.at = "teardown" /\ s.hook # "none"
  <2>1. s.todo # <<>>
    BY <1>1, <1>6 DEF HookInv, HookOK
  <2>2. PICK h : h = Head(s.todo)
    OBVIOUS
  <2>3. PICK r \in Seq(Collected) : r = Tail(s.todo)
    BY <2>1, <1>2, TailFacts
  <2>4. /\ h \in Collected /\ ToSet(s.todo) = {h} \cup ToSet(r) /\ h = s.todo[1]
        /\ Len(s.todo) \in Nat \ {0} /\ Len(r) = Len(s.todo) - 1
        /\ \A i \in 1 .. Len(s.todo) - 1 : r[i] = s.todo[i + 1]
    BY <2>1, <2>2, <2>3, <1>2, TailFacts
  <2>5. h \notin ToSet(r)
    <3> SUFFICES ASSUME h \in ToSet(r) PROVE FALSE
      OBVIOUS
    <3>1. PICK n \in Nat \ {0} : n = Len(s.todo)
      BY <2>4
    <3>2. PICK i \in 1 .. Len(r) : r[i] = h
      BY ToSetFacts
    <3>3. i + 1 \in 1 .. n /\ s.todo[i + 1] = h /\ 1 \in 1 .. n /\ 1 < i + 1
      BY <3>1, <3>2, <2>4
    <3>4. Depth(s.todo[1]) > Depth(s.todo[i + 1])
      BY <3>1, <3>3, <1>1, <1>6 DEF PlaceInv, PlaceOK
    <3>5. Depth(h) \in Nat
      BY <2>4, DepthFacts
    <3> QED
      BY <3>3, <3>4, <3>5, <2>4
  <2>6. ToSet(r) \subseteq Collected
    BY ToSetFacts
  <2>7. Uncounted(p) = ToSet(r) /\ InHand(p) = {h}
    BY <1>1, <1>6, <2>2, <2>3 DEF Uncounted, InHand
  <2> QED
    BY <2>4, <2>5, <2>6, <2>7, <1>1
<1> QED
  BY <1>4, <1>5, <1>6

LEMMA BitFacts == \A b : Bit(b) \in {0, 1}
  BY DEF Bit

LEMMA CountFacts ==
  ASSUME TypesInv, NEW p \in Processes, NEW d \in Collected
  PROVE  scope[p].count[d] \in Nat /\ Owed(p, d) \in Nat
<1>1. scope[p].count[d] \in Nat
  BY DEF TypesInv, Scopes
<1> QED
  BY <1>1, BitFacts DEF Owed

(* Another process moved, and perhaps took a case.                         *)
LEMMA OthersKeep ==
  ASSUME HooksInv, NEW p \in Processes,
         proc'[p] = proc[p], scope'[p] = scope[p], ran'[p] = ran[p], times'[p] = times[p],
         left' = left \/ \E c \in left : left' = left \ {c}
  PROVE  ProcessInv(p)'
<1>1. TypesInv /\ ProcessInv(p)
  BY DEF HooksInv
<1>2. PlaceInv(p)'
  BY <1>1 DEF ProcessInv, PlaceInv
<1>3. HookInv(p)' /\ RanInv(p)' /\ TornDownInv(p)' /\ OrderInv(p)'
  <2>2. HookInv(p)'
    BY <1>1 DEF ProcessInv, HookInv
  <2>3. RanInv(p)'
    BY <1>1 DEF ProcessInv, RanInv
  <2>4. TornDownInv(p)'
    BY <1>1 DEF ProcessInv, TornDownInv, Collected, CasesIn
  <2>5. OrderInv(p)'
    BY <1>1 DEF ProcessInv, OrderInv, Collected, CasesIn, Above
  <2> QED
    BY <2>2, <2>3, <2>4, <2>5
<1>4. Uncounted(p)' = Uncounted(p) /\ InHand(p)' = InHand(p)
  BY DEF Uncounted, InHand
<1>5. ASSUME NEW d, NEW i
      PROVE  /\ Waiting(d) \in Nat /\ Waiting(d)' \in Int /\ Waiting(d)' <= Waiting(d)
             /\ Outside(d, i) \in Nat /\ Outside(d, i)' \in Int
             /\ Outside(d, i)' <= Outside(d, i)
  <2>1. Waiting(d) \in Nat /\ Outside(d, i) \in Nat
    BY <1>1, WaitingFacts DEF TypesInv
  <2>2. CASE left' = left
    <3>1. Waiting(d)' = Waiting(d) /\ Outside(d, i)' = Outside(d, i)
      BY <2>2 DEF Waiting, Outside, CasesIn
    <3> QED
      BY <2>1, <3>1
  <2>3. CASE \E c \in left : left' = left \ {c}
    <3>1. PICK c \in left : left' = left \ {c}
      BY <2>3
    <3>2. /\ Waiting(d)' = Waiting(d) - Bit(c \in CasesIn(d))
          /\ Outside(d, i)' = Outside(d, i) - Bit(c \in CasesIn(d) \ CasesIn(i))
      BY <1>1, <3>1, OneCaseTaken DEF TypesInv
    <3>3. Bit(c \in CasesIn(d)) \in {0, 1} /\ Bit(c \in CasesIn(d) \ CasesIn(i)) \in {0, 1}
      BY DEF Bit
    <3> QED
      BY <2>1, <3>2, <3>3
  <2> QED
    BY <2>2, <2>3
<1>6. CountsCases(p)'
  <2> SUFFICES ASSUME NEW d \in Collected
               PROVE  scope[p].count[d] >= Waiting(d)' + Bit(d \in Uncounted(p))
    BY <1>4 DEF CountsCases, Collected, CasesIn, Bit
  <2>1. scope[p].count[d] >= Waiting(d) + Bit(d \in Uncounted(p))
    BY <1>1 DEF ProcessInv, CountsCases
  <2>2. scope[p].count[d] \in Nat /\ Bit(d \in Uncounted(p)) \in Nat
    BY <1>1, CountFacts, BitFacts
  <2> QED
    BY <2>1, <2>2, <1>5
<1>7. CountsInner(p)'
  <2> SUFFICES ASSUME NEW o \in Collected, NEW i \in Collected, Above(o, i)
               PROVE  scope[p].count[o] >= Owed(p, i) + Outside(o, i)'
                        + Bit(o \in Uncounted(p) /\ i \notin Uncounted(p) \cup InHand(p))
    BY <1>4 DEF CountsInner, Collected, CasesIn, Above, Bit, Owed
  <2>1. scope[p].count[o] >= Owed(p, i) + Outside(o, i)
          + Bit(o \in Uncounted(p) /\ i \notin Uncounted(p) \cup InHand(p))
    BY <1>1 DEF ProcessInv, CountsInner
  <2>2. /\ scope[p].count[o] \in Nat /\ Owed(p, i) \in Nat
        /\ Bit(o \in Uncounted(p) /\ i \notin Uncounted(p) \cup InHand(p)) \in Nat
    BY <1>1, CountFacts, BitFacts
  <2> QED
    BY <2>1, <2>2, <1>5
<1> QED
  BY <1>2, <1>3, <1>6, <1>7 DEF ProcessInv

(* The invariant of all processes from that of the one that moved.         *)
LEMMA ProcessMoves ==
  ASSUME HooksInv, NEW p \in Processes, TypesInv', ProcessInv(p)',
         \A q \in Processes \ {p} : /\ proc'[q] = proc[q] /\ scope'[q] = scope[q]
                                   /\ ran'[q] = ran[q] /\ times'[q] = times[q],
         left' = left \/ \E c \in left : left' = left \ {c}
  PROVE  HooksInv'
<1>1. ASSUME NEW q \in Processes PROVE ProcessInv(q)'
  BY OthersKeep
<1> QED
  BY <1>1 DEF HooksInv

(* Counts are right when none is changed and no case is left to count that *)
(* was not before; and when the teardown in hand is done.                  *)
LEMMA CountsKept ==
  ASSUME HooksInv, NEW p \in Processes, TypesInv', left' = left,
         scope'[p].count = scope[p].count,
         scope[p].teardown \subseteq scope'[p].teardown,
         scope'[p].setup \subseteq scope[p].setup \cup Uncounted(p),
         \/ Uncounted(p)' = Uncounted(p) /\ InHand(p)' = InHand(p)
         \/ Uncounted(p)' = Uncounted(p) /\ InHand(p)' = {} /\ InHand(p) \subseteq scope'[p].teardown
         \/ Uncounted(p)' = {} /\ InHand(p)' = {}
  PROVE  CountsCases(p)' /\ CountsInner(p)'
<1>1. TypesInv /\ ProcessInv(p)
  BY DEF HooksInv
<1>2. \A d, i : /\ Waiting(d)' = Waiting(d) /\ Outside(d, i)' = Outside(d, i)
                /\ Waiting(d) \in Nat /\ Outside(d, i) \in Nat
  <2>1. \A d, i : Waiting(d) \in Nat /\ Outside(d, i) \in Nat
    BY <1>1, WaitingFacts DEF TypesInv
  <2>2. \A d, i : Waiting(d)' = Waiting(d) /\ Outside(d, i)' = Outside(d, i)
    BY DEF Waiting, Outside, CasesIn
  <2> QED
    BY <2>1, <2>2
<1>3. CountsCases(p)'
  <2> SUFFICES ASSUME NEW d \in Collected
               PROVE  scope[p].count[d] >= Waiting(d) + Bit(d \in Uncounted(p)')
    BY <1>2 DEF CountsCases, Collected, CasesIn, Bit
  <2>1. scope[p].count[d] >= Waiting(d) + Bit(d \in Uncounted(p))
    BY <1>1 DEF ProcessInv, CountsCases
  <2>2. scope[p].count[d] \in Nat /\ Waiting(d) \in Nat
    BY <1>1, <1>2, CountFacts
  <2>3. Uncounted(p)' \subseteq Uncounted(p)
    OBVIOUS
  <2> QED
    BY <2>1, <2>2, <2>3 DEF Bit
<1>4. CountsInner(p)'
  <2> SUFFICES ASSUME NEW o \in Collected, NEW i \in Collected, Above(o, i)
               PROVE  scope[p].count[o] >= Owed(p, i)' + Outside(o, i)
                        + Bit(o \in Uncounted(p)' /\ i \notin Uncounted(p)' \cup InHand(p)')
    BY <1>2 DEF CountsInner, Collected, CasesIn, Above, Bit
  <2>1. scope[p].count[o] >= Owed(p, i) + Outside(o, i)
          + Bit(o \in Uncounted(p) /\ i \notin Uncounted(p) \cup InHand(p))
    BY <1>1 DEF ProcessInv, CountsInner
  <2>2. /\ scope[p].count[o] \in Nat /\ scope[p].count[i] \in Nat /\ Outside(o, i) \in Nat
        /\ Owed(p, i) \in Nat
    BY <1>1, <1>2, CountFacts
  <2>3. Owed(p, i)' = IF scope[p].count[i] > 0 THEN scope[p].count[i]
                      ELSE Bit(i \in (scope'[p].setup \cup InHand(p)') \ scope'[p].teardown)
    BY DEF Owed
  (* What joins the set-up directories still has its case to count.        *)
  <2>4. i \in scope'[p].setup \ scope[p].setup => scope[p].count[i] > 0
    <3>1. scope[p].count[i] >= Waiting(i) + Bit(i \in Uncounted(p)) /\ Waiting(i) \in Nat
      BY <1>1, <1>2 DEF ProcessInv, CountsCases
    <3> QED
      BY <3>1, <2>2 DEF Bit
  <2>5. CASE InHand(p)' = InHand(p) \/ (InHand(p)' = {} /\ i \notin InHand(p)) \/ Uncounted(p)' = {}
    <3>1. Owed(p, i)' <= Owed(p, i) /\ Owed(p, i)' \in Nat
      <4>1. CASE scope[p].count[i] > 0
        BY <4>1, <2>2, <2>3 DEF Owed
      <4>2. CASE ~(scope[p].count[i] > 0)
        <5>1. i \in scope'[p].setup \cup InHand(p)' => i \in scope[p].setup \cup InHand(p)
          BY <2>4, <4>2
        <5>2. i \in (scope'[p].setup \cup InHand(p)') \ scope'[p].teardown =>
                i \in (scope[p].setup \cup InHand(p)) \ scope[p].teardown
          BY <5>1
        <5> QED
          BY <4>2, <5>2, <2>2, <2>3 DEF Owed, Bit
      <4> QED
        BY <4>1, <4>2
    <3>2. (o \in Uncounted(p)' /\ i \notin Uncounted(p)' \cup InHand(p)') =>
            (o \in Uncounted(p) /\ i \notin Uncounted(p) \cup InHand(p))
      BY <2>5
    <3>3. Bit(o \in Uncounted(p)' /\ i \notin Uncounted(p)' \cup InHand(p)')
            <= Bit(o \in Uncounted(p) /\ i \notin Uncounted(p) \cup InHand(p))
      BY <3>2 DEF Bit
    <3> QED
      BY <3>1, <3>3, <2>1, <2>2, BitFacts
  <2>6. CASE i \in InHand(p) /\ i \in scope'[p].teardown /\ InHand(p)' = {}
    <3>1. scope[p].count[i] = 0 /\ i \notin scope[p].teardown
      BY <2>6, <1>1 DEF ProcessInv, HookInv, HookOK, InHand
    <3>2. Owed(p, i) = 1 /\ Owed(p, i)' = 0
      BY <3>1, <2>3, <2>6 DEF Owed, Bit
    <3> QED
      BY <3>2, <2>1, <2>2, BitFacts
  <2>7. \/ InHand(p)' = InHand(p) \/ (InHand(p)' = {} /\ i \notin InHand(p)) \/ Uncounted(p)' = {}
        \/ i \in InHand(p) /\ i \in scope'[p].teardown /\ InHand(p)' = {}
    <3>1. CASE Uncounted(p)' = Uncounted(p) /\ InHand(p)' = InHand(p)
      BY <3>1
    <3>2. CASE Uncounted(p)' = Uncounted(p) /\ InHand(p)' = {} /\ InHand(p) \subseteq scope'[p].teardown
      <4>1. i \in InHand(p) => i \in scope'[p].teardown
        BY <3>2, Zenon
      <4> QED
        BY <3>2, <4>1, Zenon
    <3>3. CASE Uncounted(p)' = {} /\ InHand(p)' = {}
      BY <3>3, Zenon
    <3> QED
      BY <3>1, <3>2, <3>3, Zenon
  <2> QED
    BY <2>5, <2>6, <2>7
<1> QED
  BY <1>3, <1>4

(* A step of p that leaves its counts and sets as they were.               *)
LEMMA CountlessStep ==
  ASSUME HooksInv, NEW p \in Processes, NEW t \in Procs,
         proc' = [proc EXCEPT ![p] = t], UNCHANGED <<left, scope>>,
         TypesInv', RanInv(p)', TornDownInv(p)', PlaceInv(p)', HookInv(p)',
         \A q \in Processes \ {p} : ran'[q] = ran[q] /\ times'[q] = times[q],
         \/ Uncounted(p)' = Uncounted(p) /\ InHand(p)' = InHand(p)
         \/ Uncounted(p)' = {} /\ InHand(p)' = {}
  PROVE  HooksInv'
<1>1. TypesInv /\ ProcessInv(p)
  BY DEF HooksInv
<1>2. proc'[p] = t /\ \A q \in Processes \ {p} : proc'[q] = proc[q]
  BY <1>1 DEF TypesInv
<1>3. CountsCases(p)' /\ CountsInner(p)'
  BY CountsKept
<1>4. OrderInv(p)'
  BY <1>1 DEF ProcessInv, OrderInv, Collected, CasesIn, Above
<1>5. ProcessInv(p)'
  BY <1>3, <1>4 DEF ProcessInv
<1> QED
  BY <1>2, <1>5, ProcessMoves

(* A step of p that only moves it.                                         *)
LEMMA QuietStep ==
  ASSUME HooksInv, NEW p \in Processes, NEW t \in Procs,
         proc' = [proc EXCEPT ![p] = t], UNCHANGED <<left, scope, ran, times>>,
         PlaceInv(p)', HookInv(p)',
         \/ Uncounted(p)' = Uncounted(p) /\ InHand(p)' = InHand(p)
         \/ Uncounted(p)' = {} /\ InHand(p)' = {},
         proc[p].at \in {"finish", "ended"} => t.at \in {"finish", "ended"}
  PROVE  HooksInv'
<1>1. TypesInv /\ ProcessInv(p)
  BY DEF HooksInv
<1>2. TypesInv'
  BY <1>1 DEF TypesInv, Procs, Scopes, Collected, CasesIn
<1>3. proc'[p] = t
  BY <1>1 DEF TypesInv
<1>4. RanInv(p)'
  BY <1>1 DEF ProcessInv, RanInv
<1>5. TornDownInv(p)'
  BY <1>1, <1>3 DEF ProcessInv, TornDownInv, Collected, CasesIn
<1> QED
  BY <1>2, <1>4, <1>5, CountlessStep

-----------------------------------------------------------------------------
(* Where a process may go.                                                 *)

LEMMA FinishFacts ==
  ASSUME TypesInv, NEW p \in Processes, NEW t \in SessionFinish(p)
  PROVE  /\ t \in Procs /\ t.at = "finish" /\ t.hook = "none"
         /\ Collected \subseteq scope[p].teardown \cup ToSet(t.todo)
         /\ \A i, j \in 1 .. Len(t.todo) : i < j => Depth(t.todo[i]) >= Depth(t.todo[j])
<1> DEFINE open == Collected \ scope[p].teardown
<1>1. PICK order \in ClosingOrders(p) :
        t = [proc[p] EXCEPT !.at = "finish", !.case = NoCase, !.hook = "none", !.todo = order]
  BY DEF SessionFinish
<1>2. /\ order \in [1 .. Cardinality(open) -> open] /\ ToSet(order) = open
      /\ \A i, j \in DOMAIN order : i < j => Depth(order[i]) >= Depth(order[j])
  BY DEF ClosingOrders
<1>3. Cardinality(open) \in Nat
  <2>1. open \subseteq Directories
    BY DEF Collected
  <2>2. IsFiniteSet(open)
    BY <2>1, HooksAssumption, FS_Subset
  <2> QED
    BY <2>2, FS_CardinalityType
<1>4. PICK n \in Nat : n = Cardinality(open)
  BY <1>3
<1>5. order \in [1 .. n -> Collected]
  BY <1>2, <1>4
<1>6. order \in Seq(Collected) /\ Len(order) = n /\ DOMAIN order = 1 .. n
  <2>1. order \in Seq(Collected)
    BY <1>5, SeqDef
  <2> QED
    BY <2>1, <1>5, LenProperties
<1>7. proc[p] \in Procs
  BY DEF TypesInv
<1>8. t \in Procs /\ t.at = "finish" /\ t.hook = "none" /\ t.todo = order
  <2>1. PICK s \in Procs : s = proc[p]
    BY <1>7
  <2>2. t = Moved(s, "finish", NoCase, order, "none", s.cut)
    BY <1>1, <2>1 DEF Moved, Procs
  <2>3. s.cut \in BOOLEAN
    BY ProcFields
  <2> QED
    BY <2>2, <2>3, <1>6, ProcUpdate, StateNames
<1> QED
  BY <1>2, <1>6, <1>8

LEMMA StepToFinish ==
  ASSUME HooksInv, NEW p \in Processes, NEW t \in SessionFinish(p),
         proc' = [proc EXCEPT ![p] = t], UNCHANGED <<left, scope, ran, times>>
  PROVE  HooksInv'
<1>1. TypesInv
  BY DEF HooksInv
<1>2. /\ t \in Procs /\ t.at = "finish" /\ t.hook = "none"
      /\ Collected \subseteq scope[p].teardown \cup ToSet(t.todo)
      /\ \A i, j \in 1 .. Len(t.todo) : i < j => Depth(t.todo[i]) >= Depth(t.todo[j])
  BY <1>1, FinishFacts
<1>3. proc'[p] = t
  BY <1>1 DEF TypesInv
<1>4. PlaceInv(p)'
  BY <1>2, <1>3 DEF PlaceInv, PlaceOK
<1>5. HookInv(p)'
  BY <1>2, <1>3 DEF HookInv, HookOK
<1>6. Uncounted(p)' = {} /\ InHand(p)' = {}
  BY <1>2, <1>3 DEF Uncounted, InHand
<1> QED
  BY <1>2, <1>4, <1>5, <1>6, QuietStep

(* Outside a loop, or before the teardown of a case.                       *)
LEMMA StepToIdle ==
  ASSUME TypesInv, NEW p \in Processes, proc' = [proc EXCEPT ![p] = Idle(p)]
  PROVE  /\ Idle(p) \in Procs /\ Idle(p).at = "idle"
         /\ PlaceInv(p)' /\ HookInv(p)'
         /\ Uncounted(p)' = {} /\ InHand(p)' = {}
<1>1. proc[p] \in Procs /\ <<>> \in Seq(Collected)
  BY EmptySeq DEF TypesInv
<1>2. PICK t \in Procs : t = Idle(p) /\ t.at = "idle" /\ t.hook = "none"
  <2>1. PICK s \in Procs : s = proc[p]
    BY <1>1
  <2>2. PICK e \in Seq(Collected) : e = <<>>
    BY <1>1
  <2>3. Idle(p) = Moved(s, "idle", NoCase, e, "none", s.cut)
    BY <2>1, <2>2 DEF Idle, Moved, Procs
  <2>4. s.cut \in BOOLEAN
    BY ProcFields
  <2> QED
    BY <2>3, <2>4, ProcUpdate, StateNames
<1>3. proc'[p] = t
  BY <1>2 DEF TypesInv
<1>4. PlaceInv(p)'
  BY <1>2, <1>3 DEF PlaceInv, PlaceOK
<1>5. HookInv(p)'
  BY <1>2, <1>3 DEF HookInv, HookOK
<1>6. Uncounted(p)' = {} /\ InHand(p)' = {}
  BY <1>2, <1>3 DEF Uncounted, InHand
<1> QED
  BY <1>2, <1>4, <1>5, <1>6

LEMMA StepToTeardown ==
  ASSUME HooksInv, NEW p \in Processes, proc[p].at \in {"setup", "case"},
         proc' = [proc EXCEPT ![p] = Teardown(p)]
  PROVE  /\ Teardown(p) \in Procs /\ Teardown(p).at = "teardown"
         /\ PlaceInv(p)' /\ HookInv(p)'
         /\ Uncounted(p)' = Uncounted(p) /\ InHand(p)' = InHand(p)
<1>1. proc[p] \in Procs /\ proc[p].case \in Cases
  BY DEF HooksInv, TypesInv, ProcessInv, PlaceInv, PlaceOK
<1>2. PICK c \in Cases : c = proc[p].case
  BY <1>1
<1>3. PICK s \in Seq(Collected) : s = ChainOf[c]
  BY ChainFacts
<1>4. PICK r \in Seq(Collected) : r = Reverse(s)
  BY ReverseFacts
<1>5. PICK n \in Nat : n = Len(s)
  BY LenProperties
<1>6. Len(r) = n /\ ToSet(r) = ToSet(s) /\ \A i \in 1 .. n : r[i] = s[(n - i) + 1]
  BY <1>4, <1>5, ReverseFacts
<1>7. PICK t \in Procs : t = Teardown(p) /\ t.at = "teardown" /\ t.hook = "none" /\ t.todo = r
  <2>1. PICK s0 \in Procs : s0 = proc[p]
    BY <1>1
  <2>2. Teardown(p) = Moved(s0, "teardown", s0.case, r, "none", s0.cut)
    BY <2>1, <1>2, <1>3, <1>4 DEF Teardown, Moved, Procs
  <2>3. s0.cut \in BOOLEAN /\ s0.case \in TakenCases
    BY ProcFields
  <2> QED
    BY <2>2, <2>3, ProcUpdate, StateNames
<1>8. proc'[p] = t
  BY <1>7 DEF HooksInv, TypesInv
<1>9. \A i \in 1 .. n : Depth(r[i]) = (n - i) + 1
  <2> TAKE i \in 1 .. n
  <2>1. (n - i) + 1 \in 1 .. n
    OBVIOUS
  <2>2. Depth(s[(n - i) + 1]) = (n - i) + 1
    BY <2>1, <1>3, <1>5, DepthOnChain
  <2> QED
    BY <2>2, <1>6
<1>10. \A i, j \in 1 .. Len(r) : i < j => Depth(r[i]) > Depth(r[j])
  BY <1>6, <1>9
<1>11. PlaceInv(p)'
  BY <1>7, <1>8, <1>10 DEF PlaceInv, PlaceOK
<1>12. HookInv(p)'
  BY <1>7, <1>8 DEF HookInv, HookOK
<1>13. Uncounted(p)' = ToSet(r) /\ InHand(p)' = {}
  BY <1>7, <1>8 DEF Uncounted, InHand
<1>14. Uncounted(p) = ToSet(s) /\ InHand(p) = {}
  BY <1>2, <1>3 DEF Uncounted, InHand
<1> QED
  BY <1>6, <1>7, <1>11, <1>12, <1>13, <1>14

-----------------------------------------------------------------------------
(* The steps, one by one.                                                  *)

LEMMA LeavingStep ==
  ASSUME HooksInv, NEW p \in Processes, LeaveSession(p) \/ InterruptHook(p)
  PROVE  HooksInv'
<1>1. PICK t \in SessionFinish(p) : proc' = [proc EXCEPT ![p] = t]
  BY DEF LeaveSession, InterruptHook
<1>2. UNCHANGED <<left, scope, ran, times>>
  BY DEF LeaveSession, InterruptHook
<1> QED
  BY <1>1, <1>2, StepToFinish

LEMMA CaseEndsStep ==
  ASSUME HooksInv, NEW p \in Processes, CaseEnds(p)
  PROVE  HooksInv'
<1>1. proc[p].at = "case" /\ UNCHANGED <<left, scope, ran, times>>
  BY DEF CaseEnds
<1>2. CASE \E t \in SessionFinish(p) : proc' = [proc EXCEPT ![p] = t]
  BY <1>1, <1>2, StepToFinish
<1>3. CASE proc' = [proc EXCEPT ![p] = Teardown(p)]
  <2>1. /\ Teardown(p) \in Procs /\ Teardown(p).at = "teardown"
        /\ PlaceInv(p)' /\ HookInv(p)'
        /\ Uncounted(p)' = Uncounted(p) /\ InHand(p)' = InHand(p)
    BY <1>1, <1>3, StepToTeardown
  <2> QED
    BY <1>1, <1>3, <2>1, QuietStep
<1> QED
  BY <1>2, <1>3 DEF CaseEnds

LEMMA LoopEndsStep ==
  ASSUME HooksInv, NEW p \in Processes, LoopEnds(p)
  PROVE  HooksInv'
<1>1. /\ proc[p].at \in {"setup", "teardown", "finish"} /\ proc[p].todo = <<>>
      /\ UNCHANGED <<left, scope, ran, times>>
  BY DEF LoopEnds
<1>2. TypesInv /\ ProcessInv(p)
  BY DEF HooksInv
<1>3. PICK s \in Procs : s = proc[p]
  BY <1>2 DEF TypesInv
<1>4. PICK e \in Seq(Collected) : e = <<>> /\ ToSet(e) = {}
  <2>1. ToSet(<<>>) = {}
    BY DEF ToSet
  <2> QED
    BY <2>1, EmptySeq
<1>5. s.hook = "none"
  BY <1>1, <1>2, <1>3 DEF ProcessInv, HookInv, HookOK
<1>6. /\ s.at \in Places /\ s.case \in TakenCases /\ s.todo = e
      /\ s.hook \in HookStates /\ s.cut \in BOOLEAN
  BY <1>1, <1>3, <1>4, ProcFields
<1>7. CASE s.at = "setup"
  <2>1. PICK t \in Procs : /\ t = [s EXCEPT !.at = "case"] /\ t.at = "case"
                           /\ t.case = s.case /\ t.hook = "none"
    <3>1. [s EXCEPT !.at = "case"] = Moved(s, "case", s.case, s.todo, s.hook, s.cut)
      BY DEF Moved, Procs
    <3> QED
      BY <3>1, <1>5, <1>6, ProcUpdate, StateNames
  <2>2. proc' = [proc EXCEPT ![p] = t]
    BY <1>3, <1>7, <2>1 DEF LoopEnds
  <2>3. proc'[p] = t
    BY <2>2, <1>2 DEF TypesInv
  <2>4. s.case \in Cases /\ ToSet(ChainOf[s.case]) \subseteq scope[p].setup
    BY <1>2, <1>3, <1>4, <1>6, <1>7 DEF ProcessInv, PlaceInv, PlaceOK
  <2>5. PlaceInv(p)'
    BY <1>1, <2>1, <2>3, <2>4 DEF PlaceInv, PlaceOK
  <2>6. HookInv(p)'
    BY <2>1, <2>3 DEF HookInv, HookOK
  <2>7. Uncounted(p)' = Uncounted(p) /\ InHand(p)' = InHand(p)
    BY <1>3, <1>7, <2>1, <2>3 DEF Uncounted, InHand
  <2> QED
    BY <1>1, <1>3, <1>7, <2>2, <2>5, <2>6, <2>7, QuietStep
<1>8. CASE s.at = "teardown"
  <2>1. proc' = [proc EXCEPT ![p] = Idle(p)]
    BY <1>3, <1>8 DEF LoopEnds
  <2>2. /\ Idle(p) \in Procs /\ Idle(p).at = "idle" /\ PlaceInv(p)' /\ HookInv(p)'
        /\ Uncounted(p)' = {} /\ InHand(p)' = {}
    BY <1>2, <2>1, StepToIdle
  <2> QED
    BY <1>1, <1>3, <1>8, <2>1, <2>2, QuietStep
<1>9. CASE s.at = "finish"
  <2>1. PICK t \in Procs : /\ t = [s EXCEPT !.at = "ended"] /\ t.at = "ended"
                           /\ t.hook = "none"
    <3>1. [s EXCEPT !.at = "ended"] = Moved(s, "ended", s.case, s.todo, s.hook, s.cut)
      BY DEF Moved, Procs
    <3> QED
      BY <3>1, <1>5, <1>6, ProcUpdate, StateNames
  <2>2. proc' = [proc EXCEPT ![p] = t]
    BY <1>3, <1>9, <2>1 DEF LoopEnds
  <2>3. proc'[p] = t
    BY <2>2, <1>2 DEF TypesInv
  <2>4. Collected \subseteq scope[p].teardown
    BY <1>2, <1>3, <1>4, <1>6, <1>9 DEF ProcessInv, PlaceInv, PlaceOK
  <2>5. PlaceInv(p)'
    BY <1>1, <2>1, <2>3, <2>4 DEF PlaceInv, PlaceOK, Collected, CasesIn
  <2>6. HookInv(p)'
    BY <2>1, <2>3 DEF HookInv, HookOK
  <2>7. Uncounted(p)' = {} /\ InHand(p)' = {}
    BY <2>1, <2>3 DEF Uncounted, InHand
  <2> QED
    BY <1>1, <2>1, <2>2, <2>5, <2>6, <2>7, QuietStep
<1> QED
  BY <1>1, <1>3, <1>7, <1>8, <1>9

(* The first directory of a loop and the rest.                             *)
LEMMA FirstToCome ==
  ASSUME TypesInv, NEW p \in Processes, proc[p].todo # <<>>
  PROVE  \E s \in Procs, h \in Collected, r \in Seq(Collected) :
           /\ s = proc[p] /\ h = Head(s.todo) /\ r = Tail(s.todo)
           /\ ToSet(s.todo) = {h} \cup ToSet(r)
           /\ s.at \in Places /\ s.case \in TakenCases /\ s.hook \in HookStates /\ s.cut \in BOOLEAN
<1>1. PICK s \in Procs : s = proc[p]
  BY DEF TypesInv
<1>2. s.todo \in Seq(Collected) /\ s.todo # <<>>
  BY <1>1, ProcFields
<1>3. PICK h \in Collected : h = Head(s.todo)
  BY <1>2, TailFacts
<1>4. PICK r \in Seq(Collected) : r = Tail(s.todo)
  BY <1>2, TailFacts
<1>5. ToSet(s.todo) = {h} \cup ToSet(r)
  BY <1>2, <1>3, <1>4, TailFacts
<1> QED
  BY <1>1, <1>3, <1>4, <1>5, ProcFields

LEMMA SkipSetupStep ==
  ASSUME HooksInv, NEW p \in Processes, SkipSetup(p)
  PROVE  HooksInv'
<1>1. /\ proc[p].at = "setup" /\ proc[p].hook = "none" /\ proc[p].todo # <<>>
      /\ Head(proc[p].todo) \in scope[p].setup
      /\ UNCHANGED <<left, scope, ran, times>>
  BY DEF SkipSetup
<1>2. TypesInv /\ ProcessInv(p)
  BY DEF HooksInv
<1>3. PICK s \in Procs, h \in Collected, r \in Seq(Collected) :
        /\ s = proc[p] /\ h = Head(s.todo) /\ r = Tail(s.todo)
        /\ ToSet(s.todo) = {h} \cup ToSet(r)
        /\ s.at \in Places /\ s.case \in TakenCases /\ s.hook \in HookStates /\ s.cut \in BOOLEAN
  BY <1>1, <1>2, FirstToCome
<1>4. PICK t \in Procs : /\ t = [s EXCEPT !.todo = r] /\ t.at = "setup" /\ t.todo = r
                         /\ t.case = s.case /\ t.hook = "none"
  <2>1. [s EXCEPT !.todo = r] = Moved(s, s.at, s.case, r, s.hook, s.cut)
    BY DEF Moved, Procs
  <2>2. PICK t \in Procs : /\ t = Moved(s, s.at, s.case, r, s.hook, s.cut)
                           /\ t.at = s.at /\ t.case = s.case /\ t.todo = r /\ t.hook = s.hook
    <3>1. s.at \in Places /\ s.case \in TakenCases /\ s.hook \in HookStates /\ s.cut \in BOOLEAN
      BY ProcFields
    <3> QED
      BY <3>1, ProcUpdate
  <2> QED
    BY <2>1, <2>2, <1>1, <1>3
<1>5. proc' = [proc EXCEPT ![p] = t]
  BY <1>3, <1>4 DEF SkipSetup
<1>6. proc'[p] = t
  BY <1>2, <1>5 DEF TypesInv
<1>7. /\ s.case \in Cases /\ ToSet(s.todo) \subseteq ToSet(ChainOf[s.case])
      /\ ToSet(ChainOf[s.case]) \subseteq scope[p].setup \cup ToSet(s.todo)
  BY <1>1, <1>2, <1>3 DEF ProcessInv, PlaceInv, PlaceOK
<1>8. ToSet(ChainOf[s.case]) \subseteq scope[p].setup \cup ToSet(r)
  BY <1>1, <1>3, <1>7
<1>9. PlaceInv(p)'
  BY <1>1, <1>3, <1>4, <1>6, <1>7, <1>8 DEF PlaceInv, PlaceOK
<1>10. HookInv(p)'
  BY <1>4, <1>6 DEF HookInv, HookOK
<1>11. Uncounted(p)' = Uncounted(p) /\ InHand(p)' = InHand(p)
  BY <1>1, <1>3, <1>4, <1>6 DEF Uncounted, InHand
<1> QED
  BY <1>1, <1>5, <1>9, <1>10, <1>11, QuietStep

LEMMA BeginHookStep ==
  ASSUME HooksInv, NEW p \in Processes, BeginHook(p)
  PROVE  HooksInv'
<1>1. /\ proc[p].todo # <<>> /\ HookIsDue(p)
      /\ Head(proc[p].todo) \in FileIn(KindAt(p)) \ ran[p][KindAt(p)]
      /\ UNCHANGED <<left, scope, ran, times>>
  BY DEF BeginHook, HookIsDue, Doing
<1>2. TypesInv /\ ProcessInv(p)
  BY DEF HooksInv
<1>3. PICK s \in Procs, h \in Collected, r \in Seq(Collected) :
        /\ s = proc[p] /\ h = Head(s.todo) /\ r = Tail(s.todo)
        /\ ToSet(s.todo) = {h} \cup ToSet(r)
        /\ s.at \in Places /\ s.case \in TakenCases /\ s.hook \in HookStates /\ s.cut \in BOOLEAN
  BY <1>1, <1>2, FirstToCome
<1>4. PICK t \in Procs : /\ t = [s EXCEPT !.hook = "runs"] /\ t.hook = "runs"
                         /\ t.at = s.at /\ t.todo = s.todo /\ t.case = s.case /\ t.cut = s.cut
  <2>1. PICK x \in HookStates : x = "runs"
    BY StateNames
  <2>2. PICK u \in Seq(Collected) : u = s.todo
    BY ProcFields
  <2>3. [s EXCEPT !.hook = "runs"] = Moved(s, s.at, s.case, u, x, s.cut)
    BY <2>1, <2>2 DEF Moved, Procs
  <2>4. s.at \in Places /\ s.case \in TakenCases /\ s.cut \in BOOLEAN
    BY ProcFields
  <2>5. PICK t \in Procs : /\ t = Moved(s, s.at, s.case, u, x, s.cut) /\ t.hook = x
                           /\ t.at = s.at /\ t.todo = u /\ t.case = s.case /\ t.cut = s.cut
    BY <2>4, ProcUpdate
  <2> QED
    BY <2>1, <2>2, <2>3, <2>5
<1>5. proc' = [proc EXCEPT ![p] = t]
  BY <1>3, <1>4 DEF BeginHook
<1>6. proc'[p] = t
  BY <1>2, <1>5 DEF TypesInv
<1>7. s.hook = "due" => s.at = "teardown"
  BY <1>2, <1>3 DEF ProcessInv, HookInv, HookOK
<1>8. s.at \in {"setup", "teardown", "finish"} /\ (s.at = "teardown" => s.hook = "due")
  BY <1>1, <1>3, <1>7 DEF HookIsDue
<1>9. PlaceInv(p)'
  BY <1>1, <1>2, <1>3, <1>4, <1>6 DEF ProcessInv, PlaceInv, PlaceOK, Collected, CasesIn
<1>10. s.at = "teardown" => scope[p].count[h] = 0 /\ h \notin scope[p].teardown
  BY <1>2, <1>3, <1>8 DEF ProcessInv, HookInv, HookOK
<1>11. h \in FileIn(IF s.at = "setup" THEN "setup" ELSE "teardown")
         \ ran[p][IF s.at = "setup" THEN "setup" ELSE "teardown"]
  BY <1>1, <1>3 DEF KindAt
<1>12. HookInv(p)'
  BY <1>1, <1>3, <1>4, <1>6, <1>8, <1>10, <1>11 DEF HookInv, HookOK, FileIn
<1>13. Uncounted(p)' = Uncounted(p) /\ InHand(p)' = InHand(p)
  BY <1>3, <1>4, <1>6, <1>8 DEF Uncounted, InHand
<1> QED
  BY <1>1, <1>3, <1>4, <1>5, <1>9, <1>12, <1>13, QuietStep

(* An exception of a hook: where the process goes.                         *)
LEMMA AfterRaiseFacts ==
  ASSUME HooksInv, NEW p \in Processes, proc[p].hook = "runs",
         proc' = [proc EXCEPT ![p] = AfterRaise(p)]
  PROVE  /\ AfterRaise(p) \in Procs /\ PlaceInv(p)' /\ HookInv(p)'
         /\ \/ Uncounted(p)' = Uncounted(p) /\ InHand(p)' = InHand(p)
            \/ Uncounted(p)' = {} /\ InHand(p)' = {}
         /\ proc[p].at \in {"setup", "teardown", "finish"}
         /\ proc[p].at = "finish" => AfterRaise(p).at = "ended"
<1>1. TypesInv /\ ProcessInv(p)
  BY DEF HooksInv
<1>2. proc[p].at \in {"setup", "teardown", "finish"}
  BY <1>1 DEF ProcessInv, HookInv, HookOK
<1>3. CASE proc[p].at = "setup"
  <2>1. AfterRaise(p) = Teardown(p)
    BY <1>3 DEF AfterRaise
  <2> QED
    BY <1>3, <2>1, StepToTeardown
<1>4. CASE proc[p].at = "teardown"
  <2>1. AfterRaise(p) = Idle(p)
    BY <1>4 DEF AfterRaise
  <2> QED
    BY <1>1, <1>4, <2>1, StepToIdle
<1>5. CASE proc[p].at = "finish"
  <2>1. PICK s \in Procs : s = proc[p]
    BY <1>1 DEF TypesInv
  <2>2. PICK e \in Seq(Collected) : e = <<>>
    BY EmptySeq
  <2>3. PICK x \in BOOLEAN : x = TRUE
    OBVIOUS
  <2>4. AfterRaise(p) = Moved(s, "ended", s.case, e, "none", x)
    BY <1>5, <2>1, <2>2, <2>3 DEF AfterRaise, Moved, Procs
  <2>5. PICK t \in Procs : t = AfterRaise(p) /\ t.at = "ended" /\ t.hook = "none" /\ t.cut
    <3>1. s.case \in TakenCases
      BY ProcFields
    <3>2. PICK t \in Procs : /\ t = Moved(s, "ended", s.case, e, "none", x)
                             /\ t.at = "ended" /\ t.hook = "none" /\ t.cut = x
      BY <3>1, ProcUpdate, StateNames
    <3> QED
      BY <2>3, <2>4, <3>2
  <2>6. proc'[p] = t
    BY <1>1, <2>5 DEF TypesInv
  <2>7. PlaceInv(p)' /\ HookInv(p)'
    BY <2>5, <2>6 DEF PlaceInv, PlaceOK, HookInv, HookOK
  <2>8. Uncounted(p)' = {} /\ InHand(p)' = {}
    BY <2>5, <2>6 DEF Uncounted, InHand
  <2> QED
    BY <1>2, <2>5, <2>7, <2>8
<1> QED
  BY <1>2, <1>3, <1>4, <1>5

LEMMA FailHookStep ==
  ASSUME HooksInv, NEW p \in Processes, FailHook(p)
  PROVE  HooksInv'
<1>1. /\ proc[p].hook = "runs" /\ proc' = [proc EXCEPT ![p] = AfterRaise(p)]
      /\ UNCHANGED <<left, scope, ran, times>>
  BY DEF FailHook, Raised
<1>2. /\ AfterRaise(p) \in Procs /\ PlaceInv(p)' /\ HookInv(p)'
      /\ \/ Uncounted(p)' = Uncounted(p) /\ InHand(p)' = InHand(p)
         \/ Uncounted(p)' = {} /\ InHand(p)' = {}
      /\ proc[p].at \in {"setup", "teardown", "finish"}
      /\ proc[p].at = "finish" => AfterRaise(p).at = "ended"
  BY <1>1, AfterRaiseFacts
<1> QED
  BY <1>1, <1>2, QuietStep

(* The loop comes to its next directory: the rest of it is sorted too.     *)
LEMMA TailSorted ==
  ASSUME NEW s \in Seq(Collected), s # <<>>, NEW r \in Seq(Collected), r = Tail(s)
  PROVE  /\ (\A i, j \in 1 .. Len(s) : i < j => Depth(s[i]) > Depth(s[j]))
              => /\ \A i, j \in 1 .. Len(r) : i < j => Depth(r[i]) > Depth(r[j])
                 /\ \A d \in ToSet(r) : Depth(Head(s)) > Depth(d)
         /\ (\A i, j \in 1 .. Len(s) : i < j => Depth(s[i]) >= Depth(s[j]))
              => /\ \A i, j \in 1 .. Len(r) : i < j => Depth(r[i]) >= Depth(r[j])
                 /\ \A d \in ToSet(r) : Depth(Head(s)) >= Depth(d)
<1>1. PICK n \in Nat \ {0} : n = Len(s)
  BY TailFacts
<1>2. /\ Len(r) = n - 1 /\ \A i \in 1 .. n - 1 : r[i] = s[i + 1]
      /\ Head(s) = s[1]
  BY <1>1, TailFacts
<1>3. \A i \in 1 .. n - 1 : i + 1 \in 1 .. n /\ 1 < i + 1
  OBVIOUS
<1>4. \A i, j \in 1 .. n - 1 : i < j => i + 1 < j + 1
  OBVIOUS
<1>5. ASSUME \A i, j \in 1 .. Len(s) : i < j => Depth(s[i]) > Depth(s[j])
      PROVE  \A i, j \in 1 .. Len(r) : i < j => Depth(r[i]) > Depth(r[j])
  <2> TAKE i, j \in 1 .. Len(r)
  <2> HAVE i < j
  <2>1. Depth(s[i + 1]) > Depth(s[j + 1])
    BY <1>1, <1>2, <1>3, <1>4, <1>5
  <2> QED
    BY <1>2, <2>1
<1>6. ASSUME \A i, j \in 1 .. Len(s) : i < j => Depth(s[i]) >= Depth(s[j])
      PROVE  \A i, j \in 1 .. Len(r) : i < j => Depth(r[i]) >= Depth(r[j])
  <2> TAKE i, j \in 1 .. Len(r)
  <2> HAVE i < j
  <2>1. Depth(s[i + 1]) >= Depth(s[j + 1])
    BY <1>1, <1>2, <1>3, <1>4, <1>6
  <2> QED
    BY <1>2, <2>1
<1>7. ASSUME \A i, j \in 1 .. Len(s) : i < j => Depth(s[i]) >= Depth(s[j]),
             NEW d \in ToSet(r)
      PROVE  Depth(Head(s)) >= Depth(d)
  <2>1. PICK i \in 1 .. Len(r) : r[i] = d
    BY ToSetFacts
  <2>2. 1 \in 1 .. n /\ i + 1 \in 1 .. n /\ 1 < i + 1 /\ s[i + 1] = d
    BY <1>2, <1>3, <2>1
  <2> QED
    BY <1>1, <1>2, <1>7, <2>2
<1>8. ASSUME \A i, j \in 1 .. Len(s) : i < j => Depth(s[i]) > Depth(s[j]),
             NEW d \in ToSet(r)
      PROVE  Depth(Head(s)) > Depth(d)
  <2>1. PICK i \in 1 .. Len(r) : r[i] = d
    BY ToSetFacts
  <2>2. 1 \in 1 .. n /\ i + 1 \in 1 .. n /\ 1 < i + 1 /\ s[i + 1] = d
    BY <1>2, <1>3, <2>1
  <2> QED
    BY <1>1, <1>2, <1>8, <2>2
<1> QED
  BY <1>5, <1>6, <1>7, <1>8

(* An outer directory whose count is used up has no open one inside it.    *)
LEMMA InnerClosed ==
  ASSUME HooksInv, NEW p \in Processes, NEW o \in Collected, NEW i \in Collected, Above(o, i),
         scope[p].count[o] = 0
  PROVE  scope[p].count[i] = 0 /\ (i \in scope[p].setup => i \in scope[p].teardown)
<1>1. TypesInv /\ ProcessInv(p)
  BY DEF HooksInv
<1>2. scope[p].count[i] \in Nat /\ Owed(p, i) \in Nat /\ Outside(o, i) \in Nat
  BY <1>1, CountFacts, WaitingFacts DEF TypesInv
<1>3. 0 >= Owed(p, i) + Outside(o, i)
             + Bit(o \in Uncounted(p) /\ i \notin Uncounted(p) \cup InHand(p))
  BY <1>1 DEF ProcessInv, CountsInner
<1>4. Owed(p, i) = 0
  BY <1>2, <1>3, BitFacts
<1> QED
  BY <1>2, <1>4 DEF Owed, Bit

(* The hook of the first directory returned, and perhaps it was executed.  *)
LEMMA ReturnedFacts ==
  ASSUME HooksInv, NEW p \in Processes, proc[p].todo # <<>>,
         \/ proc[p].at \in {"setup", "finish"}
         \/ proc[p].at = "teardown" /\ proc[p].hook # "none",
         Returned(p, Head(proc[p].todo)), left' = left,
         ran' \in [Processes -> [Kinds -> SUBSET Directories]],
         times' \in [Processes -> [Kinds -> [Directories -> Nat]]],
         \A q \in Processes \ {p} : ran'[q] = ran[q] /\ times'[q] = times[q],
         \A k \in Kinds : ran[p][k] \subseteq ran'[p][k],
         \A k \in Kinds, d \in Directories : times'[p][k][d] = Bit(d \in ran'[p][k]),
         Head(proc[p].todo) \in FileIn(KindAt(p)) => Head(proc[p].todo) \in ran'[p][KindAt(p)],
         \A d \in ran'[p]["teardown"] \ ran[p]["teardown"] :
           d = Head(proc[p].todo) /\ KindAt(p) = "teardown"
  PROVE  HooksInv'
<1>1. TypesInv /\ ProcessInv(p)
  BY DEF HooksInv
<1>2. PICK s \in Procs, h \in Collected, r \in Seq(Collected) :
        /\ s = proc[p] /\ h = Head(s.todo) /\ r = Tail(s.todo)
        /\ ToSet(s.todo) = {h} \cup ToSet(r)
        /\ s.at \in Places /\ s.case \in TakenCases /\ s.hook \in HookStates /\ s.cut \in BOOLEAN
  BY <1>1, FirstToCome
<1>3. s.at = "setup" \/ (s.at = "teardown" /\ s.hook # "none") \/ s.at = "finish"
  BY <1>2
<1>4. PICK t \in Procs : /\ t = Moved(s, s.at, s.case, r, "none", s.cut)
                         /\ t.at = s.at /\ t.todo = r /\ t.case = s.case /\ t.hook = "none"
  <2>1. s.at \in Places /\ s.case \in TakenCases /\ s.cut \in BOOLEAN
    BY ProcFields
  <2> QED
    BY <2>1, ProcUpdate, StateNames
<1>5. proc' = [proc EXCEPT ![p] = t]
  <2>1. t = [s EXCEPT !.todo = Tail(s.todo), !.hook = "none"]
    BY <1>2, <1>4 DEF Moved, Procs
  <2>2. proc' = [proc EXCEPT ![p].todo = Tail(proc[p].todo), ![p].hook = "none"]
    BY DEF Returned
  <2> QED
    BY <1>1, <1>2, <2>1, <2>2 DEF TypesInv
<1>6. proc'[p] = t /\ (\A q \in Processes \ {p} : proc'[q] = proc[q])
      /\ proc' \in [Processes -> Procs]
  BY <1>1, <1>5 DEF TypesInv
<1>7. PICK sc \in Scopes, a \in SUBSET Collected, b \in SUBSET Collected :
        /\ sc = scope[p]
        /\ s.at = "setup" => a = {h} /\ b = {}
        /\ s.at # "setup" => a = {} /\ b = {h}
  <2>1. PICK sc \in Scopes : sc = scope[p]
    BY <1>1 DEF TypesInv
  <2>2. {} \in SUBSET Collected /\ {h} \in SUBSET Collected
    OBVIOUS
  <2>3. CASE s.at = "setup"
    BY <2>1, <2>2, <2>3
  <2>4. CASE s.at # "setup"
    BY <2>1, <2>2, <2>4
  <2> QED
    BY <2>3, <2>4
<1>8. PICK u \in Scopes : /\ scope' = [scope EXCEPT ![p] = u] /\ u.count = sc.count
                          /\ u.setup = sc.setup \cup a /\ u.teardown = sc.teardown \cup b
  <2>1. KindAt(p) = "setup" <=> s.at = "setup"
    BY <1>2 DEF KindAt
  <2>2. CASE s.at = "setup"
    <3>1. PICK u : u = [sc EXCEPT !.setup = sc.setup \cup {h}]
      OBVIOUS
    <3>2. /\ u \in Scopes /\ u.count = sc.count /\ u.teardown = sc.teardown
          /\ u.setup = sc.setup \cup {h}
      BY <3>1 DEF Scopes
    <3>3. scope' = [scope EXCEPT ![p] = u]
      BY <1>1, <1>2, <1>7, <2>1, <2>2, <3>1 DEF Returned, TypesInv
    <3> QED
      BY <1>7, <2>2, <3>2, <3>3
  <2>3. CASE s.at # "setup"
    <3>1. PICK u : u = [sc EXCEPT !.teardown = sc.teardown \cup {h}]
      OBVIOUS
    <3>2. /\ u \in Scopes /\ u.count = sc.count /\ u.setup = sc.setup
          /\ u.teardown = sc.teardown \cup {h}
      BY <3>1 DEF Scopes
    <3>3. scope' = [scope EXCEPT ![p] = u]
      BY <1>1, <1>2, <1>7, <2>1, <2>3, <3>1 DEF Returned, TypesInv
    <3> QED
      BY <1>7, <2>3, <3>2, <3>3
  <2> QED
    BY <2>2, <2>3
<1>10. scope'[p] = u /\ (\A q \in Processes \ {p} : scope'[q] = scope[q])
       /\ scope' \in [Processes -> Scopes]
  BY <1>1, <1>8 DEF TypesInv
<1>11. TypesInv'
  BY <1>1, <1>6, <1>10 DEF TypesInv, Procs, Scopes, Collected, CasesIn
<1>12. /\ s.at = "setup" => s.case \in Cases /\ ToSet(s.todo) \subseteq ToSet(ChainOf[s.case])
                              /\ ToSet(ChainOf[s.case]) \subseteq sc.setup \cup ToSet(s.todo)
       /\ s.at = "teardown" => sc.count[h] = 0
  BY <1>1, <1>2, <1>3, <1>7 DEF ProcessInv, PlaceInv, PlaceOK, HookInv, HookOK
<1>13. PlaceInv(p)'
  <2>1. s.todo \in Seq(Collected) /\ s.todo # <<>>
    BY <1>2, ProcFields
  <2>2. PICK w \in Seq(Collected) : w = s.todo
    BY <2>1
  <2>3. CASE s.at = "setup"
    <3>1. ToSet(r) \subseteq ToSet(ChainOf[s.case])
      BY <1>2, <1>12, <2>3
    <3>2. ToSet(ChainOf[s.case]) \subseteq u.setup \cup ToSet(r)
      BY <1>7, <1>2, <1>8, <1>12, <2>3
    <3> QED
      BY <1>4, <1>6, <1>10, <1>12, <2>3, <3>1, <3>2 DEF PlaceInv, PlaceOK
  <2>4. CASE s.at = "teardown"
    <3>1. \A i, j \in 1 .. Len(w) : i < j => Depth(w[i]) > Depth(w[j])
      BY <1>1, <1>2, <2>2, <2>4 DEF ProcessInv, PlaceInv, PlaceOK
    <3>2. \A i, j \in 1 .. Len(r) : i < j => Depth(r[i]) > Depth(r[j])
      BY <1>2, <2>1, <2>2, <3>1, TailSorted
    <3> QED
      BY <1>4, <1>6, <2>4, <3>2 DEF PlaceInv, PlaceOK
  <2>5. CASE s.at = "finish"
    <3>1. /\ \A i, j \in 1 .. Len(w) : i < j => Depth(w[i]) >= Depth(w[j])
          /\ Collected \subseteq sc.teardown \cup ToSet(w)
      BY <1>1, <1>2, <1>7, <2>2, <2>5 DEF ProcessInv, PlaceInv, PlaceOK
    <3>2. \A i, j \in 1 .. Len(r) : i < j => Depth(r[i]) >= Depth(r[j])
      BY <1>2, <2>1, <2>2, <3>1, TailSorted
    <3>3. Collected \subseteq u.teardown \cup ToSet(r)
      BY <1>7, <1>2, <1>8, <2>2, <2>5, <3>1
    <3> QED
      BY <1>4, <1>6, <1>10, <2>5, <3>2, <3>3 DEF PlaceInv, PlaceOK, Collected, CasesIn
  <2> QED
    BY <1>3, <2>3, <2>4, <2>5
<1>14. HookInv(p)'
  BY <1>4, <1>6 DEF HookInv, HookOK
<1>15. RanInv(p)'
  <2>1. sc.setup \cap SetupIn \subseteq ran[p]["setup"]
    BY <1>1, <1>7 DEF ProcessInv, RanInv
  <2>2. "setup" \in Kinds
    BY DEF Kinds
  <2>3. s.at = "setup" /\ h \in SetupIn => h \in ran'[p]["setup"]
    BY <1>2 DEF KindAt, FileIn
  <2>4. u.setup \cap SetupIn \subseteq ran'[p]["setup"]
    BY <1>7, <1>8, <2>1, <2>2, <2>3
  <2> QED
    BY <1>10, <2>4 DEF RanInv
<1>16. Uncounted(p)' = Uncounted(p) /\ InHand(p)' = {} /\ InHand(p) \subseteq u.teardown
  BY <1>7, <1>2, <1>3, <1>4, <1>6, <1>8 DEF Uncounted, InHand
<1>17. u.setup \subseteq sc.setup \cup Uncounted(p)
  BY <1>7, <1>2, <1>8, <1>12 DEF Uncounted
<1>18. CountsCases(p)' /\ CountsInner(p)'
  BY <1>7, <1>8, <1>10, <1>11, <1>16, <1>17, CountsKept
<1>19. TornDownInv(p)'
  <2> SUFFICES ASSUME NEW d \in Collected, d \in u.teardown \cup ran'[p]["teardown"],
                      t.at \notin {"finish", "ended"}
               PROVE  sc.count[d] = 0
    BY <1>6, <1>8, <1>10 DEF TornDownInv, Collected, CasesIn
  <2>1. d \in sc.teardown \cup ran[p]["teardown"] => sc.count[d] = 0
    BY <1>1, <1>2, <1>4, <1>7 DEF ProcessInv, TornDownInv
  <2>2. d \in ran'[p]["teardown"] \ ran[p]["teardown"] => d = h /\ s.at # "setup"
    BY <1>2 DEF KindAt
  <2>3. d \in u.teardown \ sc.teardown => d = h /\ s.at # "setup"
    BY <1>7, <1>8
  <2>4. s.at # "setup" => sc.count[h] = 0
    BY <1>3, <1>4, <1>12
  <2> QED
    BY <2>1, <2>2, <2>3, <2>4
<1>20. OrderInv(p)'
  <2> SUFFICES ASSUME NEW o \in Collected, NEW i \in Collected, Above(o, i),
                      o \in u.teardown, i \in u.setup
               PROVE  i \in u.teardown
    BY <1>10 DEF OrderInv, Collected, CasesIn, Above
  <2>1. o \in sc.teardown /\ i \in sc.setup => i \in sc.teardown
    BY <1>1, <1>7 DEF ProcessInv, OrderInv
  <2>2. CASE s.at = "setup"
    <3>1. o \in sc.teardown /\ sc.teardown = u.teardown
      BY <1>7, <1>8, <2>2
    <3>2. sc.count[o] = 0
      BY <1>1, <1>2, <1>7, <2>2, <3>1 DEF ProcessInv, TornDownInv
    <3>3. sc.count[i] = 0
      BY <1>7, <3>2, InnerClosed
    <3>4. i \notin Uncounted(p)
      <4>1. sc.count[i] >= Waiting(i) + Bit(i \in Uncounted(p)) /\ Waiting(i) \in Nat
        BY <1>1, <1>7, WaitingFacts DEF ProcessInv, CountsCases, TypesInv
      <4> QED
        BY <3>3, <4>1 DEF Bit
    <3>5. i \in sc.setup
      BY <1>17, <3>4
    <3> QED
      BY <2>1, <3>1, <3>5
  <2>3. CASE s.at = "teardown"
    <3>1. i \in sc.setup
      BY <1>7, <1>8, <2>3
    <3>2. CASE o = h
      BY <1>7, <1>8, <1>12, <2>3, <3>1, <3>2, InnerClosed
    <3>3. CASE o # h
      BY <1>7, <1>8, <2>1, <2>3, <3>1, <3>3
    <3> QED
      BY <3>2, <3>3
  <2>4. CASE s.at = "finish"
    <3>1. i \in sc.setup
      BY <1>7, <1>8, <2>4
    <3>2. CASE o = h
      <4>1. s.todo \in Seq(Collected) /\ s.todo # <<>>
        BY <1>2, ProcFields
      <4>2. PICK w \in Seq(Collected) : w = s.todo
        BY <4>1
      <4>3. /\ \A k, j \in 1 .. Len(w) : k < j => Depth(w[k]) >= Depth(w[j])
            /\ Collected \subseteq sc.teardown \cup ToSet(w)
        BY <1>1, <1>2, <1>7, <2>4, <4>2 DEF ProcessInv, PlaceInv, PlaceOK
      <4>4. \A d \in ToSet(r) : Depth(h) >= Depth(d)
        BY <1>2, <4>1, <4>2, <4>3, TailSorted
      <4>5. Depth(h) < Depth(i) /\ Depth(h) \in Nat /\ Depth(i) \in Nat
        BY <3>2, AboveFacts
      <4>6. i \notin {h} \cup ToSet(r)
        BY <4>4, <4>5
      <4> QED
        BY <1>2, <1>8, <4>2, <4>3, <4>6
    <3>3. CASE o # h
      BY <1>7, <1>8, <2>1, <2>4, <3>1, <3>3
    <3> QED
      BY <3>2, <3>3
  <2> QED
    BY <1>3, <2>2, <2>3, <2>4
<1>21. ProcessInv(p)'
  BY <1>13, <1>14, <1>15, <1>18, <1>19, <1>20 DEF ProcessInv
<1> QED
  BY <1>6, <1>10, <1>11, <1>21, ProcessMoves

LEMMA PassHookStep ==
  ASSUME HooksInv, NEW p \in Processes, PassHook(p)
  PROVE  HooksInv'
<1>1. /\ HookIsDue(p) /\ proc[p].todo # <<>> /\ UNCHANGED <<left, ran, times>>
      /\ Returned(p, Head(proc[p].todo))
      /\ Head(proc[p].todo) \in FileIn(KindAt(p)) => Head(proc[p].todo) \in ran[p][KindAt(p)]
  BY DEF PassHook, Doing
<1>2. TypesInv /\ ProcessInv(p)
  BY DEF HooksInv
<1>3. proc[p].hook = "due" => proc[p].at = "teardown"
  BY <1>2 DEF ProcessInv, HookInv, HookOK
<1>4. \/ proc[p].at \in {"setup", "finish"}
      \/ proc[p].at = "teardown" /\ proc[p].hook # "none"
  BY <1>1, <1>3 DEF HookIsDue
<1>5. /\ ran' \in [Processes -> [Kinds -> SUBSET Directories]]
      /\ times' \in [Processes -> [Kinds -> [Directories -> Nat]]]
      /\ \A k \in Kinds, d \in Directories : times'[p][k][d] = Bit(d \in ran'[p][k])
  <2>1. \A k \in Kinds, d \in Directories : times[p][k][d] = Bit(d \in ran[p][k])
    BY <1>2 DEF ProcessInv, RanInv
  <2> QED
    BY <1>1, <1>2, <2>1 DEF TypesInv
<1> QED
  BY <1>1, <1>4, <1>5, ReturnedFacts

(* The marks of a hook that was executed.                                  *)
LEMMA Marks ==
  ASSUME HooksInv, NEW p \in Processes, EndHook(p)
  PROVE  /\ proc[p].todo # <<>> /\ Head(proc[p].todo) \in Directories
         /\ proc[p].at \in {"setup", "teardown", "finish"} /\ proc[p].hook = "runs"
         /\ KindAt(p) \in Kinds /\ left' = left
         /\ ran' \in [Processes -> [Kinds -> SUBSET Directories]]
         /\ times' \in [Processes -> [Kinds -> [Directories -> Nat]]]
         /\ \A q \in Processes \ {p} : ran'[q] = ran[q] /\ times'[q] = times[q]
         /\ \A k \in Kinds : ran'[p][k] = IF k = KindAt(p) THEN ran[p][k] \cup {Head(proc[p].todo)}
                                          ELSE ran[p][k]
         /\ \A k \in Kinds, d \in Directories : times'[p][k][d] = Bit(d \in ran'[p][k])
         /\ Returned(p, Head(proc[p].todo)) \/ Raised(p, Head(proc[p].todo))
<1>1. PICK h \in Directories :
        /\ proc[p].todo # <<>> /\ h = Head(proc[p].todo)
        /\ times' = [times EXCEPT ![p][KindAt(p)][h] = @ + 1]
        /\ ran' = [ran EXCEPT ![p][KindAt(p)] = @ \cup {h}]
        /\ Returned(p, h) \/ Raised(p, h)
  BY DEF EndHook, Doing
<1>2. TypesInv /\ ProcessInv(p)
  BY DEF HooksInv
<1>3. PICK K \in Kinds : K = KindAt(p)
  BY DEF KindAt, Kinds
<1>4. proc[p].hook = "runs" /\ left' = left
  BY DEF EndHook
<1>5. proc[p].at \in {"setup", "teardown", "finish"} /\ h \notin ran[p][K]
  BY <1>1, <1>2, <1>3, <1>4 DEF ProcessInv, HookInv, HookOK, KindAt
<1>6. PICK x \in [Kinds -> SUBSET Directories] : x = ran[p]
  BY <1>2 DEF TypesInv
<1>7. PICK y \in [Kinds -> [Directories -> Nat]] : y = times[p]
  BY <1>2 DEF TypesInv
<1>8. PICK z \in [Kinds -> SUBSET Directories] : z = [x EXCEPT ![K] = x[K] \cup {h}]
  BY <1>1
<1>9. PICK w \in [Kinds -> [Directories -> Nat]] : w = [y EXCEPT ![K] = [y[K] EXCEPT ![h] = y[K][h] + 1]]
  <2>1. PICK f \in [Directories -> Nat] : f = y[K]
    OBVIOUS
  <2>2. PICK v \in [Directories -> Nat] : v = [f EXCEPT ![h] = f[h] + 1]
    <3>1. PICK n \in Nat : n = f[h] + 1
      OBVIOUS
    <3> QED
      BY <3>1
  <2>3. PICK w \in [Kinds -> [Directories -> Nat]] : w = [y EXCEPT ![K] = v]
    OBVIOUS
  <2> QED
    BY <2>1, <2>2, <2>3
<1>10. ran' = [ran EXCEPT ![p] = z]
  BY <1>1, <1>2, <1>3, <1>6, <1>8 DEF TypesInv
<1>11. times' = [times EXCEPT ![p] = w]
  BY <1>1, <1>2, <1>3, <1>7, <1>9 DEF TypesInv
<1>12. /\ ran' \in [Processes -> [Kinds -> SUBSET Directories]] /\ ran'[p] = z
       /\ times' \in [Processes -> [Kinds -> [Directories -> Nat]]] /\ times'[p] = w
       /\ \A q \in Processes \ {p} : ran'[q] = ran[q] /\ times'[q] = times[q]
  BY <1>2, <1>10, <1>11 DEF TypesInv
<1>13. \A k \in Kinds : z[k] = IF k = K THEN x[k] \cup {h} ELSE x[k]
  BY <1>8
<1>14. ASSUME NEW k \in Kinds, NEW d \in Directories PROVE w[k][d] = Bit(d \in z[k])
  <2>1. y[k][d] = Bit(d \in x[k])
    BY <1>2, <1>6, <1>7 DEF ProcessInv, RanInv
  <2>2. CASE k = K /\ d = h
    <3>1. y[k][d] = 0
      BY <1>5, <1>6, <2>1, <2>2 DEF Bit
    <3>2. w[k][d] = 1
      BY <1>9, <2>2, <3>1
    <3> QED
      BY <1>13, <2>2, <3>2 DEF Bit
  <2>3. CASE k = K /\ d # h
    <3>1. w[k][d] = y[k][d]
      BY <1>9, <2>3
    <3>2. d \in z[k] <=> d \in x[k]
      BY <1>13, <2>3
    <3> QED
      BY <2>1, <3>1, <3>2 DEF Bit
  <2>4. CASE k # K
    <3>1. w[k][d] = y[k][d] /\ z[k] = x[k]
      BY <1>9, <1>13, <2>4
    <3> QED
      BY <2>1, <3>1
  <2> QED
    BY <2>2, <2>3, <2>4
<1>15. \A k \in Kinds : ran'[p][k] = IF k = KindAt(p) THEN ran[p][k] \cup {Head(proc[p].todo)}
                                    ELSE ran[p][k]
  BY <1>1, <1>3, <1>6, <1>12, <1>13
<1>16. \A k \in Kinds, d \in Directories : times'[p][k][d] = Bit(d \in ran'[p][k])
  BY <1>12, <1>14
<1>17. KindAt(p) \in Kinds
  BY <1>3
<1> QED
  BY <1>1, <1>4, <1>5, <1>12, <1>15, <1>16, <1>17

LEMMA EndHookStep ==
  ASSUME HooksInv, NEW p \in Processes, EndHook(p)
  PROVE  HooksInv'
<1>1. /\ proc[p].todo # <<>> /\ Head(proc[p].todo) \in Directories
      /\ proc[p].at \in {"setup", "teardown", "finish"} /\ proc[p].hook = "runs"
      /\ KindAt(p) \in Kinds /\ left' = left
      /\ ran' \in [Processes -> [Kinds -> SUBSET Directories]]
      /\ times' \in [Processes -> [Kinds -> [Directories -> Nat]]]
      /\ \A q \in Processes \ {p} : ran'[q] = ran[q] /\ times'[q] = times[q]
      /\ \A k \in Kinds : ran'[p][k] = IF k = KindAt(p) THEN ran[p][k] \cup {Head(proc[p].todo)}
                                       ELSE ran[p][k]
      /\ \A k \in Kinds, d \in Directories : times'[p][k][d] = Bit(d \in ran'[p][k])
      /\ Returned(p, Head(proc[p].todo)) \/ Raised(p, Head(proc[p].todo))
  BY Marks
<1>2. TypesInv /\ ProcessInv(p)
  BY DEF HooksInv
<1>3. PICK h \in Directories : h = Head(proc[p].todo)
  BY <1>1
<1>4. "teardown" \in Kinds /\ "setup" \in Kinds
  BY DEF Kinds
<1>5. \A d \in ran'[p]["teardown"] \ ran[p]["teardown"] : d = h /\ KindAt(p) = "teardown"
  BY <1>1, <1>3, <1>4
<1>6. CASE Returned(p, Head(proc[p].todo))
  <2>1. \A k \in Kinds : ran[p][k] \subseteq ran'[p][k]
    BY <1>1
  <2>2. Head(proc[p].todo) \in ran'[p][KindAt(p)]
    BY <1>1
  <2>3. \/ proc[p].at \in {"setup", "finish"}
        \/ proc[p].at = "teardown" /\ proc[p].hook # "none"
    BY <1>1
  <2> QED
    BY <1>1, <1>3, <1>5, <1>6, <2>1, <2>2, <2>3, ReturnedFacts
<1>7. CASE Raised(p, Head(proc[p].todo))
  <2>1. proc' = [proc EXCEPT ![p] = AfterRaise(p)] /\ UNCHANGED <<left, scope>>
    BY <1>1, <1>7 DEF Raised
  <2>2. /\ AfterRaise(p) \in Procs /\ PlaceInv(p)' /\ HookInv(p)'
        /\ \/ Uncounted(p)' = Uncounted(p) /\ InHand(p)' = InHand(p)
           \/ Uncounted(p)' = {} /\ InHand(p)' = {}
        /\ proc[p].at \in {"setup", "teardown", "finish"}
        /\ proc[p].at = "finish" => AfterRaise(p).at = "ended"
    BY <1>1, <2>1, AfterRaiseFacts
  <2>3. PICK t \in Procs : t = AfterRaise(p)
    BY <2>2
  <2>4. proc'[p] = t
    BY <1>2, <2>1, <2>3 DEF TypesInv
  <2>5. TypesInv'
    BY <1>1, <1>2, <2>1, <2>3 DEF TypesInv, Procs, Scopes, Collected, CasesIn
  <2>6. RanInv(p)'
    <3>1. scope[p].setup \cap SetupIn \subseteq ran[p]["setup"]
      BY <1>2 DEF ProcessInv, RanInv
    <3>2. ran[p]["setup"] \subseteq ran'[p]["setup"]
      BY <1>1, <1>4
    <3> QED
      BY <1>1, <2>1, <3>1, <3>2 DEF RanInv
  <2>7. TornDownInv(p)'
    <3> SUFFICES ASSUME NEW d \in Collected, d \in scope[p].teardown \cup ran'[p]["teardown"],
                        t.at \notin {"finish", "ended"}
                 PROVE  scope[p].count[d] = 0
      BY <2>1, <2>4 DEF TornDownInv, Collected, CasesIn
    <3>1. proc[p].at \in {"setup", "teardown"}
      BY <2>2, <2>3
    <3>2. d \in scope[p].teardown \cup ran[p]["teardown"] => scope[p].count[d] = 0
      BY <1>2, <3>1 DEF ProcessInv, TornDownInv
    <3>3. d \in ran'[p]["teardown"] \ ran[p]["teardown"] => d = h /\ proc[p].at = "teardown"
      BY <1>5, <3>1 DEF KindAt
    <3>4. proc[p].at = "teardown" => scope[p].count[h] = 0
      BY <1>1, <1>2, <1>3 DEF ProcessInv, HookInv, HookOK
    <3> QED
      BY <3>2, <3>3, <3>4
  <2> QED
    BY <1>1, <2>1, <2>2, <2>3, <2>5, <2>6, <2>7, CountlessStep
<1> QED
  BY <1>1, <1>6, <1>7

LEMMA TakeCaseStep ==
  ASSUME HooksInv, NEW p \in Processes, NEW c \in Cases, TakeCase(p, c)
  PROVE  HooksInv'
<1>1. /\ proc[p].at = "idle" /\ c \in left /\ left' = left \ {c}
      /\ UNCHANGED <<scope, ran, times>>
  BY DEF TakeCase
<1>2. TypesInv /\ ProcessInv(p)
  BY DEF HooksInv
<1>3. PICK s \in Procs : s = proc[p]
  BY <1>2 DEF TypesInv
<1>4. PICK chain \in Seq(Collected) : chain = ChainOf[c]
  BY ChainFacts
<1>5. s.hook = "none"
  BY <1>1, <1>2, <1>3 DEF ProcessInv, HookInv, HookOK
<1>6. PICK t \in Procs : /\ t = [s EXCEPT !.at = "setup", !.case = c, !.todo = chain]
                         /\ t.at = "setup" /\ t.case = c /\ t.todo = chain /\ t.hook = "none"
  <2>1. [s EXCEPT !.at = "setup", !.case = c, !.todo = chain]
          = Moved(s, "setup", c, chain, s.hook, s.cut)
    BY DEF Moved, Procs
  <2>2. s.hook \in HookStates /\ s.cut \in BOOLEAN
    BY ProcFields
  <2>3. PICK t \in Procs : /\ t = Moved(s, "setup", c, chain, s.hook, s.cut)
                           /\ t.at = "setup" /\ t.case = c /\ t.todo = chain /\ t.hook = s.hook
    BY <2>2, ProcUpdate, StateNames
  <2> QED
    BY <1>5, <2>1, <2>3
<1>7. proc' = [proc EXCEPT ![p] = t]
  BY <1>3, <1>4, <1>6 DEF TakeCase
<1>8. proc'[p] = t /\ \A q \in Processes \ {p} : proc'[q] = proc[q]
  BY <1>2, <1>7 DEF TypesInv
<1>9. TypesInv'
  BY <1>1, <1>2, <1>7 DEF TypesInv, Procs, Scopes, Collected, CasesIn
<1>10. PlaceInv(p)'
  BY <1>4, <1>6, <1>8 DEF PlaceInv, PlaceOK
<1>11. HookInv(p)'
  BY <1>6, <1>8 DEF HookInv, HookOK
<1>12. RanInv(p)' /\ OrderInv(p)'
  BY <1>1, <1>2 DEF ProcessInv, RanInv, OrderInv, Collected, CasesIn, Above
<1>13. TornDownInv(p)'
  BY <1>1, <1>2, <1>6, <1>8 DEF ProcessInv, TornDownInv, Collected, CasesIn
<1>14. /\ Uncounted(p) = {} /\ InHand(p) = {} /\ InHand(p)' = {}
       /\ \A d : d \in Uncounted(p)' <=> c \in CasesIn(d)
  <2>1. Uncounted(p) = {} /\ InHand(p) = {}
    BY <1>1 DEF Uncounted, InHand
  <2>2. Uncounted(p)' = ToSet(chain) /\ InHand(p)' = {}
    BY <1>4, <1>6, <1>8 DEF Uncounted, InHand
  <2> QED
    BY <1>4, <2>1, <2>2, ChainFacts
<1>15. \A d, i : /\ Waiting(d)' = Waiting(d) - Bit(c \in CasesIn(d))
                 /\ Outside(d, i)' = Outside(d, i) - Bit(c \in CasesIn(d) \ CasesIn(i))
                 /\ Waiting(d) \in Nat /\ Outside(d, i) \in Nat
  BY <1>1, <1>2, OneCaseTaken, WaitingFacts DEF TypesInv
<1>16. CountsCases(p)'
  <2> SUFFICES ASSUME NEW d \in Collected
               PROVE  scope[p].count[d] >= Waiting(d)' + Bit(d \in Uncounted(p)')
    BY <1>1 DEF CountsCases, Collected, CasesIn, Bit
  <2>1. scope[p].count[d] >= Waiting(d) + Bit(d \in Uncounted(p)) /\ scope[p].count[d] \in Nat
    BY <1>2, CountFacts DEF ProcessInv, CountsCases
  <2>2. Bit(d \in Uncounted(p)) = 0
    BY <1>14 DEF Bit
  <2>3. Bit(d \in Uncounted(p)') = Bit(c \in CasesIn(d))
    BY <1>14 DEF Bit
  <2>4. Waiting(d)' = Waiting(d) - Bit(c \in CasesIn(d)) /\ Waiting(d) \in Nat
    BY <1>15
  <2>5. Bit(c \in CasesIn(d)) \in {0, 1}
    BY BitFacts
  <2> QED
    BY <2>1, <2>2, <2>3, <2>4, <2>5
<1>17. CountsInner(p)'
  <2> SUFFICES ASSUME NEW o \in Collected, NEW i \in Collected, Above(o, i)
               PROVE  scope[p].count[o] >= Owed(p, i)' + Outside(o, i)'
                        + Bit(o \in Uncounted(p)' /\ i \notin Uncounted(p)' \cup InHand(p)')
    BY <1>1 DEF CountsInner, Collected, CasesIn, Above, Bit
  <2>1. scope[p].count[o] >= Owed(p, i) + Outside(o, i)
          + Bit(o \in Uncounted(p) /\ i \notin Uncounted(p) \cup InHand(p))
    BY <1>2 DEF ProcessInv, CountsInner
  <2>2. scope[p].count[o] \in Nat /\ Owed(p, i) \in Nat
    BY <1>2, CountFacts
  <2>3. Bit(o \in Uncounted(p) /\ i \notin Uncounted(p) \cup InHand(p)) = 0
    BY <1>14 DEF Bit
  <2>4. Bit(o \in Uncounted(p)' /\ i \notin Uncounted(p)' \cup InHand(p)')
          = Bit(c \in CasesIn(o) \ CasesIn(i))
    BY <1>14 DEF Bit
  <2>5. Owed(p, i)' = Owed(p, i)
    BY <1>1, <1>14 DEF Owed
  <2> QED
    BY <1>15, <2>1, <2>2, <2>3, <2>4, <2>5, BitFacts
<1>18. ProcessInv(p)'
  BY <1>10, <1>11, <1>12, <1>13, <1>16, <1>17 DEF ProcessInv
<1> QED
  BY <1>1, <1>8, <1>9, <1>18, ProcessMoves

LEMMA CountDownStep ==
  ASSUME HooksInv, NEW p \in Processes, CountDown(p)
  PROVE  HooksInv'
<1>1. proc[p].at = "teardown" /\ proc[p].todo # <<>> /\ proc[p].hook = "none"
  BY DEF CountDown
<1>2. TypesInv /\ ProcessInv(p)
  BY DEF HooksInv
<1>3. PICK s \in Procs, h \in Collected, r \in Seq(Collected) :
        /\ s = proc[p] /\ h = Head(s.todo) /\ r = Tail(s.todo)
        /\ ToSet(s.todo) = {h} \cup ToSet(r)
        /\ s.at \in Places /\ s.case \in TakenCases /\ s.hook \in HookStates /\ s.cut \in BOOLEAN
  BY <1>1, <1>2, FirstToCome
<1>4. PICK sc \in Scopes : sc = scope[p]
  BY <1>2 DEF TypesInv
<1>5. PICK f \in [Collected -> Nat] : f = sc.count
  BY DEF Scopes
<1>6. PICK n \in Nat : n = IF f[h] > 0 THEN f[h] - 1 ELSE 0
  <2>1. f[h] \in Nat
    OBVIOUS
  <2> QED
    BY <2>1
<1>7. PICK g \in [Collected -> Nat] : g = [f EXCEPT ![h] = n]
  OBVIOUS
<1>8. PICK u \in Scopes : /\ u = [sc EXCEPT !.count = g] /\ u.count = g
                          /\ u.setup = sc.setup /\ u.teardown = sc.teardown
  <2>1. PICK u : u = [sc EXCEPT !.count = g]
    OBVIOUS
  <2>2. /\ u \in Scopes /\ u.count = g /\ u.setup = sc.setup /\ u.teardown = sc.teardown
    BY <2>1 DEF Scopes
  <2> QED
    BY <2>1, <2>2
<1>9. n = IF scope[p].count[Head(proc[p].todo)] > 0
          THEN scope[p].count[Head(proc[p].todo)] - 1 ELSE 0
  BY <1>3, <1>4, <1>5, <1>6
<1>10. /\ scope' = [scope EXCEPT ![p].count[h] = n]
       /\ IF n = 0 /\ h \notin sc.teardown THEN proc' = [proc EXCEPT ![p].hook = "due"]
          ELSE proc' = [proc EXCEPT ![p].todo = Tail(proc[p].todo)]
  BY <1>3, <1>4, <1>9 DEF CountDown
<1>11. scope' = [scope EXCEPT ![p] = u]
  BY <1>2, <1>4, <1>5, <1>7, <1>8, <1>10 DEF TypesInv
<1>12. /\ u.count[h] = (IF sc.count[h] > 0 THEN sc.count[h] - 1 ELSE 0)
       /\ \A d \in Collected \ {h} : u.count[d] = sc.count[d]
       /\ u.count[h] = n
  BY <1>5, <1>6, <1>7, <1>8
<1>13. s.at = "teardown" /\ s.hook = "none" /\ s.todo # <<>>
  BY <1>1, <1>3
<1>14. PICK w \in Seq(Collected) : w = s.todo
  BY ProcFields
<1>15. PICK t \in Procs :
         /\ proc' = [proc EXCEPT ![p] = t] /\ t.at = "teardown"
         /\ \/ n = 0 /\ h \notin sc.teardown /\ t.hook = "due" /\ t.todo = w
            \/ ~(n = 0 /\ h \notin sc.teardown) /\ t.hook = "none" /\ t.todo = r
  <2>1. s.at \in Places /\ s.case \in TakenCases /\ s.hook \in HookStates /\ s.cut \in BOOLEAN
    BY ProcFields
  <2>2. CASE n = 0 /\ h \notin sc.teardown
    <3>0. PICK x \in HookStates : x = "due"
      BY StateNames
    <3>1. [s EXCEPT !.hook = "due"] = Moved(s, s.at, s.case, w, x, s.cut)
      BY <1>14, <3>0 DEF Moved, Procs
    <3>2. PICK t \in Procs : /\ t = Moved(s, s.at, s.case, w, x, s.cut)
                             /\ t.at = s.at /\ t.hook = x /\ t.todo = w
      BY <2>1, ProcUpdate
    <3>3. proc' = [proc EXCEPT ![p] = t]
      BY <1>2, <1>3, <1>10, <2>2, <3>1, <3>2 DEF TypesInv
    <3> QED
      BY <1>13, <2>2, <3>0, <3>2, <3>3
  <2>3. CASE ~(n = 0 /\ h \notin sc.teardown)
    <3>1. [s EXCEPT !.todo = r] = Moved(s, s.at, s.case, r, s.hook, s.cut)
      BY DEF Moved, Procs
    <3>2. PICK t \in Procs : /\ t = Moved(s, s.at, s.case, r, s.hook, s.cut)
                             /\ t.at = s.at /\ t.hook = s.hook /\ t.todo = r
      BY <2>1, ProcUpdate
    <3>3. proc' = [proc EXCEPT ![p] = t]
      BY <1>2, <1>3, <1>10, <2>3, <3>1, <3>2 DEF TypesInv
    <3> QED
      BY <1>13, <2>3, <3>2, <3>3
  <2> QED
    BY <2>2, <2>3
<1>16. /\ proc'[p] = t /\ (\A q \in Processes \ {p} : proc'[q] = proc[q])
       /\ scope'[p] = u /\ (\A q \in Processes \ {p} : scope'[q] = scope[q])
       /\ UNCHANGED <<left, ran, times>>
  BY <1>2, <1>11, <1>15 DEF TypesInv, CountDown
<1>17. TypesInv'
  BY <1>2, <1>11, <1>15, <1>16 DEF TypesInv, Procs, Scopes, Collected, CasesIn
(* The loop comes to each directory once.                                  *)
<1>18. /\ \A i, j \in 1 .. Len(w) : i < j => Depth(w[i]) > Depth(w[j])
       /\ \A i, j \in 1 .. Len(r) : i < j => Depth(r[i]) > Depth(r[j])
       /\ \A d \in ToSet(r) : Depth(h) > Depth(d)
  <2>1. \A i, j \in 1 .. Len(w) : i < j => Depth(w[i]) > Depth(w[j])
    BY <1>2, <1>3, <1>13, <1>14 DEF ProcessInv, PlaceInv, PlaceOK
  <2>2. w # <<>> /\ r = Tail(w) /\ h = Head(w)
    BY <1>3, <1>13, <1>14
  <2> QED
    BY <2>1, <2>2, TailSorted
<1>19. PlaceInv(p)'
  BY <1>15, <1>16, <1>18 DEF PlaceInv, PlaceOK
<1>20. HookInv(p)'
  <2>1. w # <<>> /\ h = Head(w) /\ u.count[h] = n
    BY <1>3, <1>12, <1>13, <1>14
  <2> QED
    BY <1>8, <1>15, <1>16, <2>1 DEF HookInv, HookOK
<1>21. RanInv(p)' /\ OrderInv(p)'
  BY <1>2, <1>4, <1>8, <1>16 DEF ProcessInv, RanInv, OrderInv, Collected, CasesIn, Above
<1>22. /\ Uncounted(p) = {h} \cup ToSet(r) /\ InHand(p) = {}
       /\ Uncounted(p)' = ToSet(r)
       /\ \/ InHand(p)' = {h}
          \/ InHand(p)' = {} /\ (n = 0 => h \in sc.teardown)
  <2>1. Uncounted(p) = {h} \cup ToSet(r) /\ InHand(p) = {}
    BY <1>3, <1>13 DEF Uncounted, InHand
  <2>2. w # <<>> /\ r = Tail(w) /\ h = Head(w)
    BY <1>3, <1>13, <1>14
  <2> QED
    BY <1>15, <1>16, <2>1, <2>2 DEF Uncounted, InHand
<1>23. h \notin ToSet(r) /\ InHand(p)' \subseteq {h}
  <2>1. Depth(h) \in Nat
    BY DepthFacts
  <2> QED
    BY <1>18, <1>22, <2>1
<1>24. \A d, i : /\ Waiting(d)' = Waiting(d) /\ Outside(d, i)' = Outside(d, i)
                 /\ Waiting(d) \in Nat /\ Outside(d, i) \in Nat
  <2>1. \A d, i : Waiting(d) \in Nat /\ Outside(d, i) \in Nat
    BY <1>2, WaitingFacts DEF TypesInv
  <2>2. \A d, i : Waiting(d)' = Waiting(d) /\ Outside(d, i)' = Outside(d, i)
    BY <1>16 DEF Waiting, Outside, CasesIn
  <2> QED
    BY <2>1, <2>2
<1>25. /\ \A d \in Collected : sc.count[d] \in Nat /\ u.count[d] \in Nat
       /\ sc.count[h] > 0 /\ u.count[h] = sc.count[h] - 1
  <2>1. \A d \in Collected : sc.count[d] \in Nat /\ u.count[d] \in Nat
    BY <1>5, <1>8
  <2>2. sc.count[h] >= Waiting(h) + Bit(h \in Uncounted(p))
    BY <1>2, <1>4 DEF ProcessInv, CountsCases
  <2>3. Bit(h \in Uncounted(p)) = 1
    BY <1>22 DEF Bit
  <2>4. Waiting(h) \in Nat
    BY <1>24
  <2>5. sc.count[h] > 0
    BY <2>1, <2>2, <2>3, <2>4
  <2> QED
    BY <1>12, <2>1, <2>5
<1>26. TornDownInv(p)'
  <2> SUFFICES ASSUME NEW d \in Collected, d \in sc.teardown \cup ran[p]["teardown"]
               PROVE  u.count[d] = 0
    BY <1>8, <1>16 DEF TornDownInv, Collected, CasesIn
  <2>1. sc.count[d] = 0
    BY <1>2, <1>3, <1>4, <1>13 DEF ProcessInv, TornDownInv
  <2>2. d # h
    BY <1>25, <2>1
  <2> QED
    BY <1>12, <2>1, <2>2
<1>27. CountsCases(p)'
  <2> SUFFICES ASSUME NEW d \in Collected
               PROVE  u.count[d] >= Waiting(d) + Bit(d \in Uncounted(p)')
    BY <1>16, <1>24 DEF CountsCases, Collected, CasesIn, Bit
  <2>1. sc.count[d] >= Waiting(d) + Bit(d \in Uncounted(p)) /\ Waiting(d) \in Nat
    BY <1>2, <1>4, <1>24 DEF ProcessInv, CountsCases
  <2>2. CASE d = h
    <3>1. Bit(d \in Uncounted(p)) = 1 /\ Bit(d \in Uncounted(p)') = 0
      BY <1>22, <1>23, <2>2 DEF Bit
    <3> QED
      BY <1>25, <2>1, <2>2, <3>1
  <2>3. CASE d # h
    <3>1. Bit(d \in Uncounted(p)) = Bit(d \in Uncounted(p)')
      BY <1>22, <2>3 DEF Bit
    <3>2. u.count[d] = sc.count[d]
      BY <1>12, <2>3
    <3> QED
      BY <2>1, <3>1, <3>2
  <2> QED
    BY <2>2, <2>3
<1>28. CountsInner(p)'
  <2> SUFFICES ASSUME NEW o \in Collected, NEW i \in Collected, Above(o, i)
               PROVE  u.count[o] >= Owed(p, i)' + Outside(o, i)
                        + Bit(o \in Uncounted(p)' /\ i \notin Uncounted(p)' \cup InHand(p)')
    BY <1>16, <1>24 DEF CountsInner, Collected, CasesIn, Above, Bit
  <2>1. sc.count[o] >= Owed(p, i) + Outside(o, i)
          + Bit(o \in Uncounted(p) /\ i \notin Uncounted(p) \cup InHand(p))
    BY <1>2, <1>4 DEF ProcessInv, CountsInner
  <2>2. /\ Outside(o, i) \in Nat /\ Owed(p, i) \in Nat
        /\ sc.count[o] \in Nat /\ u.count[o] \in Nat /\ sc.count[i] \in Nat /\ u.count[i] \in Nat
    BY <1>2, <1>24, <1>25, CountFacts
  <2>3. Owed(p, i) = IF sc.count[i] > 0 THEN sc.count[i]
                     ELSE Bit(i \in (sc.setup \cup InHand(p)) \ sc.teardown)
    BY <1>4 DEF Owed
  <2>4. Owed(p, i)' = IF u.count[i] > 0 THEN u.count[i]
                      ELSE Bit(i \in (sc.setup \cup InHand(p)') \ sc.teardown)
    BY <1>8, <1>16 DEF Owed
  <2>5. Depth(o) < Depth(i) /\ Depth(o) \in Nat /\ Depth(i) \in Nat
    BY AboveFacts
  <2>6. CASE o = h
    (* The directories in it are behind the loop: the case is counted down. *)
    <3>1. i \notin {h} \cup ToSet(r)
      BY <1>18, <2>5, <2>6
    <3>2. Bit(o \in Uncounted(p) /\ i \notin Uncounted(p) \cup InHand(p)) = 1
      BY <1>22, <2>6, <3>1 DEF Bit
    <3>3. Bit(o \in Uncounted(p)' /\ i \notin Uncounted(p)' \cup InHand(p)') = 0
      BY <1>22, <1>23, <2>6 DEF Bit
    <3>4. u.count[i] = sc.count[i]
      BY <1>12, <3>1
    <3>5. i \notin InHand(p) /\ i \notin InHand(p)'
      BY <1>22, <1>23, <3>1
    <3>6. Owed(p, i)' = Owed(p, i)
      BY <2>3, <2>4, <3>4, <3>5 DEF Bit
    <3> QED
      BY <1>25, <2>1, <2>2, <2>6, <3>2, <3>3, <3>6
  <2>7. CASE i = h
    <3>1. u.count[o] = sc.count[o]
      BY <1>12, <2>5, <2>7
    <3>2. Bit(o \in Uncounted(p) /\ i \notin Uncounted(p) \cup InHand(p)) = 0
      BY <1>22, <2>7 DEF Bit
    <3>3. Owed(p, i) = sc.count[i]
      BY <1>25, <2>3, <2>7
    <3>4. Owed(p, i)' + Bit(o \in Uncounted(p)' /\ i \notin Uncounted(p)' \cup InHand(p)') <= sc.count[i]
      <4>1. Bit(o \in Uncounted(p)' /\ i \notin Uncounted(p)' \cup InHand(p)') \in {0, 1}
        BY BitFacts
      <4>2. CASE u.count[i] > 0
        <5>1. Owed(p, i)' = sc.count[i] - 1
          BY <1>25, <2>4, <2>7, <4>2
        <5> QED
          BY <2>2, <4>1, <5>1
      <4>3. CASE ~(u.count[i] > 0)
        <5>1. n = 0 /\ sc.count[i] = 1
          <6>1. u.count[i] = sc.count[i] - 1
            BY <1>25, <2>7
          <6>2. u.count[i] = n
            BY <1>12, <2>7
          <6>3. u.count[i] \in Nat /\ sc.count[i] \in Nat
            BY <2>2
          <6>4. u.count[i] = 0
            BY <4>3, <6>3
          <6>5. sc.count[i] = 1
            BY <6>1, <6>3, <6>4
          <6> QED
            BY <6>2, <6>4, <6>5
        <5>2. CASE InHand(p)' = {h}
          <6>1. Bit(o \in Uncounted(p)' /\ i \notin Uncounted(p)' \cup InHand(p)') = 0
            BY <2>7, <5>2 DEF Bit
          <6>2. Owed(p, i)' \in {0, 1}
            BY <2>4, <4>3, BitFacts
          <6> QED
            BY <5>1, <6>1, <6>2
        <5>3. CASE InHand(p)' = {} /\ h \in sc.teardown
          <6>1. Owed(p, i)' = 0
            BY <2>4, <2>7, <4>3, <5>3 DEF Bit
          <6> QED
            BY <4>1, <5>1, <6>1
        <5> QED
          BY <1>22, <5>1, <5>2, <5>3
      <4> QED
        BY <4>2, <4>3
    <3>5. Owed(p, i)' \in Nat
      <4>1. Bit(i \in (sc.setup \cup InHand(p)') \ sc.teardown) \in {0, 1}
        BY BitFacts
      <4>2. u.count[i] \in Nat
        BY <2>2
      <4> QED
        BY <2>4, <4>1, <4>2
    <3>6. Bit(o \in Uncounted(p)' /\ i \notin Uncounted(p)' \cup InHand(p)') \in {0, 1}
      BY BitFacts
    <3> QED
      <4>1. sc.count[o] >= sc.count[i] + Outside(o, i)
        BY <2>1, <2>2, <3>2, <3>3
      <4>2. u.count[o] >= sc.count[i] + Outside(o, i)
        BY <3>1, <4>1
      <4>3. PICK a \in Nat : a = Owed(p, i)'
        BY <3>5
      <4>4. PICK b \in {0, 1} :
              b = Bit(o \in Uncounted(p)' /\ i \notin Uncounted(p)' \cup InHand(p)')
        BY <3>6
      <4>5. a + b <= sc.count[i]
        BY <3>4, <4>3, <4>4
      <4>6. PICK x \in Nat, m \in Nat, k \in Nat :
              x = u.count[o] /\ m = sc.count[i] /\ k = Outside(o, i)
        BY <2>2
      <4>7. x >= m + k /\ a + b <= m
        BY <4>2, <4>5, <4>6
      <4>8. x >= a + k + b
        BY <4>7
      <4> QED
        BY <4>3, <4>4, <4>6, <4>8
  <2>8. CASE o # h /\ i # h
    <3>1. u.count[o] = sc.count[o] /\ u.count[i] = sc.count[i]
      BY <1>12, <2>8
    <3>2. i \notin InHand(p) /\ i \notin InHand(p)'
      BY <1>22, <1>23, <2>8
    <3>3. Owed(p, i)' = Owed(p, i)
      BY <2>3, <2>4, <3>1, <3>2 DEF Bit
    <3>4. Bit(o \in Uncounted(p)' /\ i \notin Uncounted(p)' \cup InHand(p)')
            = Bit(o \in Uncounted(p) /\ i \notin Uncounted(p) \cup InHand(p))
      BY <1>22, <2>8, <3>2 DEF Bit
    <3> QED
      BY <2>1, <3>1, <3>3, <3>4
  <2> QED
    BY <2>6, <2>7, <2>8
<1>29. ProcessInv(p)'
  BY <1>19, <1>20, <1>21, <1>26, <1>27, <1>28 DEF ProcessInv
<1> QED
  BY <1>16, <1>17, <1>29, ProcessMoves

-----------------------------------------------------------------------------
LEMMA HooksStart == HooksInit => HooksInv
<1> SUFFICES ASSUME HooksInit PROVE HooksInv
  OBVIOUS
<1>1. ASSUME NEW d PROVE Cardinality(CasesIn(d)) \in Nat /\ IsFiniteSet(CasesIn(d))
  <2>1. IsFiniteSet(CasesIn(d))
    BY HooksAssumption, FS_Subset DEF CasesIn
  <2> QED
    BY <2>1, FS_CardinalityType
<1>2. <<>> \in Seq(Collected)
  BY EmptySeq
<1>3. left = Cases
  BY DEF HooksInit
<1>4. ASSUME NEW p \in Processes
      PROVE  /\ proc[p] \in Procs /\ proc[p].at = "idle" /\ proc[p].hook = "none"
             /\ scope[p] \in Scopes /\ scope[p].setup = {} /\ scope[p].teardown = {}
             /\ \A d \in Collected : scope[p].count[d] = Cardinality(CasesIn(d))
             /\ ran[p] \in [Kinds -> SUBSET Directories] /\ \A k \in Kinds : ran[p][k] = {}
             /\ times[p] \in [Kinds -> [Directories -> Nat]]
             /\ \A k \in Kinds, d \in Directories : times[p][k][d] = 0
  <2>1. proc[p] \in Procs /\ proc[p].at = "idle" /\ proc[p].hook = "none"
    <3>1. PICK e \in Seq(Collected) : e = <<>>
      BY <1>2
    <3>2. proc[p] = [at |-> "idle", case |-> NoCase, todo |-> e, hook |-> "none", cut |-> FALSE]
      BY <3>1 DEF HooksInit
    <3> QED
      BY <3>2, StateNames DEF Procs
  <2>2. PICK f \in [Collected -> Nat] : f = [d \in Collected |-> Cardinality(CasesIn(d))]
    BY <1>1
  <2>3. scope[p] = [setup |-> {}, teardown |-> {}, count |-> f]
    BY <2>2 DEF HooksInit
  <2>4. scope[p] \in Scopes /\ scope[p].setup = {} /\ scope[p].teardown = {}
    BY <2>3 DEF Scopes
  <2>5. \A d \in Collected : scope[p].count[d] = Cardinality(CasesIn(d))
    BY <2>2, <2>3
  <2>6. ran[p] \in [Kinds -> SUBSET Directories] /\ \A k \in Kinds : ran[p][k] = {}
    BY DEF HooksInit
  <2>7. /\ times[p] \in [Kinds -> [Directories -> Nat]]
        /\ \A k \in Kinds, d \in Directories : times[p][k][d] = 0
    BY DEF HooksInit
  <2> QED
    BY <2>1, <2>4, <2>5, <2>6, <2>7
<1>5. TypesInv
  <2>1. /\ proc \in [Processes -> Procs] /\ scope \in [Processes -> Scopes]
    <3>1. DOMAIN proc = Processes /\ proc = [p \in Processes |-> proc[p]]
      BY DEF HooksInit
    <3>2. DOMAIN scope = Processes /\ scope = [p \in Processes |-> scope[p]]
      BY DEF HooksInit
    <3> QED
      BY <1>4, <3>1, <3>2
  <2>2. /\ ran \in [Processes -> [Kinds -> SUBSET Directories]]
        /\ times \in [Processes -> [Kinds -> [Directories -> Nat]]]
    BY DEF HooksInit
  <2> QED
    BY <1>3, <2>1, <2>2 DEF TypesInv
<1>6. ASSUME NEW p \in Processes PROVE ProcessInv(p)
  <2>1. PlaceInv(p) /\ HookInv(p)
    BY <1>4 DEF PlaceInv, PlaceOK, HookInv, HookOK
  <2>2. RanInv(p) /\ TornDownInv(p) /\ OrderInv(p)
    <3>1. "setup" \in Kinds /\ "teardown" \in Kinds
      BY DEF Kinds
    <3>2. RanInv(p)
      BY <1>4, <3>1 DEF RanInv, Bit
    <3> QED
      BY <1>4, <3>1, <3>2 DEF TornDownInv, OrderInv
  <2>3. Uncounted(p) = {} /\ InHand(p) = {}
    BY <1>4 DEF Uncounted, InHand
  <2>4. \A d : Waiting(d) = Cardinality(CasesIn(d))
    <3> TAKE d
    <3>1. CasesIn(d) \cap left = CasesIn(d)
      BY <1>3 DEF CasesIn
    <3> QED
      BY <3>1 DEF Waiting
  <2>5. CountsCases(p)
    <3> SUFFICES ASSUME NEW d \in Collected
                 PROVE  scope[p].count[d] >= Waiting(d) + Bit(d \in Uncounted(p))
      BY DEF CountsCases
    <3>1. Bit(d \in Uncounted(p)) = 0
      BY <2>3 DEF Bit
    <3>2. scope[p].count[d] = Waiting(d) /\ Waiting(d) \in Nat
      BY <1>1, <1>4, <2>4
    <3> QED
      BY <3>1, <3>2
  <2>6. CountsInner(p)
    <3> SUFFICES ASSUME NEW o \in Collected, NEW i \in Collected, Above(o, i)
                 PROVE  scope[p].count[o] >= Owed(p, i) + Outside(o, i)
                          + Bit(o \in Uncounted(p) /\ i \notin Uncounted(p) \cup InHand(p))
      BY DEF CountsInner
    <3>1. Bit(o \in Uncounted(p) /\ i \notin Uncounted(p) \cup InHand(p)) = 0
      BY <2>3 DEF Bit
    <3>2. scope[p].count[i] = Cardinality(CasesIn(i)) /\ scope[p].count[o] = Cardinality(CasesIn(o))
      BY <1>4
    <3>3. Owed(p, i) = Cardinality(CasesIn(i))
      BY <1>1, <1>4, <2>3, <3>2 DEF Owed, Bit
    <3>4. Outside(o, i) = Cardinality(CasesIn(o) \ CasesIn(i))
      <4>1. (CasesIn(o) \ CasesIn(i)) \cap left = CasesIn(o) \ CasesIn(i)
        BY <1>3 DEF CasesIn
      <4> QED
        BY <4>1 DEF Outside
    <3>5. Cardinality(CasesIn(o) \ CasesIn(i)) = Cardinality(CasesIn(o)) - Cardinality(CasesIn(i))
      <4>1. CasesIn(o) \cap CasesIn(i) = CasesIn(i)
        BY AboveFacts
      <4>2. Cardinality(CasesIn(o) \ CasesIn(i)) =
              Cardinality(CasesIn(o)) - Cardinality(CasesIn(o) \cap CasesIn(i))
        BY <1>1, FS_Difference
      <4> QED
        BY <4>1, <4>2
    <3>6. Cardinality(CasesIn(o)) \in Nat /\ Cardinality(CasesIn(i)) \in Nat
      BY <1>1
    <3> QED
      BY <3>1, <3>2, <3>3, <3>4, <3>5, <3>6
  <2> QED
    BY <2>1, <2>2, <2>5, <2>6 DEF ProcessInv
<1> QED
  BY <1>5, <1>6 DEF HooksInv

(* Every step of a process, and the end of the run.                        *)
LEMMA HooksStep == HooksInv /\ [HooksNext]_hooksVars => HooksInv'
<1> SUFFICES ASSUME HooksInv, [HooksNext]_hooksVars PROVE HooksInv'
  OBVIOUS
<1>1. CASE UNCHANGED hooksVars
  <2>1. TypesInv'
    BY <1>1 DEF HooksInv, TypesInv, hooksVars, Procs, Scopes, Collected, CasesIn
  <2>2. ASSUME NEW p \in Processes PROVE ProcessInv(p)'
    BY <1>1, OthersKeep DEF hooksVars
  <2> QED
    BY <2>1, <2>2 DEF HooksInv
<1>2. CASE RunEnded
  BY <1>1, <1>2 DEF RunEnded
<1>3. ASSUME NEW p \in Processes, ProcessStep(p) PROVE HooksInv'
  <2>1. ASSUME NEW c \in Cases, TakeCase(p, c) PROVE HooksInv'
    BY <2>1, TakeCaseStep
  <2>2. CASE LeaveSession(p)
    BY <2>2, LeavingStep
  <2>3. CASE LoopEnds(p)
    BY <2>3, LoopEndsStep
  <2>4. CASE CaseEnds(p)
    BY <2>4, CaseEndsStep
  <2>5. CASE CountDown(p)
    BY <2>5, CountDownStep
  <2>6. CASE SkipSetup(p)
    BY <2>6, SkipSetupStep
  <2>7. CASE PassHook(p)
    BY <2>7, PassHookStep
  <2>8. CASE BeginHook(p)
    BY <2>8, BeginHookStep
  <2>9. CASE EndHook(p)
    BY <2>9, EndHookStep
  <2>10. CASE FailHook(p)
    BY <2>10, FailHookStep
  <2>11. CASE InterruptHook(p)
    BY <2>11, LeavingStep
  <2> QED
    BY <1>3, <2>1, <2>2, <2>3, <2>4, <2>5, <2>6, <2>7, <2>8, <2>9, <2>10, <2>11 DEF ProcessStep
<1> QED
  BY <1>1, <1>2, <1>3 DEF HooksNext

LEMMA HooksInvShows == HooksInv => HooksEncloseCases
<1> SUFFICES ASSUME HooksInv PROVE HooksEncloseCases
  OBVIOUS
<1>1. TypesInv /\ \A p \in Processes : ProcessInv(p)
  BY DEF HooksInv
<1>2. "setup" \in Kinds /\ "teardown" \in Kinds
  BY DEF Kinds
<1>3. Collected \subseteq Directories
  BY DEF Collected
<1>4. HooksTypeOK
  <2> SUFFICES ASSUME NEW p \in Processes
               PROVE  /\ proc[p].at \in {"idle", "setup", "case", "teardown", "finish", "ended"}
                      /\ proc[p].hook \in {"none", "due", "runs"} /\ proc[p].todo \in Seq(Collected)
                      /\ scope[p].setup \cup scope[p].teardown \subseteq Collected
    BY <1>1 DEF HooksTypeOK, TypesInv
  <2>1. proc[p] \in Procs /\ scope[p] \in Scopes
    BY <1>1 DEF TypesInv
  <2>2. scope[p].setup \cup scope[p].teardown \subseteq Collected
    BY <2>1 DEF Scopes
  <2> QED
    BY <2>1, <2>2, ProcFields DEF Places, HookStates
<1>5. CaseInScope
  <2> SUFFICES ASSUME NEW p \in Processes, proc[p].at = "case",
                      NEW d \in ToSet(ChainOf[proc[p].case])
               PROVE  /\ d \in SetupIn => times[p]["setup"][d] = 1
                      /\ d \notin scope[p].teardown /\ times[p]["teardown"][d] = 0
    BY DEF CaseInScope
  <2>1. ProcessInv(p)
    BY <1>1
  <2>2. proc[p].case \in Cases /\ d \in scope[p].setup
    BY <2>1 DEF ProcessInv, PlaceInv, PlaceOK
  <2>3. d \in Collected /\ d \in Directories
    BY <1>3, <2>2, ChainFacts
  <2>4. /\ times[p]["setup"][d] = Bit(d \in ran[p]["setup"])
        /\ times[p]["teardown"][d] = Bit(d \in ran[p]["teardown"])
        /\ d \in SetupIn => d \in ran[p]["setup"]
    BY <1>2, <2>1, <2>2, <2>3 DEF ProcessInv, RanInv
  <2>5. scope[p].count[d] > 0
    <3>1. d \in Uncounted(p)
      BY DEF Uncounted
    <3>2. scope[p].count[d] >= Waiting(d) + Bit(d \in Uncounted(p)) /\ Waiting(d) \in Nat
      BY <1>1, <2>1, <2>3, WaitingFacts DEF ProcessInv, CountsCases, TypesInv
    <3>3. scope[p].count[d] \in Nat
      BY <1>1, <2>3, CountFacts
    <3> QED
      BY <3>1, <3>2, <3>3 DEF Bit
  <2>6. d \notin scope[p].teardown \cup ran[p]["teardown"]
    BY <2>1, <2>3, <2>5 DEF ProcessInv, TornDownInv
  <2> QED
    BY <2>4, <2>6 DEF Bit
<1>6. InnermostFirst
  <2> SUFFICES ASSUME NEW p \in Processes, NEW c \in Cases,
                      NEW i \in DOMAIN ChainOf[c], NEW j \in DOMAIN ChainOf[c], i < j,
                      ChainOf[c][i] \in scope[p].teardown, ChainOf[c][j] \in scope[p].setup
               PROVE  ChainOf[c][j] \in scope[p].teardown
    BY DEF InnermostFirst
  <2>1. Above(ChainOf[c][i], ChainOf[c][j])
    BY DEF Above
  <2>2. ChainOf[c][i] \in Collected /\ ChainOf[c][j] \in Collected
    BY <1>1 DEF TypesInv, Scopes
  <2> QED
    BY <1>1, <2>1, <2>2 DEF ProcessInv, OrderInv
<1>7. OncePerProcess
  <2> SUFFICES ASSUME NEW p \in Processes, NEW k \in Kinds, NEW d \in Directories
               PROVE  times[p][k][d] <= 1
    BY DEF OncePerProcess
  <2>1. times[p][k][d] = Bit(d \in ran[p][k])
    BY <1>1 DEF ProcessInv, RanInv
  <2> QED
    BY <2>1, BitFacts
<1>8. AllClosed
  <2> SUFFICES ASSUME NEW p \in Processes, proc[p].at = "ended", ~proc[p].cut
               PROVE  scope[p].setup \subseteq scope[p].teardown
    BY DEF AllClosed
  <2>1. Collected \subseteq scope[p].teardown
    BY <1>1 DEF ProcessInv, PlaceInv, PlaceOK
  <2>2. scope[p].setup \subseteq Collected
    BY <1>1 DEF TypesInv, Scopes
  <2> QED
    BY <2>1, <2>2
<1> QED
  BY <1>4, <1>5, <1>6, <1>7, <1>8 DEF HooksEncloseCases

(* In every process, whatever hooks fail, however its run ends and whatever *)
(* the other processes take or lock, the setups and teardowns of            *)
(* directories enclose the cases: pytest_runtest_setup,                     *)
(* _close_finished_directories, pytest_sessionfinish, execute_hook_file.    *)
THEOREM HooksAlwaysEnclose == HooksSpec => []HooksEncloseCases
<1>1. HooksInit => HooksInv
  BY HooksStart
<1>2. HooksInv /\ [HooksNext]_hooksVars => HooksInv'
  BY HooksStep
<1>3. HooksInv => HooksEncloseCases
  BY HooksInvShows
<1> QED
  BY <1>1, <1>2, <1>3, PTL DEF HooksSpec

==============================================================================
