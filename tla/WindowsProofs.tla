---------------------------- MODULE WindowsProofs ----------------------------
(***************************************************************************)
(* Proofs about the windows of the application: DefinitionWindows, for any *)
(* number of files and windows and any limit, and Console, for any limits  *)
(* of its buffers and any number of lines and executions.                  *)
(*                                                                         *)
(* Definition windows.  The order of use lists the registered files once   *)
(* each, as a file enters both together and leaves both together; and      *)
(* unless a file was opened again while its window was closing, no two     *)
(* windows have the same file, so a late "closed" event deletes nobody     *)
(* else's entry.                                                           *)
(*                                                                         *)
(* Consoles.  A buffer holds the last of the lines written since it was    *)
(* cleared, and the screen is what renderConsoleBuffer would draw unless a *)
(* frame is to come.  For the log file: the resets on the wire are, in     *)
(* order, those that no answer came to; between a reset that is still      *)
(* awaited and its reply nothing of its console is sent; and a console     *)
(* that exports has no reset on the wire, so what is sent is only ever     *)
(* appended to.                                                            *)
(***************************************************************************)
EXTENDS Console, DefinitionWindows, FiniteSetTheorems, SequenceTheorems,
        WellFoundedInduction, TLAPS

-----------------------------------------------------------------------------
(* Lists without repetitions.                                              *)

NoRepeats(s) == \A i, j \in 1 .. Len(s) : s[i] = s[j] => i = j

LEMMA ToSetFacts ==
  ASSUME NEW S, NEW s \in Seq(S)
  PROVE  /\ ToSet(s) \subseteq S
         /\ \A e : e \in ToSet(s) <=> \E i \in 1 .. Len(s) : s[i] = e
<1>1. DOMAIN s = 1 .. Len(s) /\ \A i \in 1 .. Len(s) : s[i] \in S
  BY LenProperties, ElementOfSeq
<1> QED
  BY <1>1 DEF ToSet

(* A list without repetitions is as long as the set of its elements.       *)
LEMMA ListIsCounted ==
  ASSUME NEW S, NEW s \in Seq(S), NoRepeats(s)
  PROVE  IsFiniteSet(ToSet(s)) /\ Cardinality(ToSet(s)) = Len(s)
<1>1. s \in [1 .. Len(s) -> S] /\ Len(s) \in Nat
  BY LenProperties
<1>2. s \in [1 .. Len(s) -> ToSet(s)]
  BY <1>1, ToSetFacts
<1>3. s \in Injection(1 .. Len(s), ToSet(s))
  BY <1>2 DEF Injection, IsInjective, NoRepeats
<1>4. s \in Surjection(1 .. Len(s), ToSet(s))
  BY <1>2, ToSetFacts DEF Surjection
<1>5. ExistsBijection(1 .. Len(s), ToSet(s))
  BY <1>3, <1>4 DEF ExistsBijection, Bijection
<1> QED
  BY <1>1, <1>5, FS_CountingElements, FS_NatBijection

(* push                                                                    *)
LEMMA AppendToList ==
  ASSUME NEW S, NEW s \in Seq(S), NoRepeats(s), NEW e \in S, e \notin ToSet(s)
  PROVE  /\ Append(s, e) \in Seq(S) /\ NoRepeats(Append(s, e))
         /\ Len(Append(s, e)) = Len(s) + 1
         /\ ToSet(Append(s, e)) = ToSet(s) \cup {e}
<1>1. /\ Append(s, e) \in Seq(S) /\ Len(s) \in Nat
      /\ Len(Append(s, e)) = Len(s) + 1
      /\ \A i \in 1 .. Len(s) : Append(s, e)[i] = s[i]
      /\ Append(s, e)[Len(s) + 1] = e
  BY LenProperties
<1>2. PICK n \in Nat : n = Len(s)
  BY <1>1
<1>3. \A i \in 1 .. n : s[i] # e
  BY <1>2, ToSetFacts
<1>4. NoRepeats(Append(s, e))
  BY <1>1, <1>2, <1>3 DEF NoRepeats
<1>5. ASSUME NEW x PROVE x \in ToSet(Append(s, e)) <=> x \in ToSet(s) \cup {e}
  <2>1. x \in ToSet(Append(s, e)) <=> \E i \in 1 .. n + 1 : Append(s, e)[i] = x
    <3>1. PICK a \in Seq(S) : a = Append(s, e)
      BY <1>1
    <3>2. x \in ToSet(a) <=> \E i \in 1 .. Len(a) : a[i] = x
      BY ToSetFacts
    <3>3. Len(a) = n + 1
      BY <1>1, <1>2, <3>1
    <3> QED
      BY <3>1, <3>2, <3>3
  <2>2. x \in ToSet(s) <=> \E i \in 1 .. n : s[i] = x
    BY <1>2, ToSetFacts
  <2> QED
    BY <1>1, <1>2, <2>1, <2>2
<1> QED
  BY <1>1, <1>4, <1>5

(* shift                                                                   *)
LEMMA TailOfList ==
  ASSUME NEW S, NEW s \in Seq(S), NoRepeats(s), s # <<>>
  PROVE  /\ Head(s) \in ToSet(s)
         /\ Tail(s) \in Seq(S) /\ NoRepeats(Tail(s))
         /\ Len(Tail(s)) = Len(s) - 1
         /\ ToSet(Tail(s)) = ToSet(s) \ {Head(s)}
<1>1. /\ Tail(s) \in Seq(S) /\ Len(s) \in Nat \ {0}
      /\ Len(Tail(s)) = Len(s) - 1
      /\ \A i \in 1 .. Len(Tail(s)) : Tail(s)[i] = s[i + 1]
      /\ Head(s) = s[1]
  BY HeadTailProperties, EmptySeq, LenProperties
<1>2. PICK n \in Nat \ {0} : n = Len(s)
  BY <1>1
<1>3. NoRepeats(Tail(s))
  BY <1>1, <1>2 DEF NoRepeats
<1>4. \A i \in 1 .. n : s[i] = s[1] => i = 1
  BY <1>2 DEF NoRepeats
<1>5. ASSUME NEW x PROVE x \in ToSet(Tail(s)) <=> x \in ToSet(s) \ {Head(s)}
  <2>1. x \in ToSet(Tail(s)) <=> \E i \in 1 .. n - 1 : Tail(s)[i] = x
    <3>1. PICK t \in Seq(S) : t = Tail(s)
      BY <1>1
    <3>2. x \in ToSet(t) <=> \E i \in 1 .. Len(t) : t[i] = x
      BY <3>1, ToSetFacts, Zenon
    <3> QED
      BY <1>1, <1>2, <3>1, <3>2
  <2>2. x \in ToSet(s) <=> \E i \in 1 .. n : s[i] = x
    BY <1>2, ToSetFacts
  <2>3. ASSUME NEW i \in 1 .. n - 1, Tail(s)[i] = x PROVE x \in ToSet(s) /\ x # s[1]
    <3>1. i + 1 \in 1 .. n /\ s[i + 1] = x /\ i + 1 # 1
      BY <2>3, <1>1, <1>2
    <3> QED
      BY <3>1, <2>2, <1>4
  <2>4. ASSUME NEW i \in 1 .. n, s[i] = x, x # s[1]
        PROVE  \E j \in 1 .. n - 1 : Tail(s)[j] = x
    <3>1. i - 1 \in 1 .. n - 1 /\ (i - 1) + 1 = i
      BY <2>4
    <3>2. Tail(s)[i - 1] = s[i]
      BY <3>1, <1>1, <1>2
    <3> QED
      BY <3>1, <3>2, <2>4
  <2> QED
    BY <1>1, <2>1, <2>2, <2>3, <2>4
<1>6. Head(s) \in ToSet(s)
  BY <1>1, <1>2, ToSetFacts
<1> QED
  BY <1>1, <1>3, <1>5, <1>6

(* splice of one position                                                  *)
LEMMA SpliceOfList ==
  ASSUME NEW S, NEW s \in Seq(S), NoRepeats(s), NEW i \in 1 .. Len(s)
  PROVE  /\ Without(s, i) \in Seq(S) /\ NoRepeats(Without(s, i))
         /\ Len(Without(s, i)) = Len(s) - 1
         /\ ToSet(Without(s, i)) = ToSet(s) \ {s[i]}
<1>0. PICK r : r = Without(s, i)
  OBVIOUS
<1>1. PICK n \in Nat \ {0} : n = Len(s)
  BY LenProperties
<1>2. /\ i \in 1 .. n /\ DOMAIN r = 1 .. n - 1
      /\ \A j \in 1 .. n - 1 : r[j] = IF j < i THEN s[j] ELSE s[j + 1]
  BY <1>0, <1>1 DEF Without
<1>3. \A j \in 1 .. n : s[j] \in S
  BY <1>1, ElementOfSeq
<1>4. \A j \in 1 .. n - 1 : r[j] \in S
  BY <1>2, <1>3
<1>5. r \in [1 .. n - 1 -> S] /\ n - 1 \in Nat
  BY <1>0, <1>1, <1>2, <1>4 DEF Without
<1>6. r \in Seq(S)
  <2>1. PICK m \in Nat : m = n - 1 /\ r \in [1 .. m -> S]
    BY <1>5
  <2> QED
    BY <2>1, SeqDef
<1>7. Len(r) = n - 1
  BY <1>2, <1>5, <1>6, LenProperties
<1>8. NoRepeats(r)
  <2> SUFFICES ASSUME NEW a \in 1 .. n - 1, NEW b \in 1 .. n - 1, r[a] = r[b]
               PROVE  a = b
    BY <1>7 DEF NoRepeats
  <2>1. PICK x \in 1 .. n : r[a] = s[x] /\ x = IF a < i THEN a ELSE a + 1
    BY <1>2
  <2>2. PICK y \in 1 .. n : r[b] = s[y] /\ y = IF b < i THEN b ELSE b + 1
    BY <1>2
  <2>3. x = y
    BY <2>1, <2>2, <1>1 DEF NoRepeats
  <2> QED
    BY <2>1, <2>2, <2>3, <1>2
<1>9. ASSUME NEW x PROVE x \in ToSet(r) <=> x \in ToSet(s) \ {s[i]}
  <2>1. x \in ToSet(r) <=> \E j \in 1 .. n - 1 : r[j] = x
    <3>1. \A t \in Seq(S) : x \in ToSet(t) <=> \E j \in 1 .. Len(t) : t[j] = x
      <4> TAKE t \in Seq(S)
      <4> QED
        BY ToSetFacts
    <3>2. x \in ToSet(r) <=> \E j \in 1 .. Len(r) : r[j] = x
      BY <1>6, <3>1, Zenon
    <3> QED
      BY <1>7, <3>2
  <2>2. x \in ToSet(s) <=> \E j \in 1 .. n : s[j] = x
    BY <1>1, ToSetFacts
  <2>3. ASSUME NEW j \in 1 .. n - 1, r[j] = x PROVE x \in ToSet(s) /\ x # s[i]
    <3>1. PICK k \in 1 .. n : s[k] = x /\ k # i
      BY <2>3, <1>2
    <3> QED
      BY <3>1, <2>2, <1>1 DEF NoRepeats
  <2>4. ASSUME NEW k \in 1 .. n, s[k] = x, x # s[i]
        PROVE  \E j \in 1 .. n - 1 : r[j] = x
    <3>1. CASE k < i
      BY <3>1, <2>4, <1>2
    <3>2. CASE k > i
      <4>1. k - 1 \in 1 .. n - 1 /\ ~(k - 1 < i) /\ (k - 1) + 1 = k
        BY <3>2, <1>2
      <4>2. r[k - 1] = s[k]
        BY <4>1, <1>2
      <4> QED
        BY <4>1, <4>2, <2>4
    <3>3. k < i \/ k > i
      <4>1. k # i
        BY <2>4
      <4> QED
        BY <4>1, <1>1, <1>2
    <3> QED
      BY <3>1, <3>2, <3>3
  <2> QED
    BY <2>1, <2>2, <2>3, <2>4
<1> QED
  BY <1>0, <1>1, <1>6, <1>7, <1>8, <1>9

-----------------------------------------------------------------------------
(* The inductive invariant.                                                *)

Children ==
  {Absent} \cup [at : {"closing"}, file : SourceFiles]
           \cup [at : {"loading", "open"}, file : SourceFiles,
                 first : SourceLines \cup {Nothing}, asked : SourceLines,
                 shown : SourceLines \cup {Nothing}, early : BOOLEAN]

TypesInv ==
  /\ child \in [Windows -> Children]
  /\ byFile \in [SourceFiles -> Windows \cup {Nothing}]
  /\ recency \in Seq(SourceFiles) /\ reopened \in BOOLEAN

(* The order of use lists the registered files once.                       *)
ListInv ==
  /\ NoRepeats(recency) /\ ToSet(recency) = Registered(byFile)
  /\ Len(recency) <= MaxDefinitionWindows

(* A registered window exists and has the file it is registered for.       *)
RegisteredInv ==
  \A f \in SourceFiles : byFile[f] # Nothing =>
    child[byFile[f]] # Absent /\ child[byFile[f]].file = f

(* Unless a file was opened again too early, no other window than the one  *)
(* that is registered has its file, and one on the screen is registered.   *)
FoundInv ==
  ~reopened => \A w \in Windows : child[w] # Absent =>
    /\ byFile[child[w].file] \in {w, Nothing}
    /\ Alive(w) => byFile[child[w].file] = w

(* What a loading window will show first is what it was asked for, unless  *)
(* it was asked for something else since.                                  *)
ShownInv ==
  \A w \in Windows : Alive(w) /\ ~child[w].early =>
    child[w].asked = IF child[w].at = "open" THEN child[w].shown ELSE child[w].first

WindowsInv == TypesInv /\ ListInv /\ RegisteredInv /\ FoundInv /\ ShownInv

-----------------------------------------------------------------------------
(* What a step may make of a window.                                       *)

LEMMA ChildFacts ==
  ASSUME NEW c \in Children
  PROVE  /\ c = Absent <=> c.at = "absent"
         /\ c # Absent => c.file \in SourceFiles /\ c.at \in {"loading", "open", "closing"}
  BY DEF Children, Absent

LEMMA ClosingFacts ==
  ASSUME NEW c \in Children, c # Absent
  PROVE  /\ Closing(c) \in Children /\ Closing(c) # Absent
         /\ Closing(c).at = "closing" /\ Closing(c).file = c.file
<1>1. c.file \in SourceFiles
  BY ChildFacts
<1> QED
  BY <1>1 DEF Closing, Children, Absent

LEMMA JumpFacts ==
  ASSUME NEW c \in Children, c # Absent, NEW line \in SourceLines
  PROVE  /\ JumpTo(c, line) \in Children /\ JumpTo(c, line) # Absent
         /\ JumpTo(c, line).at = c.at /\ JumpTo(c, line).file = c.file
         /\ c.at = "loading" => JumpTo(c, line).early
         /\ c.at = "open" => JumpTo(c, line).asked = JumpTo(c, line).shown
<1>1. CASE c.at = "closing"
  BY <1>1 DEF JumpTo
<1>2. CASE c.at # "closing"
  <2>1. c \in [at : {"loading", "open"}, file : SourceFiles,
               first : SourceLines \cup {Nothing}, asked : SourceLines,
               shown : SourceLines \cup {Nothing}, early : BOOLEAN]
    BY <1>2 DEF Children, Absent
  <2>2. PICK d : d = JumpTo(c, line)
    OBVIOUS
  <2>3. d = [c EXCEPT !.asked = line,
                      !.shown = IF c.at = "open" THEN line ELSE c.shown,
                      !.early = (c.early \/ c.at = "loading")]
    BY <1>2, <2>2 DEF JumpTo
  <2>4. d \in [at : {"loading", "open"}, file : SourceFiles,
               first : SourceLines \cup {Nothing}, asked : SourceLines,
               shown : SourceLines \cup {Nothing}, early : BOOLEAN]
    BY <2>1, <2>3
  <2>5. /\ d.at = c.at /\ d.file = c.file
        /\ c.at = "loading" => d.early
        /\ c.at = "open" => d.asked = d.shown
    BY <2>1, <2>3
  <2>6. d \in Children /\ d # Absent
    BY <2>4 DEF Children, Absent
  <2> QED
    BY <2>2, <2>5, <2>6
<1> QED
  BY <1>1, <1>2

(* Nothing is no window.                                                   *)
LEMMA NothingIsNoWindow == Nothing \notin Windows /\ Nothing \notin SourceLines
  BY WindowsAssumption DEF Windows

(* A step of one window that leaves its file as it was.                    *)
LEMMA OneWindowMoves ==
  ASSUME WindowsInv, NEW w \in Windows, child[w] # Absent, NEW d \in Children,
         d # Absent, d.file = child[w].file,
         d.at \in {"loading", "open"} => Alive(w),
         d.at \in {"loading", "open"} /\ ~d.early =>
           d.asked = IF d.at = "open" THEN d.shown ELSE d.first,
         child' = [child EXCEPT ![w] = d],
         UNCHANGED <<byFile, recency, reopened>>
  PROVE  WindowsInv'
<1>1. /\ child' \in [Windows -> Children]
      /\ child'[w] = d /\ \A v \in Windows \ {w} : child'[v] = child[v]
  BY DEF WindowsInv, TypesInv
<1>2. TypesInv'
  BY <1>1 DEF WindowsInv, TypesInv
<1>3. ListInv'
  BY DEF WindowsInv, ListInv, Registered
<1>4. RegisteredInv'
  BY <1>1, NothingIsNoWindow DEF WindowsInv, TypesInv, RegisteredInv
<1>5. FoundInv'
  BY <1>1 DEF WindowsInv, FoundInv, Alive
<1>6. ShownInv'
  BY <1>1 DEF WindowsInv, ShownInv, Alive
<1> QED
  BY <1>2, <1>3, <1>4, <1>5, <1>6 DEF WindowsInv

-----------------------------------------------------------------------------
(* One lemma per action.                                                   *)

LEMMA ReuseKeeps ==
  ASSUME WindowsInv, NEW f \in SourceFiles, NEW line \in SourceLines, ReuseWindow(f, line)
  PROVE  WindowsInv'
<1>1. byFile[f] \in Windows /\ child[byFile[f]] # Absent
  BY DEF WindowsInv, TypesInv, RegisteredInv, ReuseWindow
<1>2. PICK w \in Windows : w = byFile[f]
  BY <1>1
<1>3. PICK c \in Children : c = child[w]
  BY DEF WindowsInv, TypesInv
<1>4. PICK d \in Children : d = JumpTo(c, line) /\ d # Absent
  BY <1>1, <1>2, <1>3, JumpFacts
<1>5. /\ d.at = c.at /\ d.file = c.file
      /\ c.at = "loading" => d.early
      /\ c.at = "open" => d.asked = d.shown
  BY <1>1, <1>2, <1>3, <1>4, JumpFacts
<1>6. child' = [child EXCEPT ![w] = d] /\ UNCHANGED <<byFile, recency, reopened>>
  BY <1>2, <1>3, <1>4 DEF ReuseWindow
<1>7. d.at \in {"loading", "open"} => Alive(w)
  BY <1>3, <1>5 DEF Alive
<1>8. d.at \in {"loading", "open"} /\ ~d.early =>
        d.asked = IF d.at = "open" THEN d.shown ELSE d.first
  BY <1>5
<1> QED
  BY <1>1, <1>2, <1>3, <1>4, <1>5, <1>6, <1>7, <1>8, OneWindowMoves

LEMMA FinishKeeps ==
  ASSUME WindowsInv, NEW w \in Windows, FinishLoad(w)
  PROVE  WindowsInv'
<1>1. PICK c \in Children : c = child[w] /\ c.at = "loading"
  BY DEF WindowsInv, TypesInv, FinishLoad
<1>2. c \in [at : {"loading", "open"}, file : SourceFiles,
             first : SourceLines \cup {Nothing}, asked : SourceLines,
             shown : SourceLines \cup {Nothing}, early : BOOLEAN]
  BY <1>1 DEF Children, Absent
<1>3. PICK d : d = [c EXCEPT !.at = "open", !.shown = c.first, !.first = Nothing]
  OBVIOUS
<1>4. /\ d \in [at : {"loading", "open"}, file : SourceFiles,
                first : SourceLines \cup {Nothing}, asked : SourceLines,
                shown : SourceLines \cup {Nothing}, early : BOOLEAN]
      /\ d.at = "open" /\ d.file = c.file /\ d.shown = c.first
      /\ d.asked = c.asked /\ d.early = c.early
  BY <1>2, <1>3
<1>5. d \in Children /\ d # Absent
  BY <1>4 DEF Children, Absent
<1>6. child' = [child EXCEPT ![w] = d] /\ UNCHANGED <<byFile, recency, reopened>>
  <2>1. child \in [Windows -> Children]
    BY DEF WindowsInv, TypesInv
  <2> QED
    BY <2>1, <1>1, <1>2, <1>3 DEF FinishLoad
<1>7. Alive(w) /\ child[w] # Absent
  BY <1>1 DEF Alive, Absent
<1>8. ~d.early => d.asked = d.shown
  BY <1>1, <1>4, <1>7 DEF WindowsInv, ShownInv
<1> QED
  BY <1>1, <1>4, <1>5, <1>6, <1>7, <1>8, OneWindowMoves

LEMMA CloseKeeps ==
  ASSUME WindowsInv, NEW w \in Windows, CloseDefinitionWindow(w)
  PROVE  WindowsInv'
<1>1. child[w] \in Children /\ Alive(w)
  BY DEF WindowsInv, TypesInv, CloseDefinitionWindow
<1>2. child[w] # Absent
  BY <1>1 DEF Alive, Absent
<1>3. PICK d \in Children : /\ d = Closing(child[w]) /\ d # Absent
                            /\ d.at = "closing" /\ d.file = child[w].file
  BY <1>1, <1>2, ClosingFacts
<1>4. child' = [child EXCEPT ![w] = d] /\ UNCHANGED <<byFile, recency, reopened>>
  BY <1>3 DEF CloseDefinitionWindow
<1> QED
  BY <1>2, <1>3, <1>4, OneWindowMoves

LEMMA ClosedKeeps ==
  ASSUME WindowsInv, NEW w \in Windows, Closed(w)
  PROVE  WindowsInv'
<1>1. child[w] \in Children /\ child[w] # Absent
  BY DEF WindowsInv, TypesInv, Closed, Absent
<1>2. PICK f \in SourceFiles : f = child[w].file
  BY <1>1, ChildFacts
<1>3. /\ child' \in [Windows -> Children]
      /\ child'[w] = Absent /\ \A v \in Windows \ {w} : child'[v] = child[v]
  <2>1. Absent \in Children
    BY DEF Children
  <2> QED
    BY <2>1 DEF WindowsInv, TypesInv, Closed
<1>4. /\ byFile' \in [SourceFiles -> Windows \cup {Nothing}]
      /\ byFile'[f] = Nothing /\ \A g \in SourceFiles \ {f} : byFile'[g] = byFile[g]
  BY <1>2 DEF WindowsInv, TypesInv, Closed, Deregister
<1>5. Registered(byFile)' = Registered(byFile) \ {f}
  BY <1>4 DEF Registered
<1>6. recency' \in Seq(SourceFiles) /\ ListInv'
  <2>1. recency \in Seq(SourceFiles) /\ NoRepeats(recency)
        /\ ToSet(recency) = Registered(byFile)
        /\ Len(recency) \in Nat /\ Len(recency) <= MaxDefinitionWindows
    BY LenProperties DEF WindowsInv, TypesInv, ListInv
  <2>2. Splice(f)
    BY <1>2 DEF Closed, Deregister
  <2>3. CASE f \notin ToSet(recency) /\ recency' = recency
    BY <2>1, <2>3, <1>5 DEF ListInv
  <2>4. ASSUME NEW i \in 1 .. Len(recency), recency[i] = f,
               recency' = Without(recency, i)
        PROVE  recency' \in Seq(SourceFiles) /\ ListInv'
    <3>1. /\ recency' \in Seq(SourceFiles) /\ NoRepeats(recency')
          /\ Len(recency') = Len(recency) - 1
          /\ ToSet(recency') = ToSet(recency) \ {f}
      BY <2>1, <2>4, SpliceOfList
    <3>2. Len(recency') <= MaxDefinitionWindows
      BY <3>1, <2>1, WindowsAssumption
    <3> QED
      BY <3>1, <3>2, <2>1, <1>5 DEF ListInv
  <2> QED
    BY <2>2, <2>3, <2>4 DEF Splice
<1>7. TypesInv'
  BY <1>3, <1>4, <1>6 DEF WindowsInv, TypesInv, Closed
<1>8. RegisteredInv'
  <2> SUFFICES ASSUME NEW g \in SourceFiles, byFile'[g] # Nothing
               PROVE  child'[byFile'[g]] # Absent /\ child'[byFile'[g]].file = g
    BY DEF RegisteredInv
  <2>1. g # f /\ byFile'[g] = byFile[g] /\ byFile[g] \in Windows
    BY <1>4 DEF WindowsInv, TypesInv
  <2>2. child[byFile[g]] # Absent /\ child[byFile[g]].file = g
    BY <2>1, <1>4 DEF WindowsInv, RegisteredInv
  <2> QED
    BY <2>1, <2>2, <1>2, <1>3
<1>9. FoundInv'
  <2> SUFFICES ASSUME ~reopened, NEW v \in Windows, child'[v] # Absent
               PROVE  /\ byFile'[child'[v].file] \in {v, Nothing}
                      /\ Alive(v)' => byFile'[child'[v].file] = v
    BY DEF FoundInv, Closed
  <2>1. v # w /\ child'[v] = child[v] /\ child[v] # Absent
    BY <1>3
  <2>2. child[v].file \in SourceFiles
    BY <2>1, ChildFacts DEF WindowsInv, TypesInv
  <2>3. /\ byFile[child[v].file] \in {v, Nothing} /\ byFile[f] \in {w, Nothing}
        /\ Alive(v) => byFile[child[v].file] = v
    BY <2>1, <1>1, <1>2 DEF WindowsInv, FoundInv
  <2>4. Alive(v)' <=> Alive(v)
    BY <2>1 DEF Alive
  <2> QED
    BY <2>1, <2>2, <2>3, <2>4, <1>4, NothingIsNoWindow
<1>10. ShownInv'
  <2>1. ~Alive(w)'
    BY <1>3 DEF Alive, Absent
  <2> QED
    BY <2>1, <1>3 DEF WindowsInv, ShownInv, Alive
<1> QED
  BY <1>6, <1>7, <1>8, <1>9, <1>10 DEF WindowsInv

LEMMA CloseAllKeeps ==
  ASSUME WindowsInv, CloseAllDefinitionWindows
  PROVE  WindowsInv'
<1>1. ASSUME NEW w \in Windows
      PROVE  /\ child'[w] \in Children
             /\ child[w] = Absent => child'[w] = Absent
             /\ child[w] # Absent => child'[w].file = child[w].file
             /\ child'[w] = child[w] \/ child'[w].at = "closing"
             /\ \A f \in SourceFiles : byFile[f] = w => child'[w].at = "closing"
  <2>1. child[w] \in Children
    BY DEF WindowsInv, TypesInv
  <2>2. CASE \E f \in SourceFiles : byFile[f] = w
    <3>1. child[w] # Absent
      BY <2>2, NothingIsNoWindow DEF WindowsInv, RegisteredInv
    <3>2. child'[w] = Closing(child[w])
      BY <2>2 DEF CloseAllDefinitionWindows
    <3> QED
      BY <2>1, <3>1, <3>2, ClosingFacts
  <2>3. CASE ~\E f \in SourceFiles : byFile[f] = w
    BY <2>1, <2>3 DEF CloseAllDefinitionWindows
  <2> QED
    BY <2>2, <2>3
<1>2. /\ byFile' = [f \in SourceFiles |-> Nothing] /\ recency' = <<>>
      /\ reopened' = reopened
  BY DEF CloseAllDefinitionWindows
<1>3. child' \in [Windows -> Children]
  BY <1>1 DEF CloseAllDefinitionWindows
<1>4. TypesInv'
  BY <1>2, <1>3, EmptySeq DEF WindowsInv, TypesInv
<1>5. ListInv'
  <2>1. Len(recency') = 0 /\ ToSet(recency') = {} /\ NoRepeats(recency')
    BY <1>2, EmptySeq DEF ToSet, NoRepeats
  <2>2. Registered(byFile)' = {}
    BY <1>2 DEF Registered
  <2> QED
    BY <2>1, <2>2, WindowsAssumption DEF ListInv
<1>6. RegisteredInv'
  BY <1>2 DEF RegisteredInv
<1>7. FoundInv'
  <2> SUFFICES ASSUME ~reopened, NEW w \in Windows, child'[w] # Absent
               PROVE  /\ byFile'[child'[w].file] = Nothing
                      /\ ~Alive(w)'
    BY <1>2 DEF FoundInv
  <2>1. child[w] # Absent /\ child'[w].file = child[w].file
    BY <1>1
  <2>2. child[w].file \in SourceFiles
    BY <2>1, ChildFacts DEF WindowsInv, TypesInv
  <2>3. Alive(w) => byFile[child[w].file] = w
    BY <2>1 DEF WindowsInv, FoundInv
  <2>4. ~Alive(w)'
    BY <2>2, <2>3, <1>1 DEF Alive
  <2> QED
    BY <1>2, <2>1, <2>2, <2>4
<1>8. ShownInv'
  BY <1>1 DEF WindowsInv, ShownInv, Alive
<1> QED
  BY <1>4, <1>5, <1>6, <1>7, <1>8 DEF WindowsInv

LEMMA NewWindowKeeps ==
  ASSUME WindowsInv, NEW w \in Windows, NEW f \in SourceFiles, NEW line \in SourceLines,
         NewWindow(w, f, line)
  PROVE  WindowsInv'
<1>1. /\ byFile[f] = Nothing /\ child[w] = Absent
      /\ reopened' = (reopened \/ \E v \in Windows :
                        child[v].at = "closing" /\ child[v].file = f)
  BY DEF NewWindow
<1>2. /\ recency \in Seq(SourceFiles) /\ NoRepeats(recency)
      /\ ToSet(recency) = Registered(byFile)
      /\ Len(recency) \in Nat /\ Len(recency) <= MaxDefinitionWindows
  BY LenProperties DEF WindowsInv, TypesInv, ListInv
(* Room is made exactly when there is none.                                *)
<1>3. /\ Evicted = {} => Len(recency) < MaxDefinitionWindows
      /\ Evicted # {} => recency # <<>> /\ Evicted = {Head(recency)}
  <2>1. Cardinality(Registered(byFile)) = Len(recency)
    BY <1>2, ListIsCounted
  <2>2. recency = <<>> => Len(recency) = 0
    BY EmptySeq
  <2> QED
    BY <2>1, <2>2, <1>2, WindowsAssumption DEF Evicted
<1>4. Evicted \subseteq Registered(byFile) /\ f \notin Registered(byFile)
  <2>1. f \notin Registered(byFile)
    BY <1>1 DEF Registered
  <2>2. CASE Evicted = {}
    BY <2>1, <2>2
  <2>3. CASE Evicted # {}
    BY <2>1, <2>3, <1>2, <1>3, TailOfList
  <2> QED
    BY <2>2, <2>3
<1>5. /\ byFile' \in [SourceFiles -> Windows \cup {Nothing}]
      /\ byFile'[f] = w
      /\ \A g \in SourceFiles \ {f} :
           byFile'[g] = IF g \in Evicted THEN Nothing ELSE byFile[g]
  BY DEF WindowsInv, TypesInv, NewWindow
<1>6. Registered(byFile)' = (Registered(byFile) \ Evicted) \cup {f}
  <2>1. w # Nothing
    BY NothingIsNoWindow
  <2> QED
    BY <2>1, <1>4, <1>5 DEF Registered
<1>7. recency' \in Seq(SourceFiles) /\ ListInv'
  <2>1. PICK s \in Seq(SourceFiles) :
          /\ s = IF Evicted = {} THEN recency ELSE Tail(recency)
          /\ NoRepeats(s) /\ ToSet(s) = Registered(byFile) \ Evicted
          /\ Len(s) \in Nat /\ Len(s) < MaxDefinitionWindows
    <3>1. CASE Evicted = {}
      BY <3>1, <1>2, <1>3
    <3>2. CASE Evicted # {}
      <4>1. /\ Tail(recency) \in Seq(SourceFiles) /\ NoRepeats(Tail(recency))
            /\ Len(Tail(recency)) = Len(recency) - 1
            /\ ToSet(Tail(recency)) = ToSet(recency) \ {Head(recency)}
        BY <3>2, <1>2, <1>3, TailOfList
      <4>2. Len(Tail(recency)) \in Nat /\ Len(Tail(recency)) < MaxDefinitionWindows
        BY <4>1, <1>2, LenProperties, WindowsAssumption
      <4> QED
        BY <3>2, <4>1, <4>2, <1>2, <1>3
    <3> QED
      BY <3>1, <3>2
  <2>2. f \notin ToSet(s)
    BY <2>1, <1>4
  <2>3. /\ Append(s, f) \in Seq(SourceFiles) /\ NoRepeats(Append(s, f))
        /\ Len(Append(s, f)) = Len(s) + 1
        /\ ToSet(Append(s, f)) = ToSet(s) \cup {f}
    <3>1. NoRepeats(s) /\ f \notin ToSet(s)
      BY <2>1, <2>2
    <3> HIDE <2>1
    <3> QED
      BY <3>1, AppendToList
  <2>4. recency' = Append(s, f)
    BY <2>1 DEF NewWindow
  <2>5. Len(Append(s, f)) <= MaxDefinitionWindows
    BY <2>1, <2>3, WindowsAssumption
  <2> QED
    BY <2>1, <2>3, <2>4, <2>5, <1>6 DEF ListInv
(* The new window, and what becomes of the others.                         *)
<1>8. PICK c \in Children :
        /\ c.at = "loading" /\ c.file = f /\ c.first = line /\ c.asked = line
        /\ c # Absent /\ child'[w] = c
  <2>1. PICK c : c = [at |-> "loading", file |-> f, first |-> line, asked |-> line,
                      shown |-> Nothing, early |-> FALSE]
    OBVIOUS
  <2>2. c \in [at : {"loading", "open"}, file : SourceFiles,
               first : SourceLines \cup {Nothing}, asked : SourceLines,
               shown : SourceLines \cup {Nothing}, early : BOOLEAN]
    BY <2>1
  <2>3. c.at = "loading" /\ c.file = f /\ c.first = line /\ c.asked = line
    BY <2>1
  <2>4. c \in Children /\ c # Absent
    BY <2>2 DEF Children, Absent
  <2>5. child'[w] = c
    BY <2>1 DEF NewWindow
  <2> QED
    BY <2>3, <2>4, <2>5
<1>9. child'[w] = c
  BY <1>8
<1>10. ASSUME NEW v \in Windows \ {w}
       PROVE  /\ child'[v] \in Children
              /\ child'[v] = Absent <=> child[v] = Absent
              /\ child[v] # Absent => child'[v].file = child[v].file
              /\ child'[v] = child[v] \/ child'[v].at = "closing"
              /\ \A e \in Evicted : byFile[e] = v => child'[v].at = "closing"
  <2>1. child[v] \in Children
    BY DEF WindowsInv, TypesInv
  <2>2. CASE \E e \in Evicted : v = byFile[e]
    <3>1. child[v] # Absent
      <4>1. PICK e \in SourceFiles : v = byFile[e] /\ byFile[e] # Nothing
        BY <2>2, <1>4 DEF Registered
      <4> QED
        BY <4>1 DEF WindowsInv, RegisteredInv
    <3>2. child'[v] = Closing(child[v])
      BY <2>2 DEF NewWindow
    <3> QED
      BY <2>1, <3>1, <3>2, ClosingFacts
  <2>3. CASE ~\E e \in Evicted : v = byFile[e]
    BY <2>1, <2>3 DEF NewWindow
  <2> QED
    BY <2>2, <2>3
<1>11. child' \in [Windows -> Children]
  BY <1>9, <1>10 DEF NewWindow
<1>12. TypesInv'
  BY <1>1, <1>5, <1>7, <1>11 DEF WindowsInv, TypesInv
<1>13. RegisteredInv'
  <2> SUFFICES ASSUME NEW g \in SourceFiles, byFile'[g] # Nothing
               PROVE  child'[byFile'[g]] # Absent /\ child'[byFile'[g]].file = g
    BY DEF RegisteredInv
  <2>1. CASE g = f
    BY <2>1, <1>5, <1>8, <1>9
  <2>2. CASE g # f
    <3>1. byFile'[g] = byFile[g] /\ byFile[g] # Nothing
      BY <2>2, <1>5
    <3>2. child[byFile[g]] # Absent /\ child[byFile[g]].file = g /\ byFile[g] \in Windows
      BY <3>1 DEF WindowsInv, TypesInv, RegisteredInv
    <3>3. byFile[g] # w
      BY <3>2, <1>1
    <3> QED
      BY <3>1, <3>2, <3>3, <1>10
  <2> QED
    BY <2>1, <2>2
<1>14. FoundInv'
  <2> SUFFICES ASSUME ~reopened', NEW v \in Windows, child'[v] # Absent
               PROVE  /\ byFile'[child'[v].file] \in {v, Nothing}
                      /\ Alive(v)' => byFile'[child'[v].file] = v
    BY DEF FoundInv
  <2>1. CASE v = w
    BY <2>1, <1>5, <1>8, <1>9
  <2>2. CASE v # w
    <3>1. child[v] # Absent /\ child[v] \in Children /\ child'[v].file = child[v].file
      BY <2>2, <1>10 DEF WindowsInv, TypesInv
    <3>2. PICK g \in SourceFiles : g = child[v].file
      BY <3>1, ChildFacts
    <3>3. ~reopened /\ ~(child[v].at = "closing" /\ g = f)
      BY <1>1, <3>2
    <3>4. /\ byFile[g] \in {v, Nothing}
          /\ Alive(v) => byFile[g] = v
      BY <3>1, <3>2, <3>3 DEF WindowsInv, FoundInv
    (* Another window of the same file would be on the screen and found.   *)
    <3>5. g # f
      <4>1. child[v].at # "closing" => Alive(v)
        BY <3>1, ChildFacts DEF Alive
      <4> QED
        BY <4>1, <3>3, <3>4, <1>1, NothingIsNoWindow
    <3>6. byFile'[g] = IF g \in Evicted THEN Nothing ELSE byFile[g]
      BY <3>5, <1>5
    <3>7. Alive(v)' => Alive(v) /\ g \notin Evicted
      <4>1. Alive(v)' => child'[v] = child[v] /\ child'[v].at # "closing"
        BY <2>2, <1>10 DEF Alive
      <4>2. ASSUME Alive(v)' PROVE Alive(v)
        BY <4>1, <4>2 DEF Alive
      <4>3. ASSUME Alive(v)', g \in Evicted PROVE FALSE
        BY <4>1, <4>2, <4>3, <3>4, <2>2, <1>10
      <4> QED
        BY <4>2, <4>3
    <3> QED
      BY <3>1, <3>2, <3>4, <3>6, <3>7
  <2> QED
    BY <2>1, <2>2
<1>15. ShownInv'
  <2> SUFFICES ASSUME NEW v \in Windows, Alive(v)', ~child'[v].early
               PROVE  child'[v].asked =
                        IF child'[v].at = "open" THEN child'[v].shown ELSE child'[v].first
    BY DEF ShownInv
  <2>1. CASE v = w
    BY <2>1, <1>8, <1>9
  <2>2. CASE v # w
    <3>1. child'[v] = child[v]
      BY <2>2, <1>10 DEF Alive
    <3>2. Alive(v)
      BY <3>1 DEF Alive
    <3> QED
      BY <3>1, <3>2 DEF WindowsInv, ShownInv
  <2> QED
    BY <2>1, <2>2
<1> QED
  BY <1>7, <1>12, <1>13, <1>14, <1>15 DEF WindowsInv

-----------------------------------------------------------------------------

LEMMA WindowsInvInit == WindowsInit => WindowsInv
<1> SUFFICES ASSUME WindowsInit PROVE WindowsInv
  OBVIOUS
<1>1. TypesInv
  <2>1. Absent \in Children
    BY DEF Children
  <2> QED
    BY <2>1, EmptySeq DEF WindowsInit, TypesInv
<1>2. ListInv
  <2>1. Len(recency) = 0 /\ ToSet(recency) = {} /\ NoRepeats(recency)
    BY EmptySeq DEF WindowsInit, ToSet, NoRepeats
  <2>2. Registered(byFile) = {}
    BY DEF WindowsInit, Registered
  <2> QED
    BY <2>1, <2>2, WindowsAssumption DEF ListInv
<1>3. RegisteredInv /\ FoundInv /\ ShownInv
  BY DEF WindowsInit, RegisteredInv, FoundInv, ShownInv, Alive, Absent
<1> QED
  BY <1>1, <1>2, <1>3 DEF WindowsInv

(* Every step of the windows keeps the inductive invariant.                *)
THEOREM WindowsStep == WindowsInv /\ [WindowsNext]_windowVars => WindowsInv'
<1> SUFFICES ASSUME WindowsInv, [WindowsNext]_windowVars PROVE WindowsInv'
  OBVIOUS
<1>1. CASE UNCHANGED windowVars
  <2>1. TypesInv' /\ ListInv'
    BY <1>1 DEF windowVars, WindowsInv, TypesInv, ListInv, Registered
  <2>2. RegisteredInv' /\ FoundInv' /\ ShownInv'
    BY <1>1 DEF windowVars, WindowsInv, RegisteredInv, FoundInv, ShownInv, Alive
  <2> QED
    BY <2>1, <2>2 DEF WindowsInv
<1>2. ASSUME NEW f \in SourceFiles, NEW line \in SourceLines, OpenDefinitionWindow(f, line)
      PROVE  WindowsInv'
  BY <1>2, ReuseKeeps, NewWindowKeeps DEF OpenDefinitionWindow
<1>3. ASSUME NEW w \in Windows, FinishLoad(w) \/ CloseDefinitionWindow(w) \/ Closed(w)
      PROVE  WindowsInv'
  BY <1>3, FinishKeeps, CloseKeeps, ClosedKeeps
<1>4. CASE CloseAllDefinitionWindows
  BY <1>4, CloseAllKeeps
<1> QED
  BY <1>1, <1>2, <1>3, <1>4 DEF WindowsNext

LEMMA WindowsInvImplies == WindowsInv => DefinitionsAreShown
<1> SUFFICES ASSUME WindowsInv PROVE DefinitionsAreShown
  OBVIOUS
<1>1. WindowsTypeOK
  <2>1. \A w \in Windows : child[w].at \in {"absent", "loading", "open", "closing"}
    BY ChildFacts DEF WindowsInv, TypesInv
  <2> QED
    BY <2>1 DEF WindowsInv, TypesInv, RegisteredInv, WindowsTypeOK, Registered
<1>2. RecencyListsRegistered
  BY ListIsCounted DEF WindowsInv, TypesInv, ListInv, RecencyListsRegistered
<1>3. WindowsAreFound
  BY DEF WindowsInv, FoundInv, WindowsAreFound, Alive, Absent
<1>4. ShowsLastDefinition
  BY DEF WindowsInv, ShownInv, ShowsLastDefinition, Alive
<1> QED
  BY <1>1, <1>2, <1>3, <1>4 DEF DefinitionsAreShown

(* The windows of definitions are all known, at most as many as the limit  *)
(* says, and show what they were asked for last, for any number of files   *)
(* and windows.                                                            *)
THEOREM DefinitionsAlwaysShown == WindowsSpec => []DefinitionsAreShown
<1>1. WindowsSpec => []WindowsInv
  BY WindowsInvInit, WindowsStep, PTL DEF WindowsSpec
<1> QED
  BY <1>1, WindowsInvImplies, PTL


-----------------------------------------------------------------------------
(* Induction from zero, over a set instead of a predicate.                 *)
LEMMA FromZero ==
  ASSUME NEW S, 0 \in S, \A n \in Nat : n \in S => n + 1 \in S
  PROVE  \A n \in Nat : n \in S
<1> DEFINE missing == Nat \ S
<1>1. ASSUME missing # {} PROVE FALSE
  <2>1. PICK m \in missing : \A n \in missing : <<n, m>> \notin OpToRel(<, Nat)
    BY <1>1, NatLessThanWellFounded, WFMin
  <2>2. m # 0 /\ m - 1 \in Nat /\ m - 1 < m /\ m = (m - 1) + 1
    OBVIOUS
  <2>3. m - 1 \notin missing
    BY <2>1, <2>2 DEF OpToRel
  <2> QED
    BY <2>2, <2>3
<1> QED
  BY <1>1

-----------------------------------------------------------------------------
(* What the log file holds once the messages are taken.                    *)
Deliveries(f, text, messages, s, k) ==
  f = [i \in 0 .. k |-> IF i = 0 THEN text ELSE Delivered(f[i - 1], messages[i], s)]

LEMMA DeliveriesExist ==
  ASSUME NEW text, NEW messages, NEW s, NEW k \in Nat
  PROVE  \E f : Deliveries(f, text, messages, s, k)
<1> DEFINE S == {n \in Nat : \E f : Deliveries(f, text, messages, s, n)}
<1>1. 0 \in S
  <2> DEFINE f == [i \in 0 .. 0 |-> text]
  <2>1. Deliveries(f, text, messages, s, 0)
    BY DEF Deliveries
  <2> QED
    BY <2>1
<1>2. ASSUME NEW n \in Nat, n \in S PROVE n + 1 \in S
  <2>1. PICK f : Deliveries(f, text, messages, s, n)
    BY <1>2
  <2> DEFINE g == [i \in 0 .. n + 1 |->
                     IF i = n + 1 THEN Delivered(f[n], messages[n + 1], s) ELSE f[i]]
  <2>2. \A i \in 0 .. n : f[i] = IF i = 0 THEN text ELSE Delivered(f[i - 1], messages[i], s)
    BY <2>1 DEF Deliveries
  <2>3. ASSUME NEW i \in 0 .. n + 1
        PROVE  g[i] = IF i = 0 THEN text ELSE Delivered(g[i - 1], messages[i], s)
    <3>1. CASE i = n + 1
      BY <3>1
    <3>2. CASE i \in 0 .. n
      BY <2>2, <3>2
    <3> QED
      BY <3>1, <3>2
  <2>4. Deliveries(g, text, messages, s, n + 1)
    <3> HIDE DEF g
    <3>1. DOMAIN g = 0 .. n + 1 /\ g = [i \in DOMAIN g |-> g[i]]
      BY DEF g
    <3> QED
      BY <2>3, <3>1 DEF Deliveries
  <2> QED
    BY <2>4
<1> HIDE DEF S
<1>3. k \in S
  BY <1>1, <1>2, FromZero
<1> QED
  BY <1>3 DEF S

DeliveredBy(f, text, messages, s) ==
  /\ Sent(text, messages, s) = f[Len(messages)]
  /\ f[0] = text
  /\ \A i \in 1 .. Len(messages) : f[i] = Delivered(f[i - 1], messages[i], s)

LEMMA SentOf ==
  ASSUME NEW text, NEW E, NEW messages \in Seq(E), NEW s
  PROVE  \E f : DeliveredBy(f, text, messages, s)
<1> DEFINE g == CHOOSE f : Deliveries(f, text, messages, s, Len(messages))
<1>1. Deliveries(g, text, messages, s, Len(messages))
  <2>1. Len(messages) \in Nat
    OBVIOUS
  <2>2. \E f : Deliveries(f, text, messages, s, Len(messages))
    BY <2>1, DeliveriesExist
  <2> QED
    BY <2>2
<1>2. Sent(text, messages, s) = g[Len(messages)]
  BY DEF Sent, Deliveries
<1> HIDE DEF g
<1>3. /\ g[0] = text
      /\ \A i \in 1 .. Len(messages) : g[i] = Delivered(g[i - 1], messages[i], s)
  <2>1. 0 \in 0 .. Len(messages) /\ \A i \in 1 .. Len(messages) : i \in 0 .. Len(messages) /\ i # 0
    OBVIOUS
  <2> QED
    BY <1>1, <2>1 DEF Deliveries
<1> QED
  BY <1>2, <1>3 DEF DeliveredBy

LEMMA SentAppend ==
  ASSUME NEW text, NEW E, NEW messages \in Seq(E), NEW m \in E, NEW s
  PROVE  Sent(text, Append(messages, m), s) = Delivered(Sent(text, messages, s), m, s)
<1> DEFINE longer == Append(messages, m)
<1>0. longer \in Seq(E)
  OBVIOUS
<1>1. /\ Len(longer) = Len(messages) + 1 /\ Len(messages) \in Nat
      /\ \A i \in 1 .. Len(messages) : longer[i] = messages[i]
      /\ longer[Len(messages) + 1] = m
  OBVIOUS
<1> HIDE DEF longer
<1>2. PICK f : DeliveredBy(f, text, messages, s)
  BY SentOf
<1>3. PICK g : DeliveredBy(g, text, longer, s)
  BY <1>0, SentOf
<1> DEFINE S == {n \in Nat : n <= Len(messages) => g[n] = f[n]}
<1>4. 0 \in S
  BY <1>2, <1>3 DEF DeliveredBy
<1>5. ASSUME NEW n \in Nat, n \in S PROVE n + 1 \in S
  <2>1. CASE n + 1 <= Len(messages)
    <3>1. n + 1 \in 1 .. Len(messages) /\ n + 1 \in 1 .. Len(longer) /\ (n + 1) - 1 = n
      BY <1>1, <2>1
    <3>2. /\ g[n + 1] = Delivered(g[n], longer[n + 1], s)
          /\ f[n + 1] = Delivered(f[n], messages[n + 1], s)
      BY <1>2, <1>3, <3>1 DEF DeliveredBy
    <3>3. g[n] = f[n] /\ longer[n + 1] = messages[n + 1]
      BY <1>1, <1>5, <2>1, <3>1
    <3> QED
      BY <3>2, <3>3
  <2> QED
    BY <2>1
<1> HIDE DEF S
<1>6. Len(messages) \in S
  BY <1>1, <1>4, <1>5, FromZero
<1>7. g[Len(messages)] = f[Len(messages)]
  BY <1>1, <1>6 DEF S
<1>8. Len(longer) \in 1 .. Len(longer) /\ Len(longer) - 1 = Len(messages)
  BY <1>1
<1>9. g[Len(longer)] = Delivered(g[Len(messages)], m, s)
  BY <1>1, <1>3, <1>8 DEF DeliveredBy
<1> QED
  BY <1>2, <1>3, <1>7, <1>9 DEF longer, DeliveredBy

LEMMA SentTail ==
  ASSUME NEW text, NEW E, NEW messages \in Seq(E), messages # <<>>, NEW s
  PROVE  Sent(text, messages, s) = Sent(Delivered(text, Head(messages), s), Tail(messages), s)
<1> DEFINE rest == Tail(messages)
           next == Delivered(text, Head(messages), s)
<1>0. rest \in Seq(E)
  OBVIOUS
<1>1. /\ Len(rest) \in Nat /\ Len(messages) = Len(rest) + 1
      /\ \A i \in 1 .. Len(rest) : rest[i] = messages[i + 1]
      /\ Head(messages) = messages[1]
  OBVIOUS
<1> HIDE DEF rest
<1>2. PICK f : DeliveredBy(f, text, messages, s)
  BY SentOf
<1>3. PICK g : DeliveredBy(g, next, rest, s)
  BY <1>0, SentOf
<1> DEFINE S == {n \in Nat : n <= Len(rest) => g[n] = f[n + 1]}
<1>4. 0 \in S
  <2>1. 1 \in 1 .. Len(messages) /\ 1 - 1 = 0 /\ 0 + 1 = 1
    BY <1>1
  <2>2. f[1] = Delivered(f[0], messages[1], s)
    BY <1>2, <2>1 DEF DeliveredBy
  <2> QED
    BY <1>1, <1>2, <1>3, <2>1, <2>2 DEF DeliveredBy
<1>5. ASSUME NEW n \in Nat, n \in S PROVE n + 1 \in S
  <2>1. CASE n + 1 <= Len(rest)
    <3>1. /\ n + 1 \in 1 .. Len(rest) /\ (n + 1) + 1 \in 1 .. Len(messages)
          /\ (n + 1) - 1 = n /\ ((n + 1) + 1) - 1 = n + 1
      BY <1>1, <2>1
    <3>2. /\ g[n + 1] = Delivered(g[n], rest[n + 1], s)
          /\ f[(n + 1) + 1] = Delivered(f[n + 1], messages[(n + 1) + 1], s)
      BY <1>2, <1>3, <3>1 DEF DeliveredBy
    <3>3. g[n] = f[n + 1] /\ rest[n + 1] = messages[(n + 1) + 1]
      BY <1>1, <1>5, <2>1, <3>1
    <3> QED
      BY <3>2, <3>3
  <2> QED
    BY <2>1
<1> HIDE DEF S
<1>6. Len(rest) \in S
  BY <1>1, <1>4, <1>5, FromZero
<1>7. g[Len(rest)] = f[Len(rest) + 1]
  BY <1>1, <1>6 DEF S
<1> QED
  BY <1>1, <1>2, <1>3, <1>7 DEF rest, DeliveredBy

LEMMA SentNone ==
  ASSUME NEW text, NEW E, NEW messages \in Seq(E), NEW s,
         \A i \in DOMAIN messages : messages[i].scope # s
  PROVE  Sent(text, messages, s) = text
<1>1. PICK f : DeliveredBy(f, text, messages, s)
  BY SentOf
<1> DEFINE S == {n \in Nat : n <= Len(messages) => f[n] = text}
<1>2. 0 \in S
  BY <1>1 DEF DeliveredBy
<1>3. ASSUME NEW n \in Nat, n \in S PROVE n + 1 \in S
  <2>1. CASE n + 1 <= Len(messages)
    <3>1. n + 1 \in 1 .. Len(messages) /\ n + 1 \in DOMAIN messages /\ (n + 1) - 1 = n
      BY <2>1
    <3>2. f[n + 1] = Delivered(f[n], messages[n + 1], s) /\ f[n] = text
      BY <1>1, <1>3, <2>1, <3>1 DEF DeliveredBy
    <3>3. f[n + 1] = text
      BY <3>1, <3>2 DEF Delivered
    <3> QED
      BY <3>3
  <2> QED
    BY <2>1
<1> HIDE DEF S
<1>4. Len(messages) \in Nat
  OBVIOUS
<1>5. Len(messages) \in S
  BY <1>2, <1>3, <1>4, FromZero
<1> QED
  BY <1>1, <1>4, <1>5 DEF S, DeliveredBy

-----------------------------------------------------------------------------
(* The inductive invariant of ConsoleTellsTruth.                           *)
Targets == {"none", "active", "inactive"}
Buffers == [lines : Seq(Nat), dropped : Nat, target : Targets]
Messages == [kind : {"append", "reset"}, scope : Scopes, lines : Seq(Nat)]
Entries == [scope : Scopes, live : BOOLEAN, came : {"nothing", "opened", "failed"}]

PanelsInv ==
  /\ activeScope \in Scopes
  /\ panels \in [Scopes -> [open : BOOLEAN, expanded : BOOLEAN]]
  /\ \A s \in Scopes : panels[s].expanded => panels[s].open

(* A buffer holds the last of the lines written since it was cleared.      *)
Holds(buffer, last, start) ==
  /\ buffer \in Buffers /\ last \in Nat /\ start \in Nat
  /\ start + buffer.dropped + Len(buffer.lines) = last
  /\ \A i \in 1 .. Len(buffer.lines) : buffer.lines[i] + Len(buffer.lines) = last + i
  /\ Len(buffer.lines) <= MaxBuffer
  /\ buffer.dropped > 0 => Len(buffer.lines) = MaxBuffer

BuffersInv ==
  /\ buffers \in [Scopes -> Buffers]
  /\ lastLine \in [Scopes -> Nat] /\ cleared \in [Scopes -> Nat]
  /\ \A s \in Scopes : Holds(buffers[s], lastLine[s], cleared[s])

ScreenInv ==
  /\ raf \in BOOLEAN /\ flag = raf /\ Len(screen.lines) <= MaxRender
  /\ ~raf => screen = Rendered(panels[activeScope], buffers[activeScope])

(* The resets among the messages are those that nothing came of yet, in    *)
(* order; "at" says where.                                                 *)
Matched(at, resets, messages) ==
  /\ \A i \in DOMAIN resets : resets[i].came = "nothing" =>
       /\ at[i] \in DOMAIN messages /\ messages[at[i]].kind = "reset"
       /\ messages[at[i]].scope = resets[i].scope
       /\ resets[i].live =>
            \A m \in DOMAIN messages : m > at[i] => messages[m].scope # resets[i].scope
  /\ \A i, j \in DOMAIN resets : i < j /\ resets[i].came = "nothing" =>
       resets[j].came = "nothing" /\ at[i] < at[j]
  /\ \A m \in DOMAIN messages : messages[m].kind = "reset" =>
       \E i \in DOMAIN resets : resets[i].came = "nothing" /\ at[i] = m

Matching(resets, messages) ==
  \E at \in [DOMAIN resets -> Nat] : Matched(at, resets, messages)

(* At most one reset of a console is alive.                                *)
OneAlive(resets) ==
  \A i, j \in DOMAIN resets :
    resets[i].live /\ resets[j].live /\ resets[i].scope = resets[j].scope => i = j

(* Nothing of a console is written to its log between a reset and its      *)
(* reply.                                                                  *)
Quiet(entry) ==
  entry.live =>
    /\ buffers[entry.scope].target = "none"
    /\ entry.came = "opened" =>
         /\ logFiles[entry.scope] = <<>>
         /\ \A m \in DOMAIN wire : wire[m].scope # entry.scope

LogTypes ==
  /\ wire \in Seq(Messages) /\ waiting \in Seq(Entries)
  /\ logFiles \in [Scopes -> Seq(Nat)] /\ since \in [Scopes -> Nat]
  /\ \A s \in Scopes : since[s] <= lastLine[s]

LogInv ==
  /\ LogTypes /\ Matching(waiting, wire)
  /\ OneAlive(waiting) /\ \A i \in DOMAIN waiting : Quiet(waiting[i])
  /\ \A s \in Scopes : buffers[s].target = "active" =>
       \A m \in DOMAIN wire : wire[m].scope = s => wire[m].kind # "reset"
  /\ LogFileIsComplete

ConsoleInv == PanelsInv /\ BuffersInv /\ ScreenInv /\ LogInv

-----------------------------------------------------------------------------
(* Buffers and the screen.                                                 *)
Follow(new, last, n) ==
  Len(new) = n /\ \A i \in 1 .. n : new[i] = last + i

Grown(after, buffer, new) ==
  after = TrimConsoleBuffer([buffer EXCEPT !.lines = @ \o new])

LastLines(out, lines, n) ==
  /\ out \in Seq(Nat) /\ Len(out) = IF Len(lines) > n THEN n ELSE Len(lines)
  /\ \A i \in 1 .. Len(out) : out[i] = lines[i + (Len(lines) - Len(out))]

LEMMA LastOfLines ==
  ASSUME NEW lines \in Seq(Nat), NEW n \in Nat \ {0}
  PROVE  LastLines(LastOf(lines, n), lines, n)
<1>1. CASE Len(lines) > n
  <2> DEFINE out == SubSeq(lines, Len(lines) - n + 1, Len(lines))
  <2>1. LastOf(lines, n) = out
    BY <1>1 DEF LastOf
  <2>2. Len(lines) \in Nat /\ Len(lines) - n + 1 \in 1 .. Len(lines) + 1
    BY <1>1
  <2>3. /\ out \in Seq(Nat) /\ Len(out) = n
        /\ \A i \in 1 .. n : out[i] = lines[Len(lines) - n + 1 + i - 1]
    BY <1>1, <2>2, SubSeqProperties
  <2> HIDE DEF out
  <2>4. \A i \in 1 .. n : Len(lines) - n + 1 + i - 1 = i + (Len(lines) - n)
    BY <2>2
  <2> QED
    BY <1>1, <2>1, <2>3, <2>4 DEF LastLines
<1>2. CASE ~(Len(lines) > n)
  <2> DEFINE out == SubSeq(lines, 1, Len(lines))
  <2>1. LastOf(lines, n) = out
    BY <1>2 DEF LastOf
  <2>2. out = lines
    OBVIOUS
  <2>3. \A i \in 1 .. Len(lines) : i + (Len(lines) - Len(lines)) = i
    OBVIOUS
  <2> QED
    BY <1>2, <2>1, <2>2, <2>3 DEF LastLines
<1> QED
  BY <1>1, <1>2

LEMMA GrownHolds ==
  ASSUME NEW buffer, NEW last, NEW start, Holds(buffer, last, start),
         NEW n \in Nat, NEW new \in Seq(Nat), Follow(new, last, n),
         NEW after, Grown(after, buffer, new)
  PROVE  Holds(after, last + n, start) /\ after.target = buffer.target
<1> USE ConsoleAssumption
<1>21. Len(new) = n /\ \A i \in 1 .. n : new[i] = last + i
  BY DEF Follow
<1>0. buffer \in Buffers /\ last \in Nat /\ start \in Nat
  BY DEF Holds
<1>1. PICK lines : lines = buffer.lines
  OBVIOUS
<1>2. PICK all : all = lines \o new
  OBVIOUS
<1>3. PICK grown : grown = [buffer EXCEPT !.lines = all]
  OBVIOUS
<1>4. PICK kept : kept = LastOf(all, MaxBuffer)
  OBVIOUS
<1>5. after = TrimConsoleBuffer(grown)
  BY <1>1, <1>2, <1>3 DEF Grown
<1>6. lines \in Seq(Nat) /\ buffer.dropped \in Nat /\ buffer.target \in Targets
  BY <1>0, <1>1 DEF Buffers
<1>7. /\ all \in Seq(Nat) /\ Len(all) = Len(lines) + n
      /\ \A i \in 1 .. Len(all) :
           all[i] = IF i <= Len(lines) THEN lines[i] ELSE new[i - Len(lines)]
  <2>1. /\ all \in Seq(Nat) /\ Len(all) = Len(lines) + Len(new)
        /\ \A i \in 1 .. Len(lines) + Len(new) :
             all[i] = IF i <= Len(lines) THEN lines[i] ELSE new[i - Len(lines)]
    BY <1>2, <1>6, ConcatProperties
  <2> QED
    BY <1>21, <2>1
<1>8. LastLines(kept, all, MaxBuffer)
  BY <1>4, <1>7, LastOfLines
<1>9. /\ Len(lines) \in Nat /\ Len(all) \in Nat /\ Len(kept) \in Nat /\ kept \in Seq(Nat)
      /\ Len(kept) = IF Len(all) > MaxBuffer THEN MaxBuffer ELSE Len(all)
  BY <1>6, <1>7, <1>8 DEF LastLines
<1>10. PICK dropped : dropped = buffer.dropped + Len(all) - Len(kept)
  OBVIOUS
<1>11. grown \in Buffers /\ grown.lines = all /\ grown.dropped = buffer.dropped
       /\ grown.target = buffer.target
  BY <1>0, <1>3, <1>7 DEF Buffers
<1>12. dropped \in Nat
  BY <1>6, <1>9, <1>10
<1>13. after = [grown EXCEPT !.lines = kept, !.dropped = dropped]
  BY <1>4, <1>5, <1>10, <1>11 DEF TrimConsoleBuffer
<1>14. after \in Buffers /\ after.lines = kept /\ after.dropped = dropped
       /\ after.target = buffer.target
  BY <1>9, <1>11, <1>12, <1>13 DEF Buffers
<1>15. /\ start + buffer.dropped + Len(lines) = last
       /\ \A i \in 1 .. Len(lines) : lines[i] + Len(lines) = last + i
       /\ Len(lines) <= MaxBuffer
       /\ buffer.dropped > 0 => Len(lines) = MaxBuffer
  BY <1>1 DEF Holds
<1>16. start + dropped + Len(kept) = last + n
  <2>1. PICK a : a = buffer.dropped
    OBVIOUS
  <2>2. PICK b : b = Len(lines)
    OBVIOUS
  <2>3. PICK c : c = Len(all)
    OBVIOUS
  <2>4. PICK d : d = Len(kept)
    OBVIOUS
  <2>5. a \in Nat /\ b \in Nat /\ c \in Nat /\ d \in Nat
    BY <1>6, <1>9, <2>1, <2>2, <2>3, <2>4
  <2>6. start + a + b = last /\ c = b + n /\ dropped = a + c - d
    BY <1>7, <1>10, <1>15, <2>1, <2>2, <2>3, <2>4
  <2>7. start + dropped + d = last + n
    BY <1>0, <2>5, <2>6
  <2> QED
    BY <2>4, <2>7
<1>17. Len(kept) <= MaxBuffer /\ (dropped > 0 => Len(kept) = MaxBuffer)
  BY <1>6, <1>7, <1>9, <1>10, <1>15
<1>18. ASSUME NEW i \in 1 .. Len(kept) PROVE kept[i] + Len(kept) = last + n + i
  <2>1. PICK k : k = i + (Len(all) - Len(kept))
    OBVIOUS
  <2>2. k \in 1 .. Len(all)
    BY <1>9, <2>1
  <2>3. kept[i] = all[k]
    BY <1>8, <2>1 DEF LastLines
  <2>4. CASE k <= Len(lines)
    <3>1. k \in 1 .. Len(lines) /\ all[k] = lines[k]
      BY <1>7, <1>9, <2>2, <2>4
    <3>2. lines[k] + Len(lines) = last + k
      BY <1>15, <3>1
    <3>3. lines[k] \in Nat
      BY <1>6, <3>1
    <3> QED
      <4>1. PICK a : a = kept[i]
        OBVIOUS
      <4>2. PICK b : b = Len(lines)
        OBVIOUS
      <4>3. PICK c : c = Len(kept)
        OBVIOUS
      <4>4. a \in Nat /\ b \in Nat /\ c \in Nat /\ k \in Nat /\ i \in Nat
        BY <1>9, <2>2, <2>3, <3>1, <3>3, <4>1, <4>2, <4>3
      <4>5. a + b = last + k /\ k = i + ((b + n) - c)
        BY <1>7, <2>1, <2>3, <3>1, <3>2, <4>1, <4>2, <4>3
      <4>6. a + c = last + n + i
        BY <1>0, <4>4, <4>5
      <4> QED
        BY <4>1, <4>3, <4>6
  <2>5. CASE ~(k <= Len(lines))
    <3>1. k - Len(lines) \in 1 .. n
      BY <1>7, <1>9, <2>2, <2>5
    <3>2. all[k] = new[k - Len(lines)]
      BY <1>7, <2>2, <2>5
    <3>3. new[k - Len(lines)] = last + (k - Len(lines))
      BY <1>21, <3>1
    <3> QED
      BY <1>0, <1>7, <1>9, <2>1, <2>3, <3>2, <3>3
  <2> QED
    BY <2>4, <2>5
<1>19. last + n \in Nat
  BY <1>0
<1>20. Holds(after, last + n, start)
  BY <1>0, <1>14, <1>16, <1>17, <1>18, <1>19 DEF Holds
<1> QED
  BY <1>14, <1>20

LEMMA ClearedHolds ==
  ASSUME NEW buffer \in Buffers, NEW last \in Nat
  PROVE  Holds(ClearedBuffer(buffer), last, last)
<1>1. PICK empty : empty = <<>>
  OBVIOUS
<1>2. PICK none : none = 0
  OBVIOUS
<1>3. PICK after : after = [buffer EXCEPT !.lines = empty, !.dropped = none]
  OBVIOUS
<1>4. empty \in Seq(Nat) /\ none \in Nat /\ Len(empty) = 0
  BY <1>1, <1>2
<1>5. after \in Buffers /\ after.lines = empty /\ after.dropped = none
  BY <1>3, <1>4 DEF Buffers
<1>6. after = ClearedBuffer(buffer)
  BY <1>1, <1>2, <1>3 DEF ClearedBuffer
<1> HIDE DEF Buffers
<1> QED
  BY ConsoleAssumption, <1>2, <1>4, <1>5, <1>6 DEF Holds

LEMMA RetargetedHolds ==
  ASSUME NEW buffer, NEW last, NEW start, Holds(buffer, last, start), NEW target \in Targets
  PROVE  LET after == [buffer EXCEPT !.target = target]
         IN  /\ Holds(after, last, start) /\ after.target = target
             /\ after.lines = buffer.lines /\ after.dropped = buffer.dropped
<1>1. PICK after : after = [buffer EXCEPT !.target = target]
  OBVIOUS
<1>2. buffer \in Buffers
  BY DEF Holds
<1>3. after \in Buffers /\ after.target = target
      /\ after.lines = buffer.lines /\ after.dropped = buffer.dropped
  BY <1>1, <1>2 DEF Buffers
<1>4. Holds(after, last, start)
  BY <1>3 DEF Holds
<1> QED
  BY <1>1, <1>3, <1>4

LEMMA RenderedIsShort ==
  ASSUME NEW panel, NEW buffer \in Buffers
  PROVE  Len(Rendered(panel, buffer).lines) <= MaxRender
<1> USE ConsoleAssumption
<1>1. PICK shown : shown = LastOf(buffer.lines, MaxRender)
  OBVIOUS
<1>2. MaxRender \in Nat \ {0} /\ buffer.lines \in Seq(Nat)
  BY DEF Buffers
<1>3. LastLines(shown, buffer.lines, MaxRender)
  BY <1>1, <1>2, LastOfLines
<1>4. Len(shown) <= MaxRender
  BY <1>2, <1>3 DEF LastLines
<1>5. Len(BlankScreen.lines) <= MaxRender
  BY <1>2 DEF BlankScreen
<1> QED
  BY <1>1, <1>4, <1>5 DEF Rendered

LEMMA RequestKeepsScreen ==
  ASSUME ScreenInv, RequestRender
  PROVE  ScreenInv'
<1>1. CASE ShouldRender(panels'[activeScope'])
  BY <1>1 DEF RequestRender, ScheduleRender, ScreenInv
<1>2. CASE ~ShouldRender(panels'[activeScope'])
  <2>1. screen' = BlankScreen /\ raf' = FALSE /\ flag' = FALSE
    BY <1>2 DEF RequestRender, CancelRender
  <2>3. (Rendered(panels[activeScope], buffers[activeScope]))' = BlankScreen
    BY <1>2 DEF Rendered
  <2>4. Len(BlankScreen.lines) <= MaxRender
    BY ConsoleAssumption DEF BlankScreen
  <2> QED
    BY <2>1, <2>3, <2>4 DEF ScreenInv
<1> QED
  BY <1>1, <1>2

LEMMA ScreenShowsTheEnd ==
  ASSUME PanelsInv, BuffersInv, ScreenInv
  PROVE  ScreenTellsTruth
<1> USE ConsoleAssumption
<1> SUFFICES ASSUME ~raf
             PROVE  LET written == lastLine[activeScope] - cleared[activeScope]
                        shown   == Len(screen.lines)
                    IN  IF panels[activeScope].open
                        THEN /\ screen.omitted + shown = written
                             /\ \A i \in 1 .. shown :
                                  screen.lines[i] = lastLine[activeScope] - shown + i
                             /\ screen.omitted > 0 => shown = MaxRender
                        ELSE screen = BlankScreen
  BY DEF ScreenTellsTruth
<1>1. PICK s : s = activeScope
  OBVIOUS
<1>2. PICK buffer : buffer = buffers[s]
  OBVIOUS
<1>3. PICK last : last = lastLine[s]
  OBVIOUS
<1>4. PICK start : start = cleared[s]
  OBVIOUS
<1>5. s \in Scopes /\ (panels[s].expanded => panels[s].open) /\ Holds(buffer, last, start)
  BY <1>1, <1>2, <1>3, <1>4 DEF PanelsInv, BuffersInv
<1>6. screen = Rendered(panels[s], buffer)
  BY <1>1, <1>2 DEF ScreenInv
<1>7. CASE ~panels[s].open
  <2>1. screen = BlankScreen
    BY <1>5, <1>6, <1>7 DEF Rendered, ShouldRender
  <2> QED
    BY <1>1, <1>7, <2>1
<1>8. CASE panels[s].open
  <2>1. PICK lines : lines = buffer.lines
    OBVIOUS
  <2>2. PICK shown : shown = LastOf(lines, MaxRender)
    OBVIOUS
  <2>3. lines \in Seq(Nat) /\ MaxRender \in Nat \ {0} /\ buffer.dropped \in Nat
    BY <1>5, <2>1 DEF Holds, Buffers
  <2>4. LastLines(shown, lines, MaxRender)
    BY <2>2, <2>3, LastOfLines
  <2>5. /\ shown \in Seq(Nat) /\ Len(shown) \in Nat /\ Len(lines) \in Nat
        /\ Len(shown) = IF Len(lines) > MaxRender THEN MaxRender ELSE Len(lines)
    BY <2>3, <2>4 DEF LastLines
  <2>6. PICK omitted : omitted = buffer.dropped + Len(lines) - Len(shown)
    OBVIOUS
  <2>7. screen = [omitted |-> omitted, lines |-> shown]
    BY <1>6, <1>8, <2>1, <2>2, <2>6 DEF Rendered, ShouldRender
  <2>8. screen.omitted = omitted /\ screen.lines = shown
    BY <2>7
  <2>9. /\ last \in Nat /\ start \in Nat /\ start + buffer.dropped + Len(lines) = last
        /\ \A i \in 1 .. Len(lines) : lines[i] + Len(lines) = last + i
        /\ Len(lines) <= MaxBuffer
        /\ buffer.dropped > 0 => Len(lines) = MaxBuffer
    BY <1>5, <2>1 DEF Holds
  <2>10. omitted + Len(shown) = last - start
    <3>1. PICK a : a = buffer.dropped
      OBVIOUS
    <3>2. PICK b : b = Len(lines)
      OBVIOUS
    <3>3. PICK d : d = Len(shown)
      OBVIOUS
    <3>4. a \in Nat /\ b \in Nat /\ d \in Nat
      BY <2>3, <2>5, <3>1, <3>2, <3>3
    <3>5. start + a + b = last /\ omitted = a + b - d
      BY <2>6, <2>9, <3>1, <3>2, <3>3
    <3>6. omitted + d = last - start
      BY <2>9, <3>4, <3>5
    <3> QED
      BY <3>3, <3>6
  <2>11. omitted > 0 => Len(shown) = MaxRender
    BY <2>3, <2>5, <2>6, <2>9
  <2>12. ASSUME NEW i \in 1 .. Len(shown) PROVE shown[i] = last - Len(shown) + i
    <3>1. PICK k : k = i + (Len(lines) - Len(shown))
      OBVIOUS
    <3>2. k \in 1 .. Len(lines) /\ shown[i] = lines[k]
      <4>1. k \in 1 .. Len(lines)
        <5>1. PICK b : b = Len(lines)
          OBVIOUS
        <5>2. PICK d : d = Len(shown)
          OBVIOUS
        <5>3. b \in Nat /\ d \in Nat /\ d <= b /\ i \in 1 .. d /\ k = i + (b - d)
          BY <2>3, <2>5, <3>1, <5>1, <5>2
        <5>4. k \in 1 .. b
          BY <5>3
        <5> QED
          BY <5>1, <5>4
      <4> QED
        BY <2>4, <3>1, <4>1 DEF LastLines
    <3>3. lines[k] + Len(lines) = last + k /\ lines[k] \in Nat
      BY <2>3, <2>9, <3>2
    <3> QED
      <4>1. PICK a : a = shown[i]
        OBVIOUS
      <4>2. PICK b : b = Len(lines)
        OBVIOUS
      <4>3. PICK d : d = Len(shown)
        OBVIOUS
      <4>4. a \in Nat /\ b \in Nat /\ d \in Nat /\ k \in Nat /\ i \in Nat
        BY <2>5, <3>2, <3>3, <4>1, <4>2, <4>3
      <4>5. a + b = last + k /\ k = i + (b - d)
        BY <3>1, <3>2, <3>3, <4>1, <4>2, <4>3
      <4>6. a = last - d + i
        BY <2>9, <4>4, <4>5
      <4> QED
        BY <4>1, <4>3, <4>6
  <2> QED
    BY <1>1, <1>3, <1>4, <1>8, <2>8, <2>10, <2>11, <2>12
<1> QED
  BY <1>7, <1>8

-----------------------------------------------------------------------------
(* Resets and their messages.                                              *)
LEMMA AppendMatches ==
  ASSUME NEW resets \in Seq(Entries), NEW messages \in Seq(Messages),
         Matching(resets, messages),
         NEW message \in Messages, message.kind = "append",
         \A i \in DOMAIN resets : resets[i].live => resets[i].scope # message.scope
  PROVE  Matching(resets, Append(messages, message))
<1>1. PICK at \in [DOMAIN resets -> Nat] : Matched(at, resets, messages)
  BY DEF Matching
<1>2. PICK longer : longer = Append(messages, message)
  OBVIOUS
<1>3. PICK size : size = Len(messages)
  OBVIOUS
<1>4. /\ size \in Nat /\ DOMAIN messages = 1 .. size /\ DOMAIN longer = 1 .. size + 1
      /\ \A m \in 1 .. size : longer[m] = messages[m]
      /\ longer[size + 1] = message
  BY <1>2, <1>3
<1>5. ASSUME NEW i \in DOMAIN resets, resets[i].came = "nothing"
      PROVE  /\ at[i] \in DOMAIN longer /\ longer[at[i]].kind = "reset"
             /\ longer[at[i]].scope = resets[i].scope
             /\ resets[i].live =>
                  \A m \in DOMAIN longer : m > at[i] => longer[m].scope # resets[i].scope
  <2>1. /\ at[i] \in 1 .. size /\ messages[at[i]].kind = "reset"
        /\ messages[at[i]].scope = resets[i].scope
        /\ resets[i].live =>
             \A m \in 1 .. size : m > at[i] => messages[m].scope # resets[i].scope
    BY <1>1, <1>4, <1>5 DEF Matched
  <2>2. at[i] \in 1 .. size + 1 /\ longer[at[i]] = messages[at[i]]
    BY <1>4, <2>1
  <2>3. ASSUME resets[i].live, NEW m \in DOMAIN longer, m > at[i]
        PROVE  longer[m].scope # resets[i].scope
    <3>1. CASE m \in 1 .. size
      BY <1>4, <2>1, <2>3, <3>1
    <3>2. CASE m = size + 1
      BY <1>4, <2>3, <3>2
    <3> QED
      BY <1>4, <3>1, <3>2
  <2> QED
    BY <1>4, <2>1, <2>2, <2>3
<1>6. \A i, j \in DOMAIN resets : i < j /\ resets[i].came = "nothing" =>
        resets[j].came = "nothing" /\ at[i] < at[j]
  BY <1>1 DEF Matched
<1>7. ASSUME NEW m \in DOMAIN longer, longer[m].kind = "reset"
      PROVE  \E i \in DOMAIN resets : resets[i].came = "nothing" /\ at[i] = m
  <2>1. m # size + 1
    BY <1>4, <1>7
  <2>2. m \in DOMAIN messages /\ messages[m].kind = "reset"
    BY <1>4, <1>7, <2>1
  <2> QED
    BY <1>1, <2>2 DEF Matched
<1>8. Matched(at, resets, longer)
  BY <1>5, <1>6, <1>7 DEF Matched
<1> QED
  BY <1>2, <1>8 DEF Matching

LEMMA ResetMatches ==
  ASSUME NEW resets \in Seq(Entries), NEW messages \in Seq(Messages),
         Matching(resets, messages),
         NEW entry \in Entries, entry.came = "nothing",
         NEW message \in Messages, message.kind = "reset", message.scope = entry.scope,
         \A i \in DOMAIN resets : resets[i].live => resets[i].scope # message.scope
  PROVE  Matching(Append(resets, entry), Append(messages, message))
<1>1. PICK at \in [DOMAIN resets -> Nat] : Matched(at, resets, messages)
  BY DEF Matching
<1>2. PICK longer : longer = Append(messages, message)
  OBVIOUS
<1>3. PICK size : size = Len(messages)
  OBVIOUS
<1>4. /\ size \in Nat /\ DOMAIN messages = 1 .. size /\ DOMAIN longer = 1 .. size + 1
      /\ \A m \in 1 .. size : longer[m] = messages[m]
      /\ longer[size + 1] = message
  BY <1>2, <1>3
<1>5. PICK more : more = Append(resets, entry)
  OBVIOUS
<1>6. PICK count : count = Len(resets)
  OBVIOUS
<1>7. /\ count \in Nat /\ DOMAIN resets = 1 .. count /\ DOMAIN more = 1 .. count + 1
      /\ \A i \in 1 .. count : more[i] = resets[i]
      /\ more[count + 1] = entry
  BY <1>5, <1>6
<1>8. PICK to : to = [i \in 1 .. count + 1 |-> IF i = count + 1 THEN size + 1 ELSE at[i]]
  OBVIOUS
<1>9. /\ to \in [DOMAIN more -> Nat] /\ to[count + 1] = size + 1
      /\ \A i \in 1 .. count : to[i] = at[i]
  BY <1>4, <1>7, <1>8
<1>10. \A i \in 1 .. count : i \in DOMAIN more /\ i # count + 1
  BY <1>7
<1>11. ASSUME NEW i \in DOMAIN more, more[i].came = "nothing"
       PROVE  /\ to[i] \in DOMAIN longer /\ longer[to[i]].kind = "reset"
              /\ longer[to[i]].scope = more[i].scope
              /\ more[i].live =>
                   \A m \in DOMAIN longer : m > to[i] => longer[m].scope # more[i].scope
  <2>1. CASE i \in 1 .. count
    <3>1. more[i] = resets[i] /\ to[i] = at[i]
      BY <1>7, <1>9, <2>1
    <3>2. /\ at[i] \in 1 .. size /\ messages[at[i]].kind = "reset"
          /\ messages[at[i]].scope = resets[i].scope
          /\ resets[i].live =>
               \A m \in 1 .. size : m > at[i] => messages[m].scope # resets[i].scope
      <4>1. i \in DOMAIN resets /\ resets[i].came = "nothing"
        BY <1>7, <1>11, <2>1, <3>1
      <4>2. /\ at[i] \in DOMAIN messages /\ messages[at[i]].kind = "reset"
            /\ messages[at[i]].scope = resets[i].scope
            /\ resets[i].live =>
                 \A m \in DOMAIN messages : m > at[i] => messages[m].scope # resets[i].scope
        BY <1>1, <4>1 DEF Matched
      <4> QED
        BY <1>4, <4>2
    <3>3. at[i] \in 1 .. size + 1 /\ longer[at[i]] = messages[at[i]]
      BY <1>4, <3>2
    <3>4. ASSUME resets[i].live, NEW m \in DOMAIN longer, m > at[i]
          PROVE  longer[m].scope # resets[i].scope
      <4>1. CASE m \in 1 .. size
        BY <1>4, <3>2, <3>4, <4>1
      <4>2. CASE m = size + 1
        BY <1>4, <1>7, <2>1, <3>4, <4>2
      <4> QED
        BY <1>4, <4>1, <4>2
    <3> QED
      BY <1>4, <3>1, <3>2, <3>3, <3>4
  <2>2. CASE i = count + 1
    <3>1. to[i] = size + 1 /\ more[i] = entry /\ size + 1 \in 1 .. size + 1
      BY <1>4, <1>7, <1>9, <2>2
    <3>2. \A m \in 1 .. size + 1 : ~(m > size + 1)
      BY <1>4
    <3> QED
      BY <1>4, <3>1, <3>2
  <2> QED
    BY <1>7, <2>1, <2>2
<1>12. ASSUME NEW i \in DOMAIN more, NEW j \in DOMAIN more, i < j, more[i].came = "nothing"
       PROVE  more[j].came = "nothing" /\ to[i] < to[j]
  <2>1. i \in 1 .. count /\ (j \in 1 .. count \/ j = count + 1)
    BY <1>7, <1>12
  <2>2. more[i] = resets[i] /\ to[i] = at[i] /\ at[i] \in 1 .. size
    BY <1>1, <1>4, <1>7, <1>9, <1>12, <2>1 DEF Matched
  <2>3. CASE j \in 1 .. count
    BY <1>1, <1>7, <1>9, <1>12, <2>1, <2>2, <2>3 DEF Matched
  <2>4. CASE j = count + 1
    BY <1>4, <1>7, <1>9, <2>2, <2>4
  <2> QED
    BY <2>1, <2>3, <2>4
<1>13. ASSUME NEW m \in DOMAIN longer, longer[m].kind = "reset"
       PROVE  \E i \in DOMAIN more : more[i].came = "nothing" /\ to[i] = m
  <2>1. CASE m = size + 1
    <3>1. count + 1 \in DOMAIN more
      BY <1>7
    <3> QED
      BY <1>7, <1>9, <2>1, <3>1
  <2>2. CASE m \in 1 .. size
    <3>1. m \in DOMAIN messages /\ messages[m].kind = "reset"
      BY <1>4, <1>13, <2>2
    <3>2. PICK i \in DOMAIN resets : resets[i].came = "nothing" /\ at[i] = m
      BY <1>1, <3>1 DEF Matched
    <3> QED
      BY <1>7, <1>9, <1>10, <3>2
  <2> QED
    BY <1>4, <2>1, <2>2
<1>14. Matched(to, more, longer)
  BY <1>11, <1>12, <1>13 DEF Matched
<1> QED
  BY <1>2, <1>5, <1>9, <1>14 DEF Matching

(* The message that is taken is the first one.                             *)
LEMMA TailMatches ==
  ASSUME NEW resets \in Seq(Entries), NEW messages \in Seq(Messages), messages # <<>>,
         Matching(resets, messages), Head(messages).kind = "append"
  PROVE  Matching(resets, Tail(messages))
<1>1. PICK at \in [DOMAIN resets -> Nat] : Matched(at, resets, messages)
  BY DEF Matching
<1>2. PICK rest : rest = Tail(messages)
  OBVIOUS
<1>3. PICK size : size = Len(rest)
  OBVIOUS
<1>4. /\ size \in Nat /\ DOMAIN rest = 1 .. size /\ DOMAIN messages = 1 .. size + 1
      /\ \A m \in 1 .. size : rest[m] = messages[m + 1]
      /\ messages[1] = Head(messages)
  BY <1>2, <1>3
<1>5. PICK to : to = [i \in DOMAIN resets |-> IF at[i] = 0 THEN 0 ELSE at[i] - 1]
  OBVIOUS
<1>6. to \in [DOMAIN resets -> Nat]
  BY <1>5
<1>7. \A i \in DOMAIN resets : resets[i].came = "nothing" =>
        at[i] \in 2 .. size + 1 /\ to[i] = at[i] - 1 /\ to[i] \in 1 .. size
  <2> SUFFICES ASSUME NEW i \in DOMAIN resets, resets[i].came = "nothing"
               PROVE  at[i] \in 2 .. size + 1 /\ to[i] = at[i] - 1 /\ to[i] \in 1 .. size
    OBVIOUS
  <2>1. at[i] \in 1 .. size + 1 /\ messages[at[i]].kind = "reset"
    BY <1>1, <1>4 DEF Matched
  <2>2. at[i] # 1
    BY <1>4, <2>1
  <2> QED
    BY <1>4, <1>5, <2>1, <2>2
<1>8. ASSUME NEW i \in DOMAIN resets, resets[i].came = "nothing"
      PROVE  /\ to[i] \in DOMAIN rest /\ rest[to[i]].kind = "reset"
             /\ rest[to[i]].scope = resets[i].scope
             /\ resets[i].live =>
                  \A m \in DOMAIN rest : m > to[i] => rest[m].scope # resets[i].scope
  <2>1. /\ messages[at[i]].kind = "reset"
        /\ messages[at[i]].scope = resets[i].scope
        /\ resets[i].live =>
             \A m \in 1 .. size + 1 : m > at[i] => messages[m].scope # resets[i].scope
    BY <1>1, <1>4, <1>8 DEF Matched
  <2>2. to[i] \in 1 .. size /\ to[i] + 1 = at[i]
    BY <1>4, <1>7, <1>8
  <2>3. rest[to[i]] = messages[at[i]]
    BY <1>4, <2>2
  <2>4. \A m \in 1 .. size : m > to[i] => m + 1 \in 1 .. size + 1 /\ m + 1 > at[i]
    BY <1>4, <2>2
  <2> QED
    BY <1>4, <2>1, <2>2, <2>3, <2>4
<1>9. ASSUME NEW i \in DOMAIN resets, NEW j \in DOMAIN resets, i < j,
             resets[i].came = "nothing"
      PROVE  resets[j].came = "nothing" /\ to[i] < to[j]
  <2>1. resets[j].came = "nothing" /\ at[i] < at[j]
    BY <1>1, <1>9 DEF Matched
  <2> QED
    BY <1>4, <1>7, <1>9, <2>1
<1>10. ASSUME NEW m \in DOMAIN rest, rest[m].kind = "reset"
       PROVE  \E i \in DOMAIN resets : resets[i].came = "nothing" /\ to[i] = m
  <2>1. m + 1 \in DOMAIN messages /\ messages[m + 1].kind = "reset"
    BY <1>4, <1>10
  <2>2. PICK i \in DOMAIN resets : resets[i].came = "nothing" /\ at[i] = m + 1
    BY <1>1, <2>1 DEF Matched
  <2>3. to[i] = at[i] - 1
    BY <1>7, <2>2
  <2>4. (m + 1) - 1 = m
    BY <1>4
  <2> QED
    BY <2>2, <2>3, <2>4
<1>11. Matched(to, resets, rest)
  BY <1>8, <1>9, <1>10 DEF Matched
<1> QED
  BY <1>2, <1>6, <1>11 DEF Matching

(* A reset that is taken is the one of the first entry that nothing came   *)
(* of.                                                                     *)
First(resets) ==
  CHOOSE i \in 1 .. Len(resets) :
    /\ resets[i].came = "nothing"
    /\ \A j \in 1 .. i - 1 : resets[j].came # "nothing"

Taken(first, resets, messages) ==
  /\ first \in DOMAIN resets /\ resets[first].came = "nothing"
  /\ Head(messages).scope = resets[first].scope
  /\ resets[first].live =>
       \A m \in DOMAIN Tail(messages) : Tail(messages)[m].scope # resets[first].scope
  /\ \A came \in {"opened", "failed"} :
       Matching([resets EXCEPT ![first].came = came], Tail(messages))

LEMMA FirstIsTaken ==
  ASSUME NEW resets \in Seq(Entries), NEW messages \in Seq(Messages), messages # <<>>,
         Matching(resets, messages), Head(messages).kind = "reset"
  PROVE  Taken(First(resets), resets, messages)
<1>1. PICK at \in [DOMAIN resets -> Nat] : Matched(at, resets, messages)
  BY DEF Matching
<1>2. PICK rest : rest = Tail(messages)
  OBVIOUS
<1>3. PICK size : size = Len(rest)
  OBVIOUS
<1>4. /\ size \in Nat /\ DOMAIN rest = 1 .. size /\ DOMAIN messages = 1 .. size + 1
      /\ \A m \in 1 .. size : rest[m] = messages[m + 1]
      /\ messages[1] = Head(messages)
  BY <1>2, <1>3
<1>5. PICK count : count = Len(resets)
  OBVIOUS
<1>6. count \in Nat /\ DOMAIN resets = 1 .. count
  BY <1>5
<1>7. PICK first \in DOMAIN resets : resets[first].came = "nothing" /\ at[first] = 1
  <2>1. 1 \in DOMAIN messages /\ messages[1].kind = "reset"
    BY <1>4
  <2> QED
    BY <1>1, <2>1 DEF Matched
<1>8. \A i \in DOMAIN resets : resets[i].came = "nothing" => at[i] \in 1 .. size + 1
  BY <1>1, <1>4 DEF Matched
<1>9. \A i, j \in DOMAIN resets : i < j /\ resets[i].came = "nothing" =>
        resets[j].came = "nothing" /\ at[i] < at[j]
  BY <1>1 DEF Matched
<1>10. \A j \in 1 .. first - 1 : resets[j].came # "nothing"
  <2> SUFFICES ASSUME NEW j \in 1 .. first - 1, resets[j].came = "nothing" PROVE FALSE
    OBVIOUS
  <2>1. j \in DOMAIN resets /\ j < first
    BY <1>6, <1>7
  <2>2. at[j] < at[first] /\ at[j] \in 1 .. size + 1
    BY <1>8, <1>9, <2>1
  <2> QED
    BY <1>4, <1>7, <2>2
<1>11. First(resets) = first
  <2>1. PICK got : got = First(resets)
    OBVIOUS
  <2>2. \E i \in 1 .. Len(resets) :
          /\ resets[i].came = "nothing"
          /\ \A j \in 1 .. i - 1 : resets[j].came # "nothing"
    BY <1>5, <1>6, <1>7, <1>10
  <2>3. /\ got \in 1 .. count /\ resets[got].came = "nothing"
        /\ \A j \in 1 .. got - 1 : resets[j].came # "nothing"
    BY <1>5, <2>1, <2>2 DEF First
  <2>4. ~(got < first) /\ ~(first < got)
    BY <1>6, <1>7, <1>10, <2>3
  <2> QED
    BY <1>6, <1>7, <2>1, <2>3, <2>4
<1>12. messages[1].scope = resets[first].scope
  BY <1>1, <1>7 DEF Matched
<1>13. ASSUME resets[first].live, NEW m \in DOMAIN rest PROVE rest[m].scope # resets[first].scope
  <2>1. m + 1 \in DOMAIN messages /\ m + 1 > 1 /\ rest[m] = messages[m + 1]
    BY <1>4
  <2> QED
    BY <1>1, <1>7, <1>13, <2>1 DEF Matched
<1>14. ASSUME NEW came \in {"opened", "failed"}
       PROVE  Matching([resets EXCEPT ![first].came = came], rest)
  <2>1. PICK others : others = [resets EXCEPT ![first].came = came]
    OBVIOUS
  <2>2. /\ DOMAIN others = DOMAIN resets
        /\ \A i \in DOMAIN resets :
             /\ others[i].scope = resets[i].scope /\ others[i].live = resets[i].live
             /\ others[i].came = IF i = first THEN came ELSE resets[i].came
    <3>1. \A i \in DOMAIN resets : resets[i] \in Entries
      BY <1>6
    <3>2. DOMAIN others = DOMAIN resets
      BY <2>1
    <3>3. ASSUME NEW i \in DOMAIN resets
          PROVE  /\ others[i].scope = resets[i].scope /\ others[i].live = resets[i].live
                 /\ others[i].came = IF i = first THEN came ELSE resets[i].came
      <4>1. PICK entry : entry = resets[i]
        OBVIOUS
      <4>2. entry \in Entries
        BY <3>1, <4>1
      <4>3. CASE i = first
        <5>1. others[i] = [entry EXCEPT !.came = came]
          BY <2>1, <4>1, <4>3
        <5> QED
          BY <4>1, <4>2, <4>3, <5>1 DEF Entries
      <4>4. CASE i # first
        BY <2>1, <4>4
      <4> QED
        BY <4>3, <4>4
    <3> QED
      BY <3>2, <3>3
  <2>3. PICK to : to = [i \in DOMAIN resets |-> IF at[i] = 0 THEN 0 ELSE at[i] - 1]
    OBVIOUS
  <2>4. to \in [DOMAIN others -> Nat]
    BY <2>2, <2>3
  <2>5. \A i \in DOMAIN resets : others[i].came = "nothing" =>
          /\ i # first /\ resets[i].came = "nothing" /\ first < i
          /\ at[i] \in 2 .. size + 1 /\ to[i] = at[i] - 1 /\ to[i] \in 1 .. size
    <3> SUFFICES ASSUME NEW i \in DOMAIN resets, others[i].came = "nothing"
                 PROVE  /\ i # first /\ resets[i].came = "nothing" /\ first < i
                        /\ at[i] \in 2 .. size + 1 /\ to[i] = at[i] - 1 /\ to[i] \in 1 .. size
      OBVIOUS
    <3>1. i # first /\ resets[i].came = "nothing"
      BY <1>14, <2>2
    <3>2. first < i
      BY <1>6, <1>7, <1>10, <3>1
    <3>3. at[i] \in 1 .. size + 1 /\ at[first] < at[i]
      BY <1>7, <1>8, <1>9, <3>1, <3>2
    <3>4. at[i] \in 2 .. size + 1
      BY <1>4, <1>7, <3>3
    <3> QED
      BY <1>4, <2>3, <3>1, <3>2, <3>4
  <2>6. ASSUME NEW i \in DOMAIN others, others[i].came = "nothing"
        PROVE  /\ to[i] \in DOMAIN rest /\ rest[to[i]].kind = "reset"
               /\ rest[to[i]].scope = others[i].scope
               /\ others[i].live =>
                    \A m \in DOMAIN rest : m > to[i] => rest[m].scope # others[i].scope
    <3>1. /\ messages[at[i]].kind = "reset"
          /\ messages[at[i]].scope = resets[i].scope
          /\ resets[i].live =>
               \A m \in 1 .. size + 1 : m > at[i] => messages[m].scope # resets[i].scope
      <4>1. i \in DOMAIN resets /\ resets[i].came = "nothing"
        BY <2>2, <2>5, <2>6
      <4>2. /\ messages[at[i]].kind = "reset"
            /\ messages[at[i]].scope = resets[i].scope
            /\ resets[i].live =>
                 \A m \in DOMAIN messages : m > at[i] => messages[m].scope # resets[i].scope
        BY <1>1, <4>1 DEF Matched
      <4> QED
        BY <1>4, <4>2
    <3>2. to[i] \in 1 .. size /\ to[i] + 1 = at[i]
      <4>1. i \in DOMAIN resets
        BY <2>2
      <4>2. at[i] \in 2 .. size + 1 /\ to[i] = at[i] - 1 /\ to[i] \in 1 .. size
        BY <2>5, <2>6, <4>1
      <4> QED
        BY <1>4, <4>2
    <3>3. rest[to[i]] = messages[at[i]]
      BY <1>4, <3>2
    <3>4. \A m \in 1 .. size : m > to[i] => m + 1 \in 1 .. size + 1 /\ m + 1 > at[i]
      BY <1>4, <3>2
    <3> QED
      BY <1>4, <2>2, <2>6, <3>1, <3>2, <3>3, <3>4
  <2>7. ASSUME NEW i \in DOMAIN others, NEW j \in DOMAIN others, i < j,
               others[i].came = "nothing"
        PROVE  others[j].came = "nothing" /\ to[i] < to[j]
    <3>1. first < i /\ resets[i].came = "nothing"
      BY <2>2, <2>5, <2>7
    <3>2. resets[j].came = "nothing" /\ at[i] < at[j] /\ j # first
      BY <1>6, <1>9, <2>2, <2>7, <3>1
    <3>3. others[j].came = "nothing"
      BY <2>2, <3>2
    <3> QED
      BY <1>4, <2>2, <2>5, <2>7, <3>2, <3>3
  <2>8. ASSUME NEW m \in DOMAIN rest, rest[m].kind = "reset"
        PROVE  \E i \in DOMAIN others : others[i].came = "nothing" /\ to[i] = m
    <3>1. m + 1 \in DOMAIN messages /\ messages[m + 1].kind = "reset" /\ m + 1 # 1
      BY <1>4, <2>8
    <3>2. PICK i \in DOMAIN resets : resets[i].came = "nothing" /\ at[i] = m + 1
      BY <1>1, <3>1 DEF Matched
    <3>3. i # first /\ others[i].came = "nothing"
      BY <1>7, <2>2, <3>1, <3>2
    <3> QED
      BY <1>4, <2>2, <2>5, <3>2, <3>3
  <2>9. Matched(to, others, rest)
    BY <2>6, <2>7, <2>8 DEF Matched
  <2> QED
    BY <2>1, <2>4, <2>9 DEF Matching
<1> QED
  BY <1>2, <1>4, <1>7, <1>11, <1>12, <1>13, <1>14 DEF Taken

LEMMA RepliedMatches ==
  ASSUME NEW resets \in Seq(Entries), NEW messages \in Seq(Messages), resets # <<>>,
         Matching(resets, messages), Head(resets).came # "nothing"
  PROVE  Matching(Tail(resets), messages)
<1>1. PICK at \in [DOMAIN resets -> Nat] : Matched(at, resets, messages)
  BY DEF Matching
<1>2. PICK rest : rest = Tail(resets)
  OBVIOUS
<1>3. PICK count : count = Len(rest)
  OBVIOUS
<1>4. /\ count \in Nat /\ DOMAIN rest = 1 .. count /\ DOMAIN resets = 1 .. count + 1
      /\ \A i \in 1 .. count : rest[i] = resets[i + 1]
      /\ resets[1] = Head(resets)
  BY <1>2, <1>3
<1>5. PICK to : to = [i \in 1 .. count |-> at[i + 1]]
  OBVIOUS
<1>6. \A i \in 1 .. count : i + 1 \in DOMAIN resets /\ to[i] = at[i + 1]
  BY <1>4, <1>5
<1>7. to \in [DOMAIN rest -> Nat]
  BY <1>4, <1>5, <1>6
<1>8. ASSUME NEW i \in DOMAIN rest, rest[i].came = "nothing"
      PROVE  /\ to[i] \in DOMAIN messages /\ messages[to[i]].kind = "reset"
             /\ messages[to[i]].scope = rest[i].scope
             /\ rest[i].live =>
                  \A m \in DOMAIN messages : m > to[i] => messages[m].scope # rest[i].scope
  <2>1. i + 1 \in DOMAIN resets /\ to[i] = at[i + 1] /\ rest[i] = resets[i + 1]
    BY <1>4, <1>6
  <2> QED
    BY <1>1, <1>8, <2>1 DEF Matched
<1>9. ASSUME NEW i \in DOMAIN rest, NEW j \in DOMAIN rest, i < j, rest[i].came = "nothing"
      PROVE  rest[j].came = "nothing" /\ to[i] < to[j]
  <2>1. /\ i + 1 \in DOMAIN resets /\ to[i] = at[i + 1] /\ rest[i] = resets[i + 1]
        /\ j + 1 \in DOMAIN resets /\ to[j] = at[j + 1] /\ rest[j] = resets[j + 1]
        /\ i + 1 < j + 1
    <3>1. i \in 1 .. count /\ j \in 1 .. count
      BY <1>4
    <3>2. i + 1 < j + 1
      BY <1>4, <1>9, <3>1
    <3> QED
      BY <1>4, <1>6, <3>1, <3>2
  <2> QED
    BY <1>1, <1>9, <2>1 DEF Matched
<1>10. ASSUME NEW m \in DOMAIN messages, messages[m].kind = "reset"
       PROVE  \E i \in DOMAIN rest : rest[i].came = "nothing" /\ to[i] = m
  <2>1. PICK i \in DOMAIN resets : resets[i].came = "nothing" /\ at[i] = m
    BY <1>1, <1>10 DEF Matched
  <2>2. i # 1
    BY <1>4, <2>1
  <2>3. i - 1 \in 1 .. count /\ (i - 1) + 1 = i
    BY <1>4, <2>1, <2>2
  <2> QED
    BY <1>4, <1>6, <2>1, <2>3
<1>11. Matched(to, rest, messages)
  BY <1>8, <1>9, <1>10 DEF Matched
<1> QED
  BY <1>2, <1>7, <1>11 DEF Matching

LEMMA DeadMatches ==
  ASSUME NEW resets \in Seq(Entries), NEW messages \in Seq(Messages),
         Matching(resets, messages), NEW dead, DOMAIN dead = DOMAIN resets,
         \A i \in DOMAIN resets :
           dead[i].scope = resets[i].scope /\ dead[i].came = resets[i].came /\ ~dead[i].live
  PROVE  Matching(dead, messages)
<1>1. PICK at \in [DOMAIN resets -> Nat] : Matched(at, resets, messages)
  BY DEF Matching
<1>2. \A i \in DOMAIN dead : dead[i].came = "nothing" =>
        /\ at[i] \in DOMAIN messages /\ messages[at[i]].kind = "reset"
        /\ messages[at[i]].scope = dead[i].scope /\ ~dead[i].live
  BY <1>1 DEF Matched
<1>3. \A i, j \in DOMAIN dead : i < j /\ dead[i].came = "nothing" =>
        dead[j].came = "nothing" /\ at[i] < at[j]
  BY <1>1 DEF Matched
<1>4. \A m \in DOMAIN messages : messages[m].kind = "reset" =>
        \E i \in DOMAIN dead : dead[i].came = "nothing" /\ at[i] = m
  <2> SUFFICES ASSUME NEW m \in DOMAIN messages, messages[m].kind = "reset"
               PROVE  \E i \in DOMAIN dead : dead[i].came = "nothing" /\ at[i] = m
    OBVIOUS
  <2>1. PICK i \in DOMAIN resets : resets[i].came = "nothing" /\ at[i] = m
    BY <1>1 DEF Matched
  <2> QED
    BY <2>1
<1>5. Matched(at, dead, messages)
  BY <1>2, <1>3, <1>4 DEF Matched
<1> QED
  BY <1>1, <1>5 DEF Matching

-----------------------------------------------------------------------------
(* The lines of a log file.                                                *)
Run(from, to) == [i \in 1 .. to - from |-> from + i]

LEMMA RunGrows ==
  ASSUME NEW from \in Nat, NEW to \in Nat, from <= to, NEW n \in Nat
  PROVE  Run(from, to) \o Run(to, to + n) = Run(from, to + n)
<1>1. PICK a : a = Run(from, to)
  OBVIOUS
<1>2. PICK b : b = Run(to, to + n)
  OBVIOUS
<1>3. PICK c : c = Run(from, to + n)
  OBVIOUS
<1>4. to - from \in Nat /\ (to + n) - from \in Nat /\ (to + n) - to = n
  OBVIOUS
<1>5. /\ a \in Seq(Nat) /\ Len(a) = to - from
      /\ \A i \in 1 .. to - from : a[i] = from + i
  BY <1>1, <1>4 DEF Run
<1>6. /\ b \in Seq(Nat) /\ Len(b) = n /\ \A i \in 1 .. n : b[i] = to + i
  BY <1>2, <1>4 DEF Run
<1>7. /\ c \in Seq(Nat) /\ Len(c) = (to + n) - from
      /\ \A i \in 1 .. (to + n) - from : c[i] = from + i
  BY <1>3, <1>4 DEF Run
<1>8. PICK ab : ab = a \o b
  OBVIOUS
<1>9. /\ ab \in Seq(Nat) /\ Len(ab) = (to - from) + n
      /\ \A i \in 1 .. (to - from) + n :
           ab[i] = IF i <= to - from THEN a[i] ELSE b[i - (to - from)]
  <2>1. /\ ab \in Seq(Nat) /\ Len(ab) = Len(a) + Len(b)
        /\ \A i \in 1 .. Len(a) + Len(b) : ab[i] = IF i <= Len(a) THEN a[i] ELSE b[i - Len(a)]
    BY <1>5, <1>6, <1>8, ConcatProperties
  <2> QED
    BY <1>5, <1>6, <2>1
<1>10. Len(ab) = Len(c)
  BY <1>4, <1>7, <1>9
<1>11. ASSUME NEW i \in 1 .. Len(ab) PROVE ab[i] = c[i]
  <2>1. i \in 1 .. (to - from) + n /\ i \in 1 .. (to + n) - from
    BY <1>4, <1>9
  <2>2. c[i] = from + i
    BY <1>7, <2>1
  <2>3. CASE i <= to - from
    BY <1>5, <1>9, <2>1, <2>2, <2>3
  <2>4. CASE ~(i <= to - from)
    <3>1. i - (to - from) \in 1 .. n /\ to + (i - (to - from)) = from + i
      BY <1>4, <2>1, <2>4
    <3> QED
      BY <1>6, <1>9, <2>1, <2>2, <2>4, <3>1
  <2> QED
    BY <2>3, <2>4
<1>12. ab = c
  BY <1>7, <1>9, <1>10, <1>11, SeqEqual
<1> QED
  BY <1>1, <1>2, <1>3, <1>8, <1>12

Complete(text, messages, s, from, to) == Sent(text, messages, s) = Run(from, to)

LEMMA CompleteMeans ==
  LogFileIsComplete <=>
    \A s \in Scopes : buffers[s].target = "active" =>
      Complete(logFiles[s], wire, s, since[s], lastLine[s])
BY DEF LogFileIsComplete, Complete, Run

LEMMA NewLinesRun ==
  ASSUME NEW s \in Scopes, NEW n \in Nat, lastLine[s] \in Nat
  PROVE  /\ NewLines(s, n) = Run(lastLine[s], lastLine[s] + n)
         /\ NewLines(s, n) \in Seq(Nat) /\ Len(NewLines(s, n)) = n
         /\ \A i \in 1 .. n : NewLines(s, n)[i] = lastLine[s] + i
<1>1. PICK last : last = lastLine[s]
  OBVIOUS
<1>2. last \in Nat /\ (last + n) - last = n
  BY <1>1
<1>3. NewLines(s, n) = [i \in 1 .. n |-> last + i]
  BY <1>1 DEF NewLines
<1>4. Run(last, last + n) = [i \in 1 .. n |-> last + i]
  BY <1>2 DEF Run
<1>5. PICK new : new = [i \in 1 .. n |-> last + i]
  OBVIOUS
<1>6. new \in Seq(Nat) /\ Len(new) = n /\ \A i \in 1 .. n : new[i] = last + i
  BY <1>2, <1>5
<1> QED
  BY <1>1, <1>3, <1>4, <1>5, <1>6

(* appendConsoleEntries keeps the buffers.                                 *)
Appended(s, buffer) ==
  /\ BuffersInv' /\ buffers'[s].target = buffer.target
  /\ \A t \in Scopes : t # s => buffers'[t] = buffers[t] /\ lastLine'[t] = lastLine[t]

LEMMA AppendKeepsBuffers ==
  ASSUME BuffersInv, NEW s \in Scopes, NEW n \in Nat, NEW buffer,
         Holds(buffer, lastLine[s], cleared[s]), cleared' = cleared,
         AppendConsoleEntries(s, n, buffer)
  PROVE  Appended(s, buffer)
<1>1. PICK last : last = lastLine[s]
  OBVIOUS
<1>2. last \in Nat
  BY <1>1 DEF BuffersInv
<1>3. PICK new : new = NewLines(s, n)
  OBVIOUS
<1>4. new \in Seq(Nat) /\ Len(new) = n /\ \A i \in 1 .. n : new[i] = last + i
  BY <1>1, <1>2, <1>3, NewLinesRun
<1>12. Follow(new, last, n)
  BY <1>4 DEF Follow
<1>5. PICK after : after = TrimConsoleBuffer([buffer EXCEPT !.lines = @ \o new])
  OBVIOUS
<1>13. Grown(after, buffer, new)
  BY <1>5 DEF Grown
<1>6. Holds(after, last + n, cleared[s]) /\ after.target = buffer.target
  <2>1. PICK start : start = cleared[s]
    OBVIOUS
  <2>2. Holds(buffer, last, start)
    BY <1>1, <2>1
  <2>3. Holds(after, last + n, start) /\ after.target = buffer.target
    BY <1>2, <1>4, <1>12, <1>13, <2>2, GrownHolds
  <2> QED
    BY <2>1, <2>3
<1>7. after \in Buffers /\ last + n \in Nat
  BY <1>6 DEF Holds
<1>8. buffers' = [buffers EXCEPT ![s] = after] /\ lastLine' = [lastLine EXCEPT ![s] = last + n]
  BY <1>1, <1>3, <1>5 DEF AppendConsoleEntries
<1>9. /\ buffers \in [Scopes -> Buffers] /\ lastLine \in [Scopes -> Nat]
      /\ cleared \in [Scopes -> Nat]
      /\ \A t \in Scopes : Holds(buffers[t], lastLine[t], cleared[t])
  BY DEF BuffersInv
<1>10. /\ buffers' \in [Scopes -> Buffers] /\ lastLine' \in [Scopes -> Nat]
       /\ buffers'[s] = after /\ lastLine'[s] = last + n
       /\ \A t \in Scopes : t # s => buffers'[t] = buffers[t] /\ lastLine'[t] = lastLine[t]
  BY <1>7, <1>8, <1>9
<1>11. \A t \in Scopes : Holds(buffers'[t], lastLine'[t], cleared'[t])
  BY <1>6, <1>9, <1>10
<1> QED
  BY <1>6, <1>9, <1>10, <1>11 DEF Appended, BuffersInv

(* ... and the log.                                                        *)
NoReset(s) == \A m \in DOMAIN wire : wire[m].scope = s => wire[m].kind # "reset"
NoneAlive(resets, s) == \A i \in DOMAIN resets : resets[i].live => resets[i].scope # s
Running(s) == buffers[s].target = "active"

LEMMA AppendKeepsLog ==
  ASSUME BuffersInv, LogInv, NEW s \in Scopes, NEW n \in Nat, NEW buffer,
         AppendConsoleEntries(s, n, buffer), Appended(s, buffer),
         NEW resets \in Seq(Entries), waiting' = resets, logFiles' = logFiles,
         Matching(resets, wire), OneAlive(resets),
         \A i \in DOMAIN resets : Quiet(resets[i]),
         NEW opened \in [Scopes -> Nat], since' = opened,
         \A t \in Scopes : opened[t] <= lastLine[t] /\ (t # s => opened[t] = since[t]),
         buffer.target = "active" =>
           /\ NoneAlive(resets, s) /\ NoReset(s)
           /\ Complete(logFiles[s], wire, s, opened[s], lastLine[s]),
         buffer.target # "active" => buffer.target = buffers[s].target
  PROVE  LogInv'
<1>1. PICK last : last = lastLine[s]
  OBVIOUS
<1>2. last \in Nat /\ lastLine \in [Scopes -> Nat] /\ lastLine' \in [Scopes -> Nat]
  BY <1>1 DEF BuffersInv, Appended
<1>3. PICK new : new = NewLines(s, n)
  OBVIOUS
<1>4. new \in Seq(Nat) /\ new = Run(last, last + n)
  BY <1>1, <1>2, <1>3, NewLinesRun
<1>5. PICK message : message = [kind |-> "append", scope |-> s, lines |-> new]
  OBVIOUS
<1>6. /\ message \in Messages /\ message.kind = "append" /\ message.scope = s
      /\ message.lines = new
  BY <1>4, <1>5 DEF Messages
<1>7. wire' = IF buffer.target = "active" THEN Append(wire, message) ELSE wire
  BY <1>3, <1>5 DEF AppendConsoleEntries, Exports
<1>8. /\ buffers'[s].target = buffer.target
      /\ \A t \in Scopes : t # s => buffers'[t] = buffers[t] /\ lastLine'[t] = lastLine[t]
      /\ lastLine'[s] = last + n
  BY <1>1, <1>2 DEF Appended, AppendConsoleEntries
<1>9. /\ wire \in Seq(Messages) /\ logFiles \in [Scopes -> Seq(Nat)]
      /\ \A t \in Scopes : Running(t) => NoReset(t)
      /\ \A t \in Scopes : Running(t) =>
           Complete(logFiles[t], wire, t, since[t], lastLine[t])
  BY CompleteMeans DEF LogInv, LogTypes, Running, NoReset
<1>10. LogTypes'
  <2>1. wire' \in Seq(Messages)
    BY <1>6, <1>7, <1>9
  <2>2. \A t \in Scopes : opened[t] <= lastLine'[t]
    <3> SUFFICES ASSUME NEW t \in Scopes PROVE opened[t] <= lastLine'[t]
      OBVIOUS
    <3>1. opened[t] \in Nat /\ opened[t] <= lastLine[t] /\ lastLine[t] \in Nat
      BY <1>2
    <3>2. CASE t = s
      BY <1>1, <1>2, <1>8, <3>1, <3>2
    <3>3. CASE t # s
      BY <1>8, <3>1, <3>3
    <3> QED
      BY <3>2, <3>3
  <2> QED
    BY <1>9, <2>1, <2>2 DEF LogTypes
<1>11. CASE buffer.target # "active"
  <2>1. wire' = wire /\ \A t \in Scopes : buffers'[t].target = buffers[t].target
    BY <1>7, <1>8, <1>11
  <2>2. Matching(waiting, wire)' /\ OneAlive(waiting)'
    <3>1. Matching(waiting, wire)'
      BY <2>1
    <3>2. OneAlive(waiting)'
      BY DEF OneAlive
    <3> QED
      BY <3>1, <3>2
  <2>3. \A i \in DOMAIN resets : resets[i].scope \in Scopes
    <3>1. \A i \in DOMAIN resets : resets[i] \in Entries
      OBVIOUS
    <3> QED
      BY <3>1 DEF Entries
  <2>4. (\A i \in DOMAIN waiting : Quiet(waiting[i]))'
    BY <2>1, <2>3 DEF Quiet
  <2>5. (\A t \in Scopes : Running(t) => NoReset(t))'
    BY <1>9, <2>1 DEF Running, NoReset
  <2>6. ASSUME NEW t \in Scopes, buffers'[t].target = "active"
        PROVE  Complete(logFiles[t], wire, t, opened[t], lastLine'[t])
    <3>1. t # s
      BY <1>8, <1>11, <2>6
    <3> QED
      BY <1>8, <1>9, <2>1, <2>6, <3>1 DEF Running
  <2>7. LogFileIsComplete'
    BY <2>1, <2>6 DEF LogFileIsComplete, Complete, Run
  <2> QED
    BY <1>10, <2>2, <2>4, <2>5, <2>7 DEF LogInv, Running, NoReset
<1>12. CASE buffer.target = "active"
  <2>1. PICK longer : longer = Append(wire, message)
    OBVIOUS
  <2>2. wire' = longer
    BY <1>7, <1>12, <2>1
  <2>3. \A m \in DOMAIN longer : longer[m] = message \/ (m \in DOMAIN wire /\ longer[m] = wire[m])
    BY <1>9, <2>1
  <2>4. NoneAlive(resets, s) /\ NoReset(s)
    BY <1>12
  <2>5. Matching(resets, longer)
    BY <1>6, <1>9, <2>1, <2>4, AppendMatches DEF NoneAlive
  <2>6. Matching(waiting, wire)' /\ OneAlive(waiting)'
    <3>1. Matching(waiting, wire)'
      BY <2>2, <2>5
    <3>2. OneAlive(waiting)'
      BY DEF OneAlive
    <3> QED
      BY <3>1, <3>2
  <2>7. ASSUME NEW i \in DOMAIN resets, resets[i].live
        PROVE  /\ buffers'[resets[i].scope].target = "none"
               /\ resets[i].came = "opened" =>
                    /\ logFiles[resets[i].scope] = <<>>
                    /\ \A m \in DOMAIN longer : longer[m].scope # resets[i].scope
    <3>1. resets[i].scope \in Scopes /\ resets[i].scope # s
      <4>1. resets[i] \in Entries
        OBVIOUS
      <4>2. resets[i].scope \in Scopes
        BY <4>1 DEF Entries
      <4> QED
        BY <2>4, <2>7, <4>2 DEF NoneAlive
    <3>2. Quiet(resets[i])
      OBVIOUS
    <3>3. buffers'[resets[i].scope].target = "none"
      BY <1>8, <2>7, <3>1, <3>2 DEF Quiet
    <3>4. ASSUME resets[i].came = "opened"
          PROVE  /\ logFiles[resets[i].scope] = <<>>
                 /\ \A m \in DOMAIN longer : longer[m].scope # resets[i].scope
      BY <1>6, <2>3, <2>7, <3>1, <3>2, <3>4 DEF Quiet
    <3> QED
      BY <3>3, <3>4
  <2>8. (\A i \in DOMAIN waiting : Quiet(waiting[i]))'
    BY <2>2, <2>7 DEF Quiet
  <2>9. (\A t \in Scopes : Running(t) => NoReset(t))'
    <3> SUFFICES ASSUME NEW t \in Scopes, buffers'[t].target = "active",
                        NEW m \in DOMAIN longer, longer[m].scope = t
                 PROVE  longer[m].kind # "reset"
      BY <2>2 DEF Running, NoReset
    <3>1. NoReset(t)
      BY <1>8, <1>9, <2>4 DEF Running
    <3> QED
      BY <1>6, <2>3, <3>1 DEF NoReset
  <2>10. ASSUME NEW t \in Scopes, buffers'[t].target = "active"
         PROVE  Complete(logFiles[t], longer, t, opened[t], lastLine'[t])
    <3>1. Sent(logFiles[t], longer, t) = Delivered(Sent(logFiles[t], wire, t), message, t)
      BY <1>6, <1>9, <2>1, SentAppend
    <3>2. CASE t = s
      <4>1. Sent(logFiles[s], wire, s) = Run(opened[s], last)
        BY <1>1, <1>12 DEF Complete
      <4>2. Sent(logFiles[s], longer, s) = Run(opened[s], last) \o Run(last, last + n)
        BY <1>4, <1>6, <3>1, <3>2, <4>1 DEF Delivered
      <4>3. opened[s] \in Nat /\ opened[s] <= last
        BY <1>1
      <4>4. Run(opened[s], last) \o Run(last, last + n) = Run(opened[s], last + n)
        BY <1>2, <4>3, RunGrows
      <4> QED
        BY <1>8, <3>2, <4>2, <4>4 DEF Complete
    <3>3. CASE t # s
      <4>1. Sent(logFiles[t], longer, t) = Sent(logFiles[t], wire, t)
        BY <1>6, <3>1, <3>3 DEF Delivered
      <4>2. Sent(logFiles[t], wire, t) = Run(since[t], lastLine[t])
        BY <1>8, <1>9, <2>10, <3>3 DEF Complete, Running
      <4> QED
        BY <1>8, <3>3, <4>1, <4>2 DEF Complete
    <3> QED
      BY <3>2, <3>3
  <2>11. LogFileIsComplete'
    BY <2>2, <2>10 DEF LogFileIsComplete, Complete, Run
  <2> QED
    BY <1>10, <2>6, <2>8, <2>9, <2>11 DEF LogInv, Running, NoReset
<1> QED
  BY <1>11, <1>12

(* What leaves the messages alone, and opens no buffer for export, keeps   *)
(* the log.                                                                *)
LEMMA LogLeftAlone ==
  ASSUME LogInv, UNCHANGED <<logVars, lastLine>>,
         \A s \in Scopes : \/ buffers'[s].target = buffers[s].target
                           \/ buffers[s].target # "none" /\ buffers'[s].target # "active"
  PROVE  LogInv'
<1>1. UNCHANGED <<wire, waiting, logFiles, since, lastLine>>
  BY DEF logVars
<1>2. \A i \in DOMAIN waiting : waiting[i].scope \in Scopes
  <2>1. waiting \in Seq(Entries)
    BY DEF LogInv, LogTypes
  <2>2. \A i \in DOMAIN waiting : waiting[i] \in Entries
    BY <2>1
  <2> QED
    BY <2>2 DEF Entries
<1>3. LogTypes' /\ Matching(waiting, wire)' /\ OneAlive(waiting)'
  <2>1. LogTypes'
    BY <1>1 DEF LogInv, LogTypes
  <2>2. Matching(waiting, wire)'
    BY <1>1 DEF LogInv
  <2>3. OneAlive(waiting)'
    BY <1>1 DEF LogInv
  <2> QED
    BY <2>1, <2>2, <2>3
<1>4. (\A i \in DOMAIN waiting : Quiet(waiting[i]))'
  BY <1>1, <1>2 DEF LogInv, Quiet
<1>5. (\A s \in Scopes : buffers[s].target = "active" =>
         \A m \in DOMAIN wire : wire[m].scope = s => wire[m].kind # "reset")'
  BY <1>1 DEF LogInv
<1>6. LogFileIsComplete'
  BY <1>1 DEF LogInv, LogFileIsComplete
<1> QED
  BY <1>3, <1>4, <1>5, <1>6 DEF LogInv

-----------------------------------------------------------------------------
(* The steps.                                                              *)
LEMMA FlushKeeps ==
  ASSUME ConsoleInv, Flush PROVE ConsoleInv'
<1> USE DEF Flush
<1>1. PanelsInv' /\ BuffersInv'
  BY DEF ConsoleInv, PanelsInv, BuffersInv
<1>2. ScreenInv'
  <2>1. activeScope \in Scopes /\ buffers[activeScope] \in Buffers
    BY DEF ConsoleInv, PanelsInv, BuffersInv
  <2>2. Len(Rendered(panels[activeScope], buffers[activeScope]).lines) <= MaxRender
    BY <2>1, RenderedIsShort
  <2>3. /\ screen' = Rendered(panels[activeScope], buffers[activeScope])
        /\ raf' = FALSE /\ flag' = FALSE
    OBVIOUS
  <2>4. (Rendered(panels[activeScope], buffers[activeScope]))'
          = Rendered(panels[activeScope], buffers[activeScope])
    BY DEF Rendered
  <2>5. Len(screen'.lines) <= MaxRender
    BY <2>2, <2>3
  <2> QED
    BY <2>3, <2>4, <2>5 DEF ScreenInv
<1>3. LogInv'
  BY LogLeftAlone DEF ConsoleInv
<1> QED
  BY <1>1, <1>2, <1>3 DEF ConsoleInv

LEMMA TargetSame ==
  ASSUME LogInv, UNCHANGED <<logVars, lastLine>>,
         \A s \in Scopes : buffers'[s].target = buffers[s].target
  PROVE  LogInv'
BY LogLeftAlone

LEMMA ClearKeeps ==
  ASSUME ConsoleInv, ClearConsole PROVE ConsoleInv'
<1> USE DEF ClearConsole
<1>1. PanelsInv'
  BY DEF ConsoleInv, PanelsInv
<1>2. PICK a : a = activeScope
  OBVIOUS
<1>3. PICK after : after = ClearedBuffer(buffers[a])
  OBVIOUS
<1>4. /\ a \in Scopes /\ buffers \in [Scopes -> Buffers]
      /\ lastLine \in [Scopes -> Nat] /\ cleared \in [Scopes -> Nat]
      /\ \A s \in Scopes : Holds(buffers[s], lastLine[s], cleared[s])
  BY <1>2 DEF ConsoleInv, PanelsInv, BuffersInv
<1>5. Holds(after, lastLine[a], lastLine[a]) /\ after \in Buffers
  BY <1>3, <1>4, ClearedHolds DEF Holds
<1>6. /\ buffers' = [buffers EXCEPT ![a] = after]
      /\ cleared' = [cleared EXCEPT ![a] = lastLine[a]] /\ lastLine' = lastLine
  BY <1>2, <1>3
<1>7. /\ buffers' \in [Scopes -> Buffers] /\ cleared' \in [Scopes -> Nat]
      /\ buffers'[a] = after /\ cleared'[a] = lastLine[a]
      /\ \A s \in Scopes : s # a => buffers'[s] = buffers[s] /\ cleared'[s] = cleared[s]
  BY <1>4, <1>5, <1>6
<1>8. BuffersInv'
  <2>1. \A s \in Scopes : Holds(buffers'[s], lastLine'[s], cleared'[s])
    BY <1>4, <1>5, <1>6, <1>7
  <2> QED
    BY <1>4, <1>6, <1>7, <2>1 DEF BuffersInv
<1>9. ScreenInv'
  BY RequestKeepsScreen DEF ConsoleInv
<1>10. after.target = buffers[a].target
  BY <1>3, <1>4 DEF ClearedBuffer, Buffers
<1>11. LogInv'
  BY <1>7, <1>10, TargetSame DEF ConsoleInv
<1> QED
  BY <1>1, <1>8, <1>9, <1>11 DEF ConsoleInv

LEMMA FinishConsoleKeeps ==
  ASSUME ConsoleInv, NEW s \in Scopes, FinishConsole(s) PROVE ConsoleInv'
<1> USE DEF FinishConsole
<1>1. PanelsInv'
  BY DEF ConsoleInv, PanelsInv
<1>2. PICK target : target = "inactive"
  OBVIOUS
<1>3. PICK after : after = [buffers[s] EXCEPT !.target = target]
  OBVIOUS
<1>4. /\ activeScope \in Scopes /\ buffers \in [Scopes -> Buffers]
      /\ lastLine \in [Scopes -> Nat] /\ cleared \in [Scopes -> Nat]
      /\ \A t \in Scopes : Holds(buffers[t], lastLine[t], cleared[t])
  BY DEF ConsoleInv, PanelsInv, BuffersInv
<1>5. PICK start : start = cleared[s]
  OBVIOUS
<1>6. PICK last : last = lastLine[s]
  OBVIOUS
<1>7. PICK buffer : buffer = buffers[s]
  OBVIOUS
<1>8. target \in Targets /\ Holds(buffer, last, start)
  BY <1>2, <1>4, <1>5, <1>6, <1>7 DEF Targets
<1>9. /\ Holds(after, last, start) /\ after.target = target
      /\ after.lines = buffer.lines /\ after.dropped = buffer.dropped
  BY <1>3, <1>7, <1>8, RetargetedHolds
<1>10. after \in Buffers
  BY <1>9 DEF Holds
<1>11. buffers' = [buffers EXCEPT ![s] = after]
  BY <1>2, <1>3
<1>12. /\ buffers' \in [Scopes -> Buffers] /\ buffers'[s] = after
       /\ \A t \in Scopes : t # s => buffers'[t] = buffers[t]
  BY <1>4, <1>10, <1>11
<1>13. BuffersInv'
  <2>1. \A t \in Scopes : Holds(buffers'[t], lastLine'[t], cleared'[t])
    BY <1>4, <1>5, <1>6, <1>9, <1>12
  <2> QED
    BY <1>4, <1>12, <2>1 DEF BuffersInv
<1>14. ScreenInv'
  <2>1. PICK old : old = buffers[activeScope]
    OBVIOUS
  <2>2. PICK new : new = buffers'[activeScope]
    OBVIOUS
  <2>3. new.lines = old.lines /\ new.dropped = old.dropped
    BY <1>4, <1>7, <1>9, <1>12, <2>1, <2>2
  <2>4. Rendered(panels[activeScope], new) = Rendered(panels[activeScope], old)
    BY <2>3 DEF Rendered
  <2> QED
    BY <2>1, <2>2, <2>4 DEF ConsoleInv, ScreenInv, screenVars
<1>15. LogInv'
  <2>1. buffers[s].target # "none" /\ buffers'[s].target # "active"
    BY <1>2, <1>9, <1>12
  <2>2. \A t \in Scopes : \/ buffers'[t].target = buffers[t].target
                          \/ buffers[t].target # "none" /\ buffers'[t].target # "active"
    BY <1>12, <2>1
  <2> QED
    BY <2>2, LogLeftAlone DEF ConsoleInv
<1> QED
  BY <1>1, <1>13, <1>14, <1>15 DEF ConsoleInv

LEMMA ShowKeeps ==
  ASSUME ConsoleInv, NEW s \in Scopes, SetConsoleScope(s) PROVE ConsoleInv'
<1> USE DEF SetConsoleScope
<1>1. PanelsInv' /\ BuffersInv'
  BY DEF ConsoleInv, PanelsInv, BuffersInv
<1>2. ScreenInv'
  BY RequestKeepsScreen DEF ConsoleInv
<1>3. LogInv'
  BY TargetSame DEF ConsoleInv
<1> QED
  BY <1>1, <1>2, <1>3 DEF ConsoleInv

LEMMA ToggleOpenKeeps ==
  ASSUME ConsoleInv, ToggleConsoleOpen PROVE ConsoleInv'
<1> USE DEF ToggleConsoleOpen
<1>1. BuffersInv'
  BY DEF ConsoleInv, BuffersInv
<1>2. PanelsInv'
  BY DEF ConsoleInv, PanelsInv, ToggledOpen
<1>3. ScreenInv'
  BY RequestKeepsScreen DEF ConsoleInv
<1>4. LogInv'
  BY TargetSame DEF ConsoleInv
<1> QED
  BY <1>1, <1>2, <1>3, <1>4 DEF ConsoleInv

LEMMA ToggleExpandedKeeps ==
  ASSUME ConsoleInv, ToggleConsoleExpanded PROVE ConsoleInv'
<1> USE DEF ToggleConsoleExpanded
<1>1. BuffersInv'
  BY DEF ConsoleInv, BuffersInv
<1>2. PanelsInv'
  BY DEF ConsoleInv, PanelsInv
<1>3. ScreenInv'
  <2>1. CASE ShouldRender(panels[activeScope])
    <3>1. UNCHANGED <<flag, raf, screen, activeScope, buffers>>
      BY <2>1 DEF screenVars
    <3>2. activeScope \in Scopes /\ panels'[activeScope].open
      BY DEF ConsoleInv, PanelsInv
    <3>3. Rendered(panels'[activeScope], buffers[activeScope])
            = Rendered(panels[activeScope], buffers[activeScope])
      BY <2>1, <3>2 DEF Rendered, ShouldRender
    <3> QED
      BY <3>1, <3>3 DEF ConsoleInv, ScreenInv
  <2>2. CASE ~ShouldRender(panels[activeScope])
    BY <2>2, RequestKeepsScreen DEF ConsoleInv
  <2> QED
    BY <2>1, <2>2
<1>4. LogInv'
  BY TargetSame DEF ConsoleInv
<1> QED
  BY <1>1, <1>2, <1>3, <1>4 DEF ConsoleInv

LEMMA AppendLinesKeeps ==
  ASSUME ConsoleInv, NEW s \in Scopes, AppendLines(s) PROVE ConsoleInv'
<1>1. PICK n \in {1, 2} :
        /\ AppendConsoleEntries(s, n, buffers[s])
        /\ UNCHANGED <<activeScope, panels, cleared, waiting, logFiles, resetsLeft, since>>
        /\ IF s = activeScope /\ ShouldRender(panels[s])
           THEN ScheduleRender ELSE UNCHANGED screenVars
  BY DEF AppendLines
<1>2. n \in Nat /\ Holds(buffers[s], lastLine[s], cleared[s]) /\ BuffersInv /\ LogInv
  BY DEF ConsoleInv, BuffersInv
<1>3. PanelsInv'
  BY <1>1 DEF ConsoleInv, PanelsInv
<1>4. Appended(s, buffers[s])
  BY <1>1, <1>2, AppendKeepsBuffers
<1>5. ScreenInv'
  <2>1. CASE s = activeScope /\ ShouldRender(panels[s])
    BY <1>1, <2>1 DEF ConsoleInv, ScreenInv, ScheduleRender
  <2>2. CASE ~(s = activeScope /\ ShouldRender(panels[s]))
    <3>1. UNCHANGED <<flag, raf, screen, activeScope, panels>> /\ activeScope \in Scopes
      BY <1>1, <2>2 DEF screenVars, ConsoleInv, PanelsInv
    <3>2. Rendered(panels[activeScope], buffers'[activeScope])
            = Rendered(panels[activeScope], buffers[activeScope])
      BY <1>4, <2>2, <3>1 DEF Rendered, Appended
    <3> QED
      BY <3>1, <3>2 DEF ConsoleInv, ScreenInv
  <2> QED
    BY <2>1, <2>2
<1>6. LogInv'
  <2>1. PICK resets : resets = waiting
    OBVIOUS
  <2>2. PICK opened : opened = since
    OBVIOUS
  <2>3. PICK buffer : buffer = buffers[s]
    OBVIOUS
  <2>4. /\ resets \in Seq(Entries) /\ waiting' = resets /\ logFiles' = logFiles
        /\ Matching(resets, wire) /\ OneAlive(resets)
        /\ \A i \in DOMAIN resets : Quiet(resets[i])
        /\ opened \in [Scopes -> Nat] /\ since' = opened
        /\ \A t \in Scopes : opened[t] <= lastLine[t] /\ (t # s => opened[t] = since[t])
    BY <1>1, <1>2, <2>1, <2>2 DEF LogInv, LogTypes
  <2>5. ASSUME buffer.target = "active"
        PROVE  /\ NoneAlive(resets, s) /\ NoReset(s)
               /\ Complete(logFiles[s], wire, s, opened[s], lastLine[s])
    <3>1. NoneAlive(resets, s)
      BY <2>3, <2>4, <2>5 DEF NoneAlive, Quiet
    <3>2. NoReset(s)
      BY <1>2, <2>3, <2>5 DEF NoReset, LogInv
    <3>3. Complete(logFiles[s], wire, s, opened[s], lastLine[s])
      BY <1>2, <2>2, <2>3, <2>5, CompleteMeans DEF LogInv
    <3> QED
      BY <3>1, <3>2, <3>3
  <2>6. AppendConsoleEntries(s, n, buffer) /\ Appended(s, buffer)
    BY <1>1, <1>4, <2>3
  <2> QED
    BY <1>2, <2>3, <2>4, <2>5, <2>6, AppendKeepsLog
<1> QED
  BY <1>3, <1>4, <1>5, <1>6 DEF ConsoleInv, Appended

LEMMA ResetAllKeeps ==
  ASSUME ConsoleInv, ResetAllConsoleState PROVE ConsoleInv'
<1> USE DEF ResetAllConsoleState
<1>1. PanelsInv'
  <2>1. ClosedPanel \in [open : BOOLEAN, expanded : BOOLEAN] /\ ~ClosedPanel.expanded
    BY DEF ClosedPanel
  <2>2. "debug" \in Scopes
    BY DEF Scopes
  <2> QED
    BY <2>1, <2>2 DEF PanelsInv
<1>2. PICK empty : empty = EmptyBuffer
  OBVIOUS
<1>3. /\ empty \in Buffers /\ empty.lines = <<>> /\ empty.dropped = 0
      /\ empty.target = "none"
  BY <1>2 DEF EmptyBuffer, Buffers, Targets
<1>4. buffers' = [s \in Scopes |-> empty] /\ cleared' = lastLine /\ lastLine' = lastLine
  BY <1>2
<1>5. BuffersInv'
  <2>1. lastLine \in [Scopes -> Nat]
    BY DEF ConsoleInv, BuffersInv
  <2>2. ASSUME NEW s \in Scopes PROVE Holds(buffers'[s], lastLine'[s], cleared'[s])
    <3>1. PICK last : last = lastLine[s]
      OBVIOUS
    <3>2. last \in Nat /\ buffers'[s] = empty /\ lastLine'[s] = last /\ cleared'[s] = last
      BY <1>4, <2>1, <3>1
    <3>3. Len(empty.lines) = 0 /\ 1 .. 0 = {} /\ last + 0 + 0 = last /\ 0 <= MaxBuffer
      BY <1>3, <3>2, ConsoleAssumption
    <3>4. Holds(empty, last, last)
      BY <1>3, <3>2, <3>3 DEF Holds
    <3> QED
      BY <3>2, <3>4
  <2> QED
    BY <1>3, <1>4, <2>1, <2>2 DEF BuffersInv
<1>6. ScreenInv'
  <2>1. screen' = BlankScreen /\ raf' = FALSE /\ flag' = FALSE
    BY DEF CancelRender
  <2>2. panels'[activeScope'] = ClosedPanel
    BY DEF Scopes
  <2>3. (Rendered(panels[activeScope], buffers[activeScope]))' = BlankScreen
    <3>1. ~ClosedPanel.open /\ ~ClosedPanel.expanded
      BY DEF ClosedPanel
    <3>2. ~ShouldRender(panels'[activeScope'])
      BY <2>2, <3>1 DEF ShouldRender
    <3> QED
      BY <3>2 DEF Rendered
  <2>4. Len(BlankScreen.lines) <= MaxRender
    BY ConsoleAssumption DEF BlankScreen
  <2> QED
    BY <2>1, <2>3, <2>4 DEF ScreenInv
<1>7. PICK dead : dead = [i \in 1 .. Len(waiting) |-> [waiting[i] EXCEPT !.live = FALSE]]
  OBVIOUS
<1>8. LogInv /\ waiting \in Seq(Entries) /\ wire \in Seq(Messages) /\ Matching(waiting, wire)
  BY DEF ConsoleInv, LogInv, LogTypes
<1>9. PICK count : count = Len(waiting)
  OBVIOUS
<1>10. count \in Nat /\ DOMAIN waiting = 1 .. count /\ \A i \in 1 .. count : waiting[i] \in Entries
  BY <1>8, <1>9
<1>11. ASSUME NEW i \in 1 .. count
       PROVE  /\ dead[i] \in Entries /\ ~dead[i].live
              /\ dead[i].scope = waiting[i].scope /\ dead[i].came = waiting[i].came
  <2>1. PICK no \in BOOLEAN : no = FALSE
    OBVIOUS
  <2>2. PICK entry : entry = waiting[i]
    OBVIOUS
  <2>3. dead[i] = [entry EXCEPT !.live = no]
    BY <1>7, <1>9, <2>1, <2>2
  <2>4. entry \in Entries
    BY <1>10, <2>2
  <2>5. /\ dead[i] \in Entries /\ dead[i].live = no
        /\ dead[i].scope = entry.scope /\ dead[i].came = entry.came
    BY <2>3, <2>4 DEF Entries
  <2> QED
    BY <2>1, <2>2, <2>5
<1>12. DOMAIN dead = 1 .. count /\ dead \in Seq(Entries)
  <2>1. DOMAIN dead = 1 .. count /\ dead = [i \in 1 .. count |-> dead[i]]
    BY <1>7, <1>9
  <2> QED
    BY <1>10, <1>11, <2>1
<1>13. Matching(dead, wire)
  BY <1>8, <1>10, <1>11, <1>12, DeadMatches
<1>14. waiting' = dead /\ UNCHANGED <<wire, logFiles, since, lastLine>>
  BY <1>7
<1>15. LogTypes'
  BY <1>8, <1>12, <1>14 DEF LogInv, LogTypes
<1>16. Matching(waiting, wire)'
  BY <1>13, <1>14
<1>17. OneAlive(waiting)' /\ (\A i \in DOMAIN waiting : Quiet(waiting[i]))'
  BY <1>11, <1>12, <1>14 DEF OneAlive, Quiet
<1>18. \A s \in Scopes : buffers'[s].target # "active"
  BY <1>3, <1>4
<1>19. LogInv'
  BY <1>15, <1>16, <1>17, <1>18 DEF LogInv, LogFileIsComplete
<1> QED
  BY <1>1, <1>5, <1>6, <1>19 DEF ConsoleInv

LEMMA ResetKeeps ==
  ASSUME ConsoleInv, NEW s \in Scopes, ResetConsoleForExecution(s) PROVE ConsoleInv'
<1> USE DEF ResetConsoleForExecution
<1>1. PanelsInv'
  BY DEF ConsoleInv, PanelsInv
<1>2. PICK emptied : emptied = ClearedBuffer(buffers[s])
  OBVIOUS
<1>3. PICK target : target = "none"
  OBVIOUS
<1>4. PICK after : after = [emptied EXCEPT !.target = target]
  OBVIOUS
<1>5. PICK last : last = lastLine[s]
  OBVIOUS
<1>6. /\ buffers \in [Scopes -> Buffers]
      /\ lastLine \in [Scopes -> Nat] /\ cleared \in [Scopes -> Nat]
      /\ \A t \in Scopes : Holds(buffers[t], lastLine[t], cleared[t])
  BY DEF ConsoleInv, BuffersInv
<1>7. Holds(emptied, last, last) /\ target \in Targets
  BY <1>2, <1>3, <1>5, <1>6, ClearedHolds DEF Targets
<1>8. Holds(after, last, last) /\ after.target = target
  BY <1>4, <1>7, RetargetedHolds
<1>9. after \in Buffers /\ last \in Nat
  BY <1>8 DEF Holds
<1>10. /\ buffers' = [buffers EXCEPT ![s] = after]
       /\ cleared' = [cleared EXCEPT ![s] = last] /\ lastLine' = lastLine
  BY <1>2, <1>3, <1>4, <1>5
<1>11. /\ buffers' \in [Scopes -> Buffers] /\ cleared' \in [Scopes -> Nat]
       /\ buffers'[s] = after /\ cleared'[s] = last
       /\ \A t \in Scopes : t # s => buffers'[t] = buffers[t] /\ cleared'[t] = cleared[t]
  BY <1>6, <1>9, <1>10
<1>12. BuffersInv'
  <2>1. \A t \in Scopes : Holds(buffers'[t], lastLine'[t], cleared'[t])
    BY <1>5, <1>6, <1>8, <1>10, <1>11
  <2> QED
    BY <1>6, <1>10, <1>11, <2>1 DEF BuffersInv
<1>13. ScreenInv'
  <2>1. CASE s = activeScope'
    BY <2>1, RequestKeepsScreen DEF ConsoleInv, RequestIfActive
  <2>2. CASE s # activeScope'
    <3>1. UNCHANGED <<flag, raf, screen, activeScope, panels>> /\ activeScope \in Scopes
      BY <2>2 DEF RequestIfActive, screenVars, ConsoleInv, PanelsInv
    <3>2. buffers'[activeScope] = buffers[activeScope]
      BY <1>11, <2>2, <3>1
    <3> QED
      BY <3>1, <3>2 DEF ConsoleInv, ScreenInv
  <2> QED
    BY <2>1, <2>2
<1>14. PICK alive \in BOOLEAN : alive = TRUE
  OBVIOUS
<1>15. PICK entry : entry = [scope |-> s, live |-> alive, came |-> "nothing"]
  OBVIOUS
<1>16. PICK empty : empty = <<>>
  OBVIOUS
<1>17. PICK message : message = [kind |-> "reset", scope |-> s, lines |-> empty]
  OBVIOUS
<1>18. empty \in Seq(Nat)
  BY <1>16
<1>19. /\ message \in Messages /\ message.kind = "reset" /\ message.scope = s
       /\ entry \in Entries /\ entry.came = "nothing" /\ entry.scope = s
  BY <1>15, <1>17, <1>18 DEF Messages, Entries
<1>20. PICK resets : resets = Append(waiting, entry)
  OBVIOUS
<1>21. PICK longer : longer = Append(wire, message)
  OBVIOUS
<1>22. waiting' = resets /\ wire' = longer /\ UNCHANGED <<logFiles, since, lastLine>>
  BY <1>14, <1>15, <1>16, <1>17, <1>20, <1>21
<1>23. /\ LogInv /\ waiting \in Seq(Entries) /\ wire \in Seq(Messages)
       /\ Matching(waiting, wire) /\ OneAlive(waiting)
       /\ \A i \in DOMAIN waiting : Quiet(waiting[i])
       /\ logFiles \in [Scopes -> Seq(Nat)]
  BY DEF ConsoleInv, LogInv, LogTypes
<1>24. PICK count : count = Len(waiting)
  OBVIOUS
<1>25. /\ count \in Nat /\ DOMAIN waiting = 1 .. count /\ DOMAIN resets = 1 .. count + 1
       /\ \A i \in 1 .. count : resets[i] = waiting[i]
       /\ resets[count + 1] = entry /\ resets \in Seq(Entries)
  BY <1>19, <1>20, <1>23, <1>24
<1>26. /\ longer \in Seq(Messages)
       /\ \A m \in DOMAIN longer : longer[m] = message \/ (m \in DOMAIN wire /\ longer[m] = wire[m])
  BY <1>19, <1>21, <1>23
<1>27. \A i \in 1 .. count : waiting[i].live => waiting[i].scope # s
  BY <1>24
<1>28. Matching(waiting, wire)'
  <2>1. Matching(resets, longer)
    BY <1>19, <1>20, <1>21, <1>23, <1>25, <1>27, ResetMatches
  <2> QED
    BY <1>22, <2>1
<1>29. LogTypes'
  BY <1>22, <1>23, <1>25, <1>26 DEF LogInv, LogTypes
<1>30. OneAlive(waiting)'
  <2> SUFFICES ASSUME NEW i \in DOMAIN resets, NEW j \in DOMAIN resets,
                      resets[i].live, resets[j].live, resets[i].scope = resets[j].scope
               PROVE  i = j
    BY <1>22 DEF OneAlive
  <2>1. (i \in 1 .. count \/ i = count + 1) /\ (j \in 1 .. count \/ j = count + 1)
    BY <1>25
  <2>2. CASE i \in 1 .. count /\ j \in 1 .. count
    BY <1>23, <1>25, <2>2 DEF OneAlive
  <2>3. CASE i \in 1 .. count /\ j = count + 1
    BY <1>19, <1>25, <1>27, <2>3
  <2>4. CASE i = count + 1 /\ j \in 1 .. count
    BY <1>19, <1>25, <1>27, <2>4
  <2> QED
    BY <2>1, <2>2, <2>3, <2>4
<1>31. (\A i \in DOMAIN waiting : Quiet(waiting[i]))'
  <2> SUFFICES ASSUME NEW i \in DOMAIN resets, resets[i].live
               PROVE  /\ buffers'[resets[i].scope].target = "none"
                      /\ resets[i].came = "opened" =>
                           /\ logFiles[resets[i].scope] = <<>>
                           /\ \A m \in DOMAIN longer : longer[m].scope # resets[i].scope
    BY <1>22 DEF Quiet
  <2>1. CASE i = count + 1
    BY <1>3, <1>8, <1>11, <1>19, <1>25, <2>1
  <2>2. CASE i \in 1 .. count
    <3>1. /\ resets[i] = waiting[i] /\ waiting[i].scope # s /\ Quiet(waiting[i])
          /\ waiting[i] \in Entries
      BY <1>23, <1>25, <1>27, <2>2
    <3>2. waiting[i].scope \in Scopes
      BY <3>1 DEF Entries
    <3>3. buffers'[waiting[i].scope].target = "none"
      BY <1>11, <3>1, <3>2 DEF Quiet
    <3>4. ASSUME waiting[i].came = "opened"
          PROVE  /\ logFiles[waiting[i].scope] = <<>>
                 /\ \A m \in DOMAIN longer : longer[m].scope # waiting[i].scope
      BY <1>19, <1>26, <3>1, <3>4 DEF Quiet
    <3> QED
      BY <3>1, <3>3, <3>4
  <2> QED
    BY <1>25, <2>1, <2>2
<1>32. (\A t \in Scopes : buffers[t].target = "active" =>
          \A m \in DOMAIN wire : wire[m].scope = t => wire[m].kind # "reset")'
  <2> SUFFICES ASSUME NEW t \in Scopes, buffers'[t].target = "active",
                      NEW m \in DOMAIN longer, longer[m].scope = t
               PROVE  longer[m].kind # "reset"
    BY <1>22
  <2>1. t # s
    BY <1>3, <1>8, <1>11
  <2>2. buffers[t].target = "active"
    BY <1>11, <2>1
  <2>3. longer[m] # message
    BY <1>19, <2>1
  <2> QED
    BY <1>23, <1>26, <2>2, <2>3 DEF LogInv
<1>33. LogFileIsComplete'
  <2> SUFFICES ASSUME NEW t \in Scopes, buffers'[t].target = "active"
               PROVE  Complete(logFiles[t], longer, t, since[t], lastLine[t])
    BY <1>22 DEF LogFileIsComplete, Complete, Run
  <2>1. t # s
    BY <1>3, <1>8, <1>11
  <2>2. buffers[t].target = "active"
    BY <1>11, <2>1
  <2>3. Complete(logFiles[t], wire, t, since[t], lastLine[t])
    BY <1>23, <2>2, CompleteMeans DEF LogInv
  <2>4. Sent(logFiles[t], longer, t) = Delivered(Sent(logFiles[t], wire, t), message, t)
    BY <1>19, <1>21, <1>23, SentAppend
  <2> QED
    BY <1>19, <2>1, <2>3, <2>4 DEF Complete, Delivered
<1>34. LogInv'
  BY <1>28, <1>29, <1>30, <1>31, <1>32, <1>33 DEF LogInv
<1> QED
  BY <1>1, <1>12, <1>13, <1>34 DEF ConsoleInv

(* A message is taken from the wire: the log files and the entries change. *)
LEMMA TakenKeepsLog ==
  ASSUME LogInv, wire # <<>>, wire' = Tail(wire),
         UNCHANGED <<buffers, lastLine, since>>,
         NEW files \in [Scopes -> Seq(Nat)], logFiles' = files,
         NEW resets \in Seq(Entries), waiting' = resets, DOMAIN resets = DOMAIN waiting,
         Matching(resets, Tail(wire)),
         \A s \in Scopes : files[s] = Delivered(logFiles[s], Head(wire), s)
                           \/ (files[s] = logFiles[s] /\ Head(wire).kind = "reset"),
         \A i \in DOMAIN waiting :
           /\ resets[i].scope = waiting[i].scope /\ resets[i].live = waiting[i].live
           /\ \/ resets[i].came = waiting[i].came
              \/ resets[i].came = "failed"
              \/ /\ files[resets[i].scope] = <<>>
                 /\ resets[i].live =>
                      \A m \in DOMAIN Tail(wire) : Tail(wire)[m].scope # resets[i].scope
  PROVE  LogInv'
<1>1. /\ wire \in Seq(Messages) /\ waiting \in Seq(Entries)
      /\ logFiles \in [Scopes -> Seq(Nat)] /\ since \in [Scopes -> Nat]
  BY DEF LogInv, LogTypes
<1>2. PICK rest : rest = Tail(wire)
  OBVIOUS
<1>3. PICK first : first = Head(wire)
  OBVIOUS
<1>4. /\ rest \in Seq(Messages) /\ first \in Messages /\ 1 \in DOMAIN wire /\ wire[1] = first
      /\ \A m \in DOMAIN rest : m + 1 \in DOMAIN wire /\ rest[m] = wire[m + 1]
  BY <1>1, <1>2, <1>3
<1>5. LogTypes'
  <2>1. wire' \in Seq(Messages)
    BY <1>2, <1>4
  <2>2. \A s \in Scopes : since'[s] <= lastLine'[s]
    BY DEF LogInv, LogTypes
  <2> QED
    BY <1>1, <2>1, <2>2 DEF LogTypes
<1>6. Matching(waiting, wire)'
  OBVIOUS
<1>7. OneAlive(waiting)'
  <2>1. OneAlive(waiting)
    BY DEF LogInv
  <2>2. OneAlive(resets)
    BY <2>1 DEF OneAlive
  <2> QED
    BY <2>2
<1>8. (\A i \in DOMAIN waiting : Quiet(waiting[i]))'
  <2> SUFFICES ASSUME NEW i \in DOMAIN waiting, resets[i].live
               PROVE  /\ buffers[resets[i].scope].target = "none"
                      /\ resets[i].came = "opened" =>
                           /\ files[resets[i].scope] = <<>>
                           /\ \A m \in DOMAIN rest : rest[m].scope # resets[i].scope
    BY <1>2 DEF Quiet
  <2>1. Quiet(waiting[i]) /\ waiting[i] \in Entries
    BY <1>1 DEF LogInv
  <2>2. PICK s : s = resets[i].scope
    OBVIOUS
  <2>3. s = waiting[i].scope /\ waiting[i].live /\ s \in Scopes
    BY <2>1, <2>2 DEF Entries
  <2>4. buffers[s].target = "none"
    BY <2>1, <2>3 DEF Quiet
  <2>5. ASSUME resets[i].came = "opened"
        PROVE  files[s] = <<>> /\ \A m \in DOMAIN rest : rest[m].scope # s
    <3>1. CASE resets[i].came = waiting[i].came
      <4>1. logFiles[s] = <<>> /\ \A m \in DOMAIN wire : wire[m].scope # s
        BY <2>1, <2>3, <2>5, <3>1 DEF Quiet
      <4>2. first.scope # s
        BY <1>4, <4>1
      <4>3. files[s] = <<>>
        BY <1>3, <2>3, <4>1, <4>2 DEF Delivered
      <4> QED
        BY <1>4, <4>1, <4>3
    <3>2. CASE /\ files[resets[i].scope] = <<>>
               /\ resets[i].live =>
                    \A m \in DOMAIN Tail(wire) : Tail(wire)[m].scope # resets[i].scope
      BY <1>2, <2>2, <3>2
    <3>3. resets[i].came # "failed"
      BY <2>5
    <3> QED
      BY <3>1, <3>2, <3>3
  <2> QED
    BY <2>2, <2>4, <2>5
<1>9. (\A s \in Scopes : buffers[s].target = "active" =>
         \A m \in DOMAIN wire : wire[m].scope = s => wire[m].kind # "reset")'
  <2> SUFFICES ASSUME NEW s \in Scopes, buffers[s].target = "active",
                      NEW m \in DOMAIN rest, rest[m].scope = s
               PROVE  rest[m].kind # "reset"
    BY <1>2
  <2> QED
    BY <1>4 DEF LogInv
<1>10. LogFileIsComplete'
  <2> SUFFICES ASSUME NEW s \in Scopes, buffers[s].target = "active"
               PROVE  Complete(files[s], rest, s, since[s], lastLine[s])
    BY <1>2 DEF LogFileIsComplete, Complete, Run
  <2>1. Complete(logFiles[s], wire, s, since[s], lastLine[s])
    BY CompleteMeans DEF LogInv
  <2>2. Sent(logFiles[s], wire, s) = Sent(Delivered(logFiles[s], first, s), rest, s)
    BY <1>1, <1>2, <1>3, SentTail
  <2>3. files[s] = Delivered(logFiles[s], first, s)
    <3>1. CASE files[s] = logFiles[s] /\ first.kind = "reset"
      <4>1. first.scope # s
        BY <1>4, <3>1 DEF LogInv
      <4> QED
        BY <3>1, <4>1 DEF Delivered
    <3> QED
      BY <1>3, <3>1
  <2> QED
    BY <2>1, <2>2, <2>3 DEF Complete
<1> QED
  BY <1>5, <1>6, <1>7, <1>8, <1>9, <1>10 DEF LogInv

LEMMA TakeKeeps ==
  ASSUME ConsoleInv, TakeMessage PROVE ConsoleInv'
<1>1. /\ wire # <<>> /\ wire' = Tail(wire)
      /\ UNCHANGED <<activeScope, panels, buffers, lastLine, cleared, resetsLeft, since,
                     flag, raf, screen>>
  BY DEF TakeMessage, screenVars
<1>2. PanelsInv' /\ BuffersInv' /\ ScreenInv'
  BY <1>1 DEF ConsoleInv, PanelsInv, BuffersInv, ScreenInv, Rendered
<1>3. PICK head : head = Head(wire)
  OBVIOUS
<1>4. PICK h : h = head.scope
  OBVIOUS
<1>5. /\ LogInv /\ wire \in Seq(Messages) /\ waiting \in Seq(Entries)
      /\ logFiles \in [Scopes -> Seq(Nat)] /\ Matching(waiting, wire)
  BY DEF ConsoleInv, LogInv, LogTypes
<1>6. head \in Messages /\ h \in Scopes /\ head.lines \in Seq(Nat)
  <2>1. head \in Messages
    BY <1>1, <1>3, <1>5
  <2> QED
    BY <1>4, <2>1 DEF Messages
<1>7. PICK first : first = First(waiting)
  OBVIOUS
<1>8. \/ /\ head.kind = "append"
         /\ logFiles' = [logFiles EXCEPT ![h] = @ \o head.lines]
         /\ waiting' = waiting
      \/ /\ head.kind = "reset"
         /\ logFiles' = [logFiles EXCEPT ![h] = <<>>]
         /\ waiting' = [waiting EXCEPT ![first].came = "opened"]
      \/ /\ head.kind = "reset" /\ logFiles' = logFiles
         /\ waiting' = [waiting EXCEPT ![first].came = "failed"]
  BY <1>3, <1>4, <1>7 DEF TakeMessage, First
<1>9. CASE /\ head.kind = "append"
           /\ logFiles' = [logFiles EXCEPT ![h] = @ \o head.lines]
           /\ waiting' = waiting
  <2>1. PICK files : files = [logFiles EXCEPT ![h] = @ \o head.lines]
    OBVIOUS
  <2>2. PICK resets : resets = waiting
    OBVIOUS
  <2>3. files \in [Scopes -> Seq(Nat)]
    BY <1>5, <1>6, <2>1
  <2>4. \A s \in Scopes : files[s] = Delivered(logFiles[s], head, s)
    BY <1>4, <1>5, <1>9, <2>1 DEF Delivered
  <2>5. Matching(resets, Tail(wire))
    BY <1>1, <1>3, <1>5, <1>9, <2>2, TailMatches
  <2>6. LogInv'
    BY <1>1, <1>3, <1>5, <1>9, <2>1, <2>2, <2>3, <2>4, <2>5, TakenKeepsLog
  <2> QED
    BY <1>2, <2>6 DEF ConsoleInv
<1>10. ASSUME NEW came \in {"opened", "failed"}, head.kind = "reset",
              waiting' = [waiting EXCEPT ![first].came = came],
              logFiles' = IF came = "opened" THEN [logFiles EXCEPT ![h] = <<>>] ELSE logFiles
       PROVE  ConsoleInv'
  <2>1. Taken(first, waiting, wire)
    BY <1>1, <1>3, <1>5, <1>7, <1>10, FirstIsTaken
  <2>2. /\ first \in DOMAIN waiting /\ h = waiting[first].scope
        /\ waiting[first].live => \A m \in DOMAIN Tail(wire) : Tail(wire)[m].scope # h
        /\ Matching([waiting EXCEPT ![first].came = came], Tail(wire))
    BY <1>3, <1>4, <2>1 DEF Taken
  <2>3. PICK resets : resets = [waiting EXCEPT ![first].came = came]
    OBVIOUS
  <2>4. PICK empty : empty = <<>>
    OBVIOUS
  <2>5. PICK files : files = IF came = "opened" THEN [logFiles EXCEPT ![h] = empty] ELSE logFiles
    OBVIOUS
  <2>6. files \in [Scopes -> Seq(Nat)]
    <3>1. empty \in Seq(Nat)
      BY <2>4
    <3> QED
      BY <1>5, <2>5, <3>1
  <2>7. PICK entry : entry = waiting[first]
    OBVIOUS
  <2>8. entry \in Entries
    BY <1>5, <2>2, <2>7
  <2>9. PICK after : after = [entry EXCEPT !.came = came]
    OBVIOUS
  <2>10. /\ after \in Entries /\ after.scope = entry.scope /\ after.live = entry.live
         /\ after.came = came
    BY <2>8, <2>9 DEF Entries
  <2>11. resets = [waiting EXCEPT ![first] = after]
    BY <2>2, <2>3, <2>7, <2>9
  <2>12. /\ resets \in Seq(Entries) /\ DOMAIN resets = DOMAIN waiting
         /\ resets[first] = after
         /\ \A i \in DOMAIN waiting : i # first => resets[i] = waiting[i]
    BY <1>5, <2>2, <2>10, <2>11
  <2>13. \A s \in Scopes : \/ files[s] = Delivered(logFiles[s], head, s)
                           \/ files[s] = logFiles[s] /\ head.kind = "reset"
    BY <1>4, <1>5, <1>10, <2>4, <2>5 DEF Delivered
  <2>14. ASSUME NEW i \in DOMAIN waiting
         PROVE  /\ resets[i].scope = waiting[i].scope /\ resets[i].live = waiting[i].live
                /\ \/ resets[i].came = waiting[i].came
                   \/ resets[i].came = "failed"
                   \/ /\ files[resets[i].scope] = <<>>
                      /\ resets[i].live =>
                           \A m \in DOMAIN Tail(wire) : Tail(wire)[m].scope # resets[i].scope
    <3>1. CASE i # first
      BY <2>12, <3>1
    <3>2. CASE i = first
      <4>1. resets[i] = after /\ waiting[i] = entry
        BY <2>7, <2>12, <3>2
      <4>2. after.scope = h /\ entry.scope = h
        BY <2>2, <2>7, <2>10
      <4>3. came = "opened" => files[h] = <<>>
        BY <1>5, <1>6, <2>4, <2>5
      <4> QED
        BY <2>2, <2>7, <2>10, <4>1, <4>2, <4>3
    <3> QED
      BY <3>1, <3>2
  <2>15. /\ waiting' = resets /\ logFiles' = files /\ Matching(resets, Tail(wire))
    BY <1>10, <2>2, <2>3, <2>4, <2>5
  <2>16. LogInv'
    BY <1>1, <1>3, <1>5, <2>6, <2>12, <2>13, <2>14, <2>15, TakenKeepsLog
  <2> QED
    BY <1>2, <2>16 DEF ConsoleInv
<1> QED
  BY <1>8, <1>9, <1>10

LEMMA ReplyKeeps ==
  ASSUME ConsoleInv, ResetReplied PROVE ConsoleInv'
<1>1. PICK entry : entry = Head(waiting)
  OBVIOUS
<1>2. PICK s : s = entry.scope
  OBVIOUS
<1>3. PICK opened \in BOOLEAN : opened <=> entry.came = "opened" /\ entry.live
  OBVIOUS
<1>4. PICK n \in Nat : n = IF entry.came = "failed" THEN 2 ELSE 1
  OBVIOUS
<1>5. PICK target : target = "active"
  OBVIOUS
<1>6. PICK buffer : buffer = IF opened THEN [buffers[s] EXCEPT !.target = target] ELSE buffers[s]
  OBVIOUS
<1>7. PICK resets : resets = Tail(waiting)
  OBVIOUS
<1>8. PICK start : start = IF opened /\ buffers[s].target # "active"
                           THEN [since EXCEPT ![s] = lastLine[s]] ELSE since
  OBVIOUS
<1>9. /\ waiting # <<>> /\ entry.came # "nothing" /\ waiting' = resets
      /\ activeScope' = s /\ panels' = [panels EXCEPT ![s].open = TRUE]
      /\ AppendConsoleEntries(s, n, buffer) /\ since' = start
      /\ UNCHANGED <<cleared, logFiles, resetsLeft>> /\ RequestRender
  BY <1>1, <1>2, <1>3, <1>4, <1>5, <1>6, <1>7, <1>8 DEF ResetReplied
<1>10. /\ BuffersInv /\ LogInv /\ wire \in Seq(Messages) /\ waiting \in Seq(Entries)
       /\ logFiles \in [Scopes -> Seq(Nat)] /\ since \in [Scopes -> Nat]
       /\ Matching(waiting, wire) /\ OneAlive(waiting)
       /\ \A i \in DOMAIN waiting : Quiet(waiting[i])
       /\ buffers \in [Scopes -> Buffers] /\ lastLine \in [Scopes -> Nat]
       /\ \A t \in Scopes : since[t] <= lastLine[t]
       /\ \A t \in Scopes : Holds(buffers[t], lastLine[t], cleared[t])
  BY DEF ConsoleInv, BuffersInv, LogInv, LogTypes
<1>11. /\ resets \in Seq(Entries) /\ 1 \in DOMAIN waiting /\ waiting[1] = entry
       /\ \A i \in DOMAIN resets :
            i \in Nat /\ i + 1 # 1 /\ i + 1 \in DOMAIN waiting /\ resets[i] = waiting[i + 1]
  BY <1>1, <1>7, <1>9, <1>10
<1>12. entry \in Entries /\ s \in Scopes /\ Quiet(entry)
  <2>1. entry \in Entries /\ Quiet(entry)
    BY <1>10, <1>11
  <2> QED
    BY <1>2, <2>1 DEF Entries
<1>13. PanelsInv'
  <2>1. PICK panel : panel = panels[s]
    OBVIOUS
  <2>2. PICK yes \in BOOLEAN : yes = TRUE
    OBVIOUS
  <2>3. PICK after : after = [panel EXCEPT !.open = yes]
    OBVIOUS
  <2>4. /\ panels \in [Scopes -> [open : BOOLEAN, expanded : BOOLEAN]]
        /\ \A t \in Scopes : panels[t].expanded => panels[t].open
    BY DEF ConsoleInv, PanelsInv
  <2>5. after \in [open : BOOLEAN, expanded : BOOLEAN] /\ after.open
    BY <1>12, <2>1, <2>2, <2>3, <2>4
  <2>6. panels' = [panels EXCEPT ![s] = after]
    BY <1>9, <2>1, <2>2, <2>3
  <2>7. /\ panels' \in [Scopes -> [open : BOOLEAN, expanded : BOOLEAN]]
        /\ panels'[s] = after
        /\ \A t \in Scopes : t # s => panels'[t] = panels[t]
    BY <1>12, <2>4, <2>5, <2>6
  <2> QED
    BY <1>9, <1>12, <2>4, <2>5, <2>7 DEF PanelsInv
<1>14. Holds(buffer, lastLine[s], cleared[s])
  <2>1. PICK old : old = buffers[s]
    OBVIOUS
  <2>2. PICK last : last = lastLine[s]
    OBVIOUS
  <2>3. PICK from : from = cleared[s]
    OBVIOUS
  <2>4. Holds(old, last, from) /\ target \in Targets
    BY <1>5, <1>10, <1>12, <2>1, <2>2, <2>3 DEF Targets
  <2>5. PICK other : other = [old EXCEPT !.target = target]
    OBVIOUS
  <2>6. Holds(other, last, from)
    BY <2>4, <2>5, RetargetedHolds
  <2> QED
    BY <1>6, <2>1, <2>2, <2>3, <2>4, <2>5, <2>6
<1>15. buffer.target = IF opened THEN "active" ELSE buffers[s].target
  <2>1. buffers[s] \in Buffers
    BY <1>10, <1>12
  <2> QED
    BY <1>5, <1>6, <2>1 DEF Buffers
<1>16. Appended(s, buffer)
  BY <1>9, <1>10, <1>12, <1>14, AppendKeepsBuffers
<1>17. ScreenInv'
  BY <1>9, RequestKeepsScreen DEF ConsoleInv
<1>18. Matching(resets, wire)
  BY <1>1, <1>7, <1>9, <1>10, RepliedMatches
<1>19. OneAlive(resets)
  <2> SUFFICES ASSUME NEW i \in DOMAIN resets, NEW j \in DOMAIN resets,
                      resets[i].live, resets[j].live, resets[i].scope = resets[j].scope
               PROVE  i = j
    BY DEF OneAlive
  <2>1. i + 1 = j + 1
    BY <1>10, <1>11 DEF OneAlive
  <2> QED
    BY <1>11, <2>1
<1>20. \A i \in DOMAIN resets : Quiet(resets[i])
  BY <1>10, <1>11
<1>21. opened => NoneAlive(resets, s)
  <2> SUFFICES ASSUME opened, NEW i \in DOMAIN resets, resets[i].live
               PROVE  resets[i].scope # s
    BY DEF NoneAlive
  <2>1. i + 1 \in DOMAIN waiting /\ i + 1 # 1 /\ waiting[i + 1].live
    BY <1>11
  <2>2. waiting[1].live /\ waiting[1].scope = s
    BY <1>2, <1>3, <1>11
  <2> QED
    BY <1>10, <1>11, <2>1, <2>2 DEF OneAlive
<1>22. opened => /\ buffers[s].target = "none" /\ logFiles[s] = <<>>
                 /\ \A m \in DOMAIN wire : wire[m].scope # s
  BY <1>2, <1>3, <1>12 DEF Quiet
<1>23. /\ start \in [Scopes -> Nat]
       /\ \A t \in Scopes : start[t] <= lastLine[t] /\ (t # s => start[t] = since[t])
       /\ opened => start[s] = lastLine[s]
       /\ ~opened => start = since
  <2>1. CASE opened
    <3>1. start = [since EXCEPT ![s] = lastLine[s]]
      BY <1>8, <1>22, <2>1
    <3>2. /\ start \in [Scopes -> Nat] /\ start[s] = lastLine[s]
          /\ \A t \in Scopes : t # s => start[t] = since[t]
      BY <1>10, <1>12, <3>1
    <3>3. lastLine[s] <= lastLine[s]
      BY <1>10, <1>12
    <3> QED
      BY <1>10, <2>1, <3>2, <3>3
  <2>2. CASE ~opened
    BY <1>8, <1>10, <2>2
  <2> QED
    BY <2>1, <2>2
<1>24. ASSUME buffer.target = "active"
       PROVE  /\ NoneAlive(resets, s) /\ NoReset(s)
              /\ Complete(logFiles[s], wire, s, start[s], lastLine[s])
  <2>1. CASE opened
    <3>1. NoReset(s)
      BY <1>22, <2>1 DEF NoReset
    <3>2. Sent(logFiles[s], wire, s) = logFiles[s]
      BY <1>10, <1>22, <2>1, SentNone
    <3>3. Run(start[s], lastLine[s]) = <<>>
      <4>1. PICK last : last = lastLine[s]
        OBVIOUS
      <4>2. last \in Nat /\ last - last = 0 /\ 1 .. 0 = {}
        BY <1>10, <1>12, <4>1
      <4> QED
        BY <1>23, <2>1, <4>1, <4>2 DEF Run
    <3> QED
      BY <1>21, <1>22, <2>1, <3>1, <3>2, <3>3 DEF Complete
  <2>2. CASE ~opened
    <3>1. buffers[s].target = "active"
      BY <1>15, <1>24, <2>2
    <3>2. NoneAlive(resets, s)
      BY <1>20, <3>1 DEF NoneAlive, Quiet
    <3>3. NoReset(s)
      BY <1>10, <1>12, <3>1 DEF NoReset, LogInv
    <3>4. Complete(logFiles[s], wire, s, since[s], lastLine[s])
      BY <1>10, <1>12, <3>1, CompleteMeans DEF LogInv
    <3> QED
      BY <1>23, <2>2, <3>2, <3>3, <3>4
  <2> QED
    BY <2>1, <2>2
<1>25. buffer.target # "active" => buffer.target = buffers[s].target
  BY <1>15
<1>26. LogInv'
  <2>1. waiting' = resets /\ logFiles' = logFiles /\ since' = start
    BY <1>9
  <2>2. /\ BuffersInv /\ LogInv /\ s \in Scopes
        /\ AppendConsoleEntries(s, n, buffer) /\ Appended(s, buffer)
        /\ resets \in Seq(Entries)
    BY <1>9, <1>10, <1>11, <1>12, <1>16
  <2>3. /\ start \in [Scopes -> Nat]
        /\ \A t \in Scopes : start[t] <= lastLine[t] /\ (t # s => start[t] = since[t])
    BY <1>23
  <2> QED
    BY <1>18, <1>19, <1>20, <1>24, <1>25, <2>1, <2>2, <2>3, AppendKeepsLog
<1> QED
  BY <1>13, <1>16, <1>17, <1>26 DEF ConsoleInv, Appended

LEMMA ConsoleStarts ==
  ASSUME ConsoleInit PROVE ConsoleInv
<1> USE DEF ConsoleInit
<1>1. "debug" \in Scopes
  BY DEF Scopes
<1>2. ClosedPanel \in [open : BOOLEAN, expanded : BOOLEAN]
      /\ ~ClosedPanel.expanded /\ ~ClosedPanel.open
  BY DEF ClosedPanel
<1>3. PanelsInv
  BY <1>1, <1>2 DEF PanelsInv
<1>4. PICK empty : empty = EmptyBuffer
  OBVIOUS
<1>5. /\ empty \in Buffers /\ empty.lines = <<>> /\ empty.dropped = 0
      /\ empty.target = "none"
  BY <1>4 DEF EmptyBuffer, Buffers, Targets
<1>6. PICK zero : zero = 0
  OBVIOUS
<1>7. Holds(empty, zero, zero)
  <2>1. Len(empty.lines) = zero /\ 1 .. zero = {} /\ zero + zero + zero = zero
        /\ zero <= MaxBuffer /\ ~(zero > 0)
    BY <1>5, <1>6, ConsoleAssumption
  <2> QED
    BY <1>5, <1>6, <2>1 DEF Holds
<1>8. BuffersInv
  <2>1. lastLine = [s \in Scopes |-> zero] /\ cleared = [s \in Scopes |-> zero]
        /\ buffers = [s \in Scopes |-> empty] /\ zero \in Nat
    BY <1>4, <1>6 DEF Zero
  <2> QED
    BY <1>5, <1>7, <2>1 DEF BuffersInv
<1>9. ScreenInv
  <2>1. panels[activeScope] = ClosedPanel
    BY <1>1
  <2>2. Rendered(panels[activeScope], buffers[activeScope]) = BlankScreen
    BY <1>2, <2>1 DEF Rendered, ShouldRender
  <2>3. Len(BlankScreen.lines) <= MaxRender
    BY ConsoleAssumption DEF BlankScreen
  <2> QED
    BY <2>2, <2>3 DEF ScreenInv
<1>10. LogTypes
  <2>1. \A s \in Scopes : since[s] = lastLine[s] /\ since[s] \in Nat /\ since[s] <= lastLine[s]
    BY DEF Zero
  <2>2. since \in [Scopes -> Nat]
    BY DEF Zero
  <2>3. PICK none : none = <<>>
    OBVIOUS
  <2>4. none \in Seq(Nat) /\ logFiles = [s \in Scopes |-> none]
    BY <2>3
  <2>5. logFiles \in [Scopes -> Seq(Nat)]
    BY <2>4
  <2>6. wire \in Seq(Messages) /\ waiting \in Seq(Entries)
    OBVIOUS
  <2> QED
    BY <2>1, <2>2, <2>5, <2>6 DEF LogTypes
<1>11. DOMAIN waiting = {} /\ DOMAIN wire = {}
  OBVIOUS
<1>12. Matching(waiting, wire)
  <2>1. PICK at : at = [i \in DOMAIN waiting |-> 1]
    OBVIOUS
  <2>2. at \in [DOMAIN waiting -> Nat]
    BY <2>1
  <2>3. Matched(at, waiting, wire)
    BY <1>11 DEF Matched
  <2> QED
    BY <2>2, <2>3 DEF Matching
<1>13. OneAlive(waiting) /\ \A i \in DOMAIN waiting : Quiet(waiting[i])
  BY <1>11 DEF OneAlive
<1>14. \A s \in Scopes : buffers[s].target # "active"
  BY <1>4, <1>5
<1>15. LogInv
  BY <1>10, <1>12, <1>13, <1>14 DEF LogInv, LogFileIsComplete
<1> QED
  BY <1>3, <1>8, <1>9, <1>15 DEF ConsoleInv

LEMMA ConsoleInvTellsTruth ==
  ASSUME ConsoleInv PROVE ConsoleTellsTruth
<1>1. ConsoleTypeOK
  <2>1. /\ activeScope \in Scopes /\ flag \in BOOLEAN /\ raf \in BOOLEAN
        /\ Len(screen.lines) <= MaxRender
    BY DEF ConsoleInv, PanelsInv, ScreenInv
  <2>2. ASSUME NEW s \in Scopes
        PROVE  /\ panels[s] \in [open : BOOLEAN, expanded : BOOLEAN]
               /\ panels[s].expanded => panels[s].open
    BY DEF ConsoleInv, PanelsInv
  <2>3. ASSUME NEW s \in Scopes
        PROVE  /\ Len(buffers[s].lines) <= MaxBuffer
               /\ buffers[s].target \in {"none", "active", "inactive"}
    <3>1. Holds(buffers[s], lastLine[s], cleared[s])
      BY DEF ConsoleInv, BuffersInv
    <3> QED
      BY <3>1 DEF Holds, Buffers, Targets
  <2> QED
    BY <2>1, <2>2, <2>3 DEF ConsoleTypeOK
<1>2. ScreenTellsTruth
  BY ScreenShowsTheEnd DEF ConsoleInv
<1>3. FlushIsComing /\ LogFileIsComplete
  BY DEF ConsoleInv, ScreenInv, LogInv, FlushIsComing
<1> QED
  BY <1>1, <1>2, <1>3 DEF ConsoleTellsTruth

LEMMA ConsoleStays ==
  ASSUME ConsoleInv, UNCHANGED consoleVars PROVE ConsoleInv'
<1>1. UNCHANGED <<activeScope, panels, buffers, lastLine, cleared, flag, raf, screen>>
  BY DEF consoleVars, screenVars
<1>2. UNCHANGED <<logVars, lastLine>>
  BY DEF consoleVars
<1>3. LogInv'
  BY <1>1, <1>2, TargetSame DEF ConsoleInv
<1> QED
  BY <1>1, <1>3 DEF ConsoleInv, PanelsInv, BuffersInv, ScreenInv, Rendered

(* The console in view shows the end of what was written to it since it    *)
(* was cleared and says how many lines it leaves out, a frame is coming    *)
(* whenever one is promised, and the log file of a running execution will  *)
(* hold every line written since it was opened, in order: for any limits   *)
(* of the buffers, and any number of executions, lines and replies that    *)
(* fail or come late (consoleController.js, consoleLogService.js).         *)
THEOREM ConsolesAlwaysTellTruth == ConsoleSpec => []ConsoleTellsTruth
<1>1. ConsoleInit => ConsoleInv
  BY ConsoleStarts
<1>2. ConsoleInv /\ [ConsoleNext]_consoleVars => ConsoleInv'
  <2> SUFFICES ASSUME ConsoleInv, [ConsoleNext]_consoleVars PROVE ConsoleInv'
    OBVIOUS
  <2>1. CASE Flush
    BY <2>1, FlushKeeps
  <2>2. CASE TakeMessage
    BY <2>2, TakeKeeps
  <2>3. CASE ResetReplied
    BY <2>3, ReplyKeeps
  <2>4. ASSUME NEW s \in Scopes, AppendLines(s) PROVE ConsoleInv'
    BY <2>4, AppendLinesKeeps
  <2>5. ASSUME NEW s \in Scopes, ResetConsoleForExecution(s) PROVE ConsoleInv'
    BY <2>5, ResetKeeps
  <2>6. ASSUME NEW s \in Scopes, FinishConsole(s) PROVE ConsoleInv'
    BY <2>6, FinishConsoleKeeps
  <2>7. ASSUME NEW s \in Scopes, SetConsoleScope(s) PROVE ConsoleInv'
    BY <2>7, ShowKeeps
  <2>8. CASE ClearConsole
    BY <2>8, ClearKeeps
  <2>9. CASE ToggleConsoleOpen
    BY <2>9, ToggleOpenKeeps
  <2>10. CASE ToggleConsoleExpanded
    BY <2>10, ToggleExpandedKeeps
  <2>11. CASE ResetAllConsoleState
    BY <2>11, ResetAllKeeps
  <2>12. CASE UNCHANGED consoleVars
    BY <2>12, ConsoleStays
  <2> QED
    BY <2>1, <2>2, <2>3, <2>4, <2>5, <2>6, <2>7, <2>8, <2>9, <2>10, <2>11, <2>12
       DEF ConsoleNext
<1>3. ConsoleInv => ConsoleTellsTruth
  BY ConsoleInvTellsTruth
<1> QED
  BY <1>1, <1>2, <1>3, PTL DEF ConsoleSpec
=============================================================================
