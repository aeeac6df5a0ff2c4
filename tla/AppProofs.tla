---- MODULE AppProofs ----
(***************************************************************************)
(* The safety of App for any keys, accounts, shards, attempts, polls and   *)
(* test cases.  Two invariants share the work: SuiteInv, of the lists that *)
(* load, execute and results keep, and ProgramInv, of the keys and of the  *)
(* sweeps and top-ups that set up the funding account.                     *)
(***************************************************************************)
EXTENDS App, FiniteSetTheorems, WellFoundedInduction, TLAPS

\* Numbers and finite sets.

\* Every set of numbers that is not empty has a least element.
LEMMA LeastElement ==
    ASSUME NEW S \in SUBSET Nat, S # {}
    PROVE  \E x \in S : \A y \in S : x <= y
<1>1. PICK x \in S : \A y \in S : ~(<<y, x>> \in OpToRel(<, Nat))
    BY NatLessThanWellFounded, WFMin, Zenon
<1>2. \A y \in S : ~(y < x)
    BY <1>1 DEF OpToRel
<1> QED BY <1>2

\* Max of the community modules is the greatest element.
LEMMA GreatestElement ==
    ASSUME NEW n \in Nat, NEW S \in SUBSET (1 .. n), S # {}
    PROVE  Max(S) \in S /\ \A y \in S : y <= Max(S)
<1> DEFINE Gaps == {n - x : x \in S}
<1>1. PICK g \in Gaps : \A h \in Gaps : g <= h
    BY LeastElement, Gaps \in SUBSET Nat, Gaps # {}
<1>2. PICK x \in S : g = n - x
    OBVIOUS
<1>3. ASSUME NEW y \in S PROVE x >= y
  <2>1. n - y \in Gaps
    OBVIOUS
  <2>2. g <= n - y
    BY <1>1, <2>1
  <2> HIDE DEF Gaps
  <2> QED BY <1>2, <2>2
<1> QED BY <1>3 DEF Max

\* An interval has as many elements as it says.
LEMMA UpTo ==
    ASSUME NEW n \in Nat
    PROVE  IsFiniteSet(1 .. n) /\ Cardinality(1 .. n) = n
<1>1. IsFiniteSet(1 .. n) /\ Cardinality(1 .. n) = IF 1 > n THEN 0 ELSE n - 1 + 1
    BY FS_Interval, n \in Int, 1 \in Int, Zenon
<1> QED BY <1>1

\* A one-to-one correspondence between two sets.
LEMMA OneToOne ==
    ASSUME NEW S, IsFiniteSet(S), NEW T, NEW f \in [S -> T],
           \A x, y \in S : f[x] = f[y] => x = y,
           \A t \in T : \E x \in S : f[x] = t
    PROVE  IsFiniteSet(T) /\ Cardinality(T) = Cardinality(S)
<1>1. f \in Bijection(S, T)
    BY DEF Bijection, Injection, Surjection, IsInjective
<1> QED BY <1>1, FS_Bijection DEF ExistsBijection

\* One more element at most.
LEMMA OneMore ==
    ASSUME NEW S, IsFiniteSet(S), NEW x, NEW T \in SUBSET (S \cup {x})
    PROVE  IsFiniteSet(T) /\ Cardinality(T) \in Nat /\ Cardinality(S) \in Nat
           /\ Cardinality(T) <= Cardinality(S) + 1
<1>1. IsFiniteSet(S \cup {x}) /\ Cardinality(S) \in Nat
      /\ Cardinality(S \cup {x}) = IF x \in S THEN Cardinality(S) ELSE Cardinality(S) + 1
    BY FS_AddElement, FS_CardinalityType
<1>2. IsFiniteSet(T) /\ Cardinality(T) <= Cardinality(S \cup {x}) /\ Cardinality(T) \in Nat
    BY <1>1, FS_Subset, FS_CardinalityType
<1> QED BY <1>1, <1>2

\* A subset of a finite set has no more elements.
LEMMA Fewer ==
    ASSUME NEW S, IsFiniteSet(S), NEW T \in SUBSET S
    PROVE  IsFiniteSet(T) /\ Cardinality(T) \in Nat /\ Cardinality(S) \in Nat
           /\ Cardinality(T) <= Cardinality(S)
BY FS_Subset, FS_CardinalityType

----
\* The suite.

\* The phases before the first test case is executed.
Preparing == {"configure", "identify", "load", "private", "keystore", "setup"}

\* What the suite is made of in each phase.
SuiteInPhase ==
    /\ phase \in {"configure", "identify"} => testCases = <<>>
    /\ phase \in Preparing =>
          /\ next = 0 /\ report = NoReport
          /\ lists.results = <<>> /\ lists.dismissed = <<>> /\ lists.failed = <<>>
    /\ report.counted \/ report.rows # <<>> => phase \in {"export", "over"}
    /\ phase = "export" => report.counted

\* What was counted is what execute counted, and what is still to be loaded was not.
CountedAnew == report.counted => report.failed = Len(lists.failed)
NotLoaded == \A i \in DOMAIN testCases, d \in sections : testCases[i].dir # Dirs[d]

\* Inductive: the two properties, with what they need of the phases.
SuiteInv ==
    /\ SuiteTypeOK /\ phase \in Phases
    /\ SuiteInPhase /\ CountedAnew /\ NotLoaded
    /\ EveryTestCaseAccounted /\ SectionsInNumericalOrder

\* The lists of the suite: positions in ascending order.
LEMMA IncreasingLists ==
    ASSUME NEW s \in Seq(Nat), Increasing(s)
    PROVE  /\ \A i, j \in 1 .. Len(s) : s[i] = s[j] => i = j
           /\ IsFiniteSet(ToSet(s)) /\ Cardinality(ToSet(s)) = Len(s)
<1>1. \A i, j \in 1 .. Len(s) : s[i] = s[j] => i = j
  <2> SUFFICES ASSUME NEW i \in 1 .. Len(s), NEW j \in 1 .. Len(s), s[i] = s[j], i # j
               PROVE  FALSE
      OBVIOUS
  <2>1. i < j \/ j < i
      OBVIOUS
  <2> QED BY <2>1 DEF Increasing
<1>2. s \in [1 .. Len(s) -> ToSet(s)] /\ \A x \in ToSet(s) : \E i \in 1 .. Len(s) : s[i] = x
    BY DEF ToSet
<1>3. IsFiniteSet(1 .. Len(s)) /\ Cardinality(1 .. Len(s)) = Len(s)
    BY Len(s) \in Nat, UpTo
<1> QED BY <1>1, <1>2, <1>3, OneToOne

\* A position after all others goes to the end of a list.
LEMMA AppendLater ==
    ASSUME NEW s \in Seq(Nat), Increasing(s), NEW n \in Nat, \A x \in ToSet(s) : x < n
    PROVE  /\ Append(s, n) \in Seq(Nat) /\ Increasing(Append(s, n))
           /\ ToSet(Append(s, n)) = ToSet(s) \cup {n}
<1>1. \A i \in 1 .. Len(s) : s[i] < n /\ Append(s, n)[i] = s[i]
    BY DEF ToSet
<1>2. Append(s, n)[Len(s) + 1] = n /\ DOMAIN Append(s, n) = 1 .. Len(s) + 1
    OBVIOUS
<1>3. Increasing(Append(s, n))
  <2> SUFFICES ASSUME NEW i \in 1 .. Len(s) + 1, NEW j \in 1 .. Len(s) + 1, i < j
               PROVE  Append(s, n)[i] < Append(s, n)[j]
      BY <1>2 DEF Increasing
  <2>1. i \in 1 .. Len(s)
      OBVIOUS
  <2>2. CASE j = Len(s) + 1
      BY <1>1, <1>2, <2>1, <2>2
  <2>3. CASE j \in 1 .. Len(s)
      BY <1>1, <2>1, <2>3 DEF Increasing
  <2> QED BY <2>2, <2>3
<1>4. ToSet(Append(s, n)) = ToSet(s) \cup {n}
  <2>1. ASSUME NEW x \in ToSet(Append(s, n)) PROVE x \in ToSet(s) \cup {n}
    <3>1. PICK i \in 1 .. Len(s) + 1 : x = Append(s, n)[i]
        BY <1>2 DEF ToSet
    <3> QED BY <3>1, <1>1, <1>2 DEF ToSet
  <2>2. ASSUME NEW x \in ToSet(s) PROVE x \in ToSet(Append(s, n))
    <3>1. PICK i \in 1 .. Len(s) : x = s[i]
        BY DEF ToSet
    <3>2. i \in DOMAIN Append(s, n) /\ Append(s, n)[i] = x
        BY <3>1, <1>1, <1>2
    <3> QED BY <3>2 DEF ToSet
  <2>3. n \in ToSet(Append(s, n))
      BY <1>2, Len(s) + 1 \in DOMAIN Append(s, n) DEF ToSet
  <2> QED BY <2>1, <2>2, <2>3
<1> QED BY <1>3, <1>4

\* Files whose names are numbers are sorted by them: of the files after one with
\* a larger number, the first would be less than the one before it.
LEMMA SortedByNumber ==
    ASSUME NEW found \in SUBSET Files, NEW order \in Sorted(found),
           \A f \in found : Number[f] >= 0
    PROVE  \A i, j \in DOMAIN order : i < j => Number[order[i]] <= Number[order[j]]
<1>1. IsFiniteSet(found) /\ Cardinality(found) \in Nat
    BY TestSuiteAssumption, FS_Subset, FS_CardinalityType
<1> DEFINE n == Cardinality(found)
<1>2. /\ order \in [1 .. n -> found] /\ Len(order) = n
      /\ \A i \in 1 .. n - 1 : ~Less(order[i + 1], order[i])
  <2>1. order \in [1 .. n -> found] /\ \A i \in 1 .. Len(order) - 1 : ~Less(order[i + 1], order[i])
      BY DEF Sorted, SetToSeqs
  <2>2. Len(order) = n
      BY <2>1, <1>1
  <2> QED BY <2>1, <2>2
<1>3. \A f \in found : Number[f] \in Nat
    BY TestSuiteAssumption
<1>4. \A i \in 1 .. n - 1 : Number[order[i]] <= Number[order[i + 1]]
  <2> SUFFICES ASSUME NEW i \in 1 .. n - 1 PROVE Number[order[i]] <= Number[order[i + 1]]
      OBVIOUS
  <2>1. order[i] \in found /\ order[i + 1] \in found /\ ~Less(order[i + 1], order[i])
      BY <1>1, <1>2
  <2> QED BY <2>1, <1>3 DEF Less
<1> SUFFICES ASSUME NEW i \in 1 .. n, NEW j \in 1 .. n, i < j,
                    ~(Number[order[i]] <= Number[order[j]])
             PROVE  FALSE
    BY <1>2
<1> DEFINE Smaller == {k \in 1 .. n : i < k /\ ~(Number[order[i]] <= Number[order[k]])}
<1>5. PICK k \in Smaller : \A l \in Smaller : k <= l
    BY LeastElement, j \in Smaller, Smaller \in SUBSET Nat, <1>1
<1>6. k - 1 \in 1 .. n - 1 /\ i <= k - 1 /\ k \in 1 .. n
    BY <1>1
<1>7. Number[order[i]] <= Number[order[k - 1]]
  <2>1. CASE k - 1 = i
      BY <2>1, <1>2, <1>3
  <2>2. CASE i < k - 1
    <3>1. k - 1 \notin Smaller
        BY <1>5, <1>6
    <3>2. k - 1 \in 1 .. n
        BY <1>1, <1>6
    <3> QED BY <3>1, <3>2, <2>2
  <2> QED BY <2>1, <2>2, <1>6
<1>8. Number[order[k - 1]] <= Number[order[k]]
    BY <1>4, <1>6
<1>9. Number[order[i]] \in Nat /\ Number[order[k - 1]] \in Nat /\ Number[order[k]] \in Nat
    BY <1>2, <1>3, <1>6
<1> QED BY <1>7, <1>8, <1>9

\* The phases follow one another, and each goes on with its own part of the suite.
PhaseKept ==
    /\ phase' \in Phases
    /\ phase' \in Preparing => phase \in Preparing
    /\ phase' = "configure" => phase = "configure"
    /\ phase' = "identify" => phase \in {"configure", "identify"}
    /\ phase \in {"export", "over"} => phase' \in {"export", "over"}
    /\ phase' = "export" => phase = "export"

\* What a step of the program does to the suite: nothing, or the part of its phase.
LEMMA SuiteMoves ==
    ASSUME phase \in Phases, [Next]_vars
    PROVE  \/ UNCHANGED suiteVars /\ PhaseKept
           \/ phase = "identify" /\ phase' = "load" /\ IdentifySections(config.test)
           \/ phase = "load" /\ phase' = "load" /\ LoadSection(config.test)
           \/ phase = "execute" /\ phase' = "execute" /\ ExecuteNext
           \/ phase = "execute" /\ phase' = "export" /\ CountResults
           \/ phase = "export" /\ phase' = "over" /\ ExportCSV
<1> USE DEF Goes, PhaseKept, Phases, Preparing
<1>1. CASE Configure
    BY <1>1 DEF Configure
<1>2. CASE Identify
    BY <1>2 DEF Identify
<1>3. CASE Load
    BY <1>3 DEF Load
<1>4. CASE LoadKeys
    BY <1>4 DEF LoadKeys
<1>5. CASE Setup
    BY <1>5 DEF Setup
<1>6. CASE SetupOver
    BY <1>6 DEF SetupOver
<1>7. CASE Execute
    BY <1>7 DEF Execute
<1>8. CASE ExitWhileExecuting
    BY <1>8 DEF ExitWhileExecuting
<1>9. CASE Results
    BY <1>9 DEF Results
<1>10. CASE Export
    BY <1>10 DEF Export
<1>11. ASSUME NEW p \in Payments, SetupTransfer(p)
       PROVE  UNCHANGED suiteVars /\ PhaseKept
    BY <1>11 DEF SetupTransfer
<1>12. CASE Chain
    BY <1>12 DEF Chain
<1>13. CASE UNCHANGED vars
    BY <1>13 DEF vars
<1> QED
    BY <1>1, <1>2, <1>3, <1>4, <1>5, <1>6, <1>7, <1>8, <1>9, <1>10, <1>11, <1>12, <1>13
       DEF Next, AppStep, Stopped

\* A step that leaves the suite alone.
LEMMA SuiteKept == ASSUME SuiteInv, UNCHANGED suiteVars, PhaseKept PROVE SuiteInv'
<1>1. SuiteTypeOK' /\ phase' \in Phases
    BY DEF SuiteInv, SuiteTypeOK, suiteVars, PhaseKept
<1>2. SuiteInPhase'
    BY DEF SuiteInv, SuiteInPhase, suiteVars, PhaseKept
<1>3. CountedAnew' /\ NotLoaded' /\ EveryTestCaseAccounted' /\ SectionsInNumericalOrder'
    BY DEF SuiteInv, CountedAnew, NotLoaded, EveryTestCaseAccounted, SectionsInNumericalOrder, suiteVars
<1> QED BY <1>1, <1>2, <1>3 DEF SuiteInv

\* Nothing of a suite that was not executed is to be accounted for.
LEMMA NoneAccounted ==
    ASSUME next = 0, lists.results = <<>>, lists.dismissed = <<>>, lists.failed = <<>>,
           report = NoReport
    PROVE  EveryTestCaseAccounted
<1>1. ToSet(<<>>) = {} /\ Increasing(<<>>)
    BY DEF ToSet, Increasing
<1>2. {i \in 1 .. next : testCases[i].execute} = {}
    OBVIOUS
<1>3. ~report.counted /\ report.rows = <<>>
    BY DEF NoReport
<1> QED BY <1>1, <1>2, <1>3 DEF EveryTestCaseAccounted

\* Initially there is nothing to account for.
LEMMA SuiteInitially == ASSUME Init PROVE SuiteInv
<1>1. phase = "configure" /\ SuiteInit
    BY DEF Init
<1>2. SuiteTypeOK
    BY <1>1 DEF SuiteInit, SuiteTypeOK, NoReport
<1>3. EveryTestCaseAccounted
    BY <1>1, NoneAccounted DEF SuiteInit
<1>4. SuiteInPhase /\ CountedAnew /\ NotLoaded /\ SectionsInNumericalOrder
    BY <1>1 DEF SuiteInit, SuiteInPhase, CountedAnew, NotLoaded, SectionsInNumericalOrder, NoReport
<1> QED BY <1>1, <1>2, <1>3, <1>4 DEF SuiteInv, Phases

\* The sections are found before any test case is loaded.
LEMMA IdentifyInv ==
    ASSUME SuiteInv, phase = "identify", phase' = "load", NEW test, IdentifySections(test)
    PROVE  SuiteInv'
<1>1. testCases = <<>> /\ UNCHANGED <<testCases, next, lists, report>>
    BY DEF SuiteInv, SuiteInPhase, IdentifySections
<1>2. SuiteTypeOK' /\ phase' \in Phases
    BY DEF SuiteInv, SuiteTypeOK, IdentifySections, Phases
<1>3. SuiteInPhase'
    BY <1>1 DEF SuiteInv, SuiteInPhase, Preparing
<1>4. CountedAnew' /\ NotLoaded' /\ SectionsInNumericalOrder'
    BY <1>1 DEF SuiteInv, CountedAnew, NotLoaded, SectionsInNumericalOrder
<1>5. EveryTestCaseAccounted'
    BY <1>1 DEF SuiteInv, EveryTestCaseAccounted
<1> QED BY <1>2, <1>3, <1>4, <1>5 DEF SuiteInv

\* The test cases of a section come after those of the others, in the order of
\* their names.
LEMMA LoadInv ==
    ASSUME SuiteInv, phase = "load", phase' = "load", NEW test, LoadSection(test)
    PROVE  SuiteInv'
<1>1. PICK d \in sections :
         /\ sections' = sections \ {d}
         /\ \E order \in Sorted(FilesFor(test) \cap SectionFiles(Dirs[d])) :
               \E valid \in InOrder({i \in DOMAIN order : Content[order[i]].valid}) :
                  testCases' = testCases \o
                      [i \in DOMAIN valid |-> Loaded(order[valid[i]], Dirs[d])]
    BY DEF LoadSection
<1> DEFINE found == FilesFor(test) \cap SectionFiles(Dirs[d])
<1>2. PICK order \in Sorted(found) : \E valid \in InOrder({i \in DOMAIN order : Content[order[i]].valid}) :
         testCases' = testCases \o [i \in DOMAIN valid |-> Loaded(order[valid[i]], Dirs[d])]
    BY <1>1
<1> DEFINE validOnes == {i \in DOMAIN order : Content[order[i]].valid}
<1>3. PICK valid \in InOrder(validOnes) :
         testCases' = testCases \o [i \in DOMAIN valid |-> Loaded(order[valid[i]], Dirs[d])]
    BY <1>2
<1> DEFINE new == [i \in DOMAIN valid |-> Loaded(order[valid[i]], Dirs[d])]
           n == Cardinality(found)
           m == Cardinality(validOnes)
<1>4. found \in SUBSET Files /\ IsFiniteSet(found) /\ n \in Nat
  <2>1. found \in SUBSET Files
      BY DEF SectionFiles
  <2> QED BY <2>1, TestSuiteAssumption, FS_Subset, FS_CardinalityType
<1>5. order \in [1 .. n -> found]
    BY DEF Sorted, SetToSeqs
<1>6. validOnes \in SUBSET (1 .. n) /\ m \in Nat
  <2>1. validOnes \in SUBSET (1 .. n)
      BY <1>5
  <2>2. IsFiniteSet(1 .. n)
      BY <1>4, FS_Interval, 1 \in Int, n \in Int
  <2> QED BY <2>1, <2>2, FS_Subset, FS_CardinalityType
<1>7. /\ valid \in [1 .. m -> validOnes]
      /\ \A i, j \in 1 .. m : i < j => valid[i] < valid[j]
    BY DEF InOrder, Increasing
<1>8. d \in DOMAIN Dirs /\ Dirs[d] \in ToSet(Dirs)
    BY DEF SuiteInv, SuiteTypeOK, ToSet
<1>9. new \in Seq(TestCase) /\ Len(new) = m
      /\ \A i \in 1 .. m : new[i].dir = Dirs[d] /\ new[i].file = order[valid[i]] /\ valid[i] \in 1 .. n
  <2>1. \A i \in 1 .. m : valid[i] \in 1 .. n /\ order[valid[i]] \in Files
      BY <1>4, <1>5, <1>6, <1>7
  <2>2. \A i \in 1 .. m : Loaded(order[valid[i]], Dirs[d]) \in TestCase
      BY <2>1, <1>8, TestSuiteAssumption DEF Loaded, TestCase
  <2>3. new = [i \in 1 .. m |-> Loaded(order[valid[i]], Dirs[d])]
      BY <1>7
  <2>4. new \in [1 .. m -> TestCase]
      BY <2>2, <2>3
  <2>5. \A i \in 1 .. m : new[i] = Loaded(order[valid[i]], Dirs[d])
      BY <2>3
  <2> HIDE DEF new, m, n, found, validOnes
  <2>6. new \in Seq(TestCase) /\ Len(new) = m
      BY <2>4, <1>6
  <2> QED BY <2>1, <2>5, <2>6 DEF Loaded
<1> HIDE DEF new, found, validOnes, n, m
<1>10. testCases' = testCases \o new
    BY <1>3 DEF new
<1> DEFINE k == Len(testCases)
<1>11. /\ testCases \in Seq(TestCase) /\ k \in Nat
       /\ testCases' \in Seq(TestCase) /\ Len(testCases') = k + m
       /\ \A i \in 1 .. k : testCases'[i] = testCases[i]
       /\ \A i \in k + 1 .. k + m : i - k \in 1 .. m /\ testCases'[i] = new[i - k]
  <2>1. testCases \in Seq(TestCase) /\ new \in Seq(TestCase) /\ Len(new) = m
      BY <1>9 DEF SuiteInv, SuiteTypeOK
  <2>2. k \in Nat /\ testCases \o new \in Seq(TestCase) /\ Len(testCases \o new) = k + m
      BY <2>1
  <2>3. \A i \in 1 .. k : (testCases \o new)[i] = testCases[i]
      BY <2>1, <1>6
  <2>4. \A i \in k + 1 .. k + m : i - k \in 1 .. m /\ (testCases \o new)[i] = new[i - k]
      BY <2>1, <1>6
  <2> QED BY <2>1, <2>2, <2>3, <2>4, <1>10
<1>12. UNCHANGED <<next, lists, report>> /\ next = 0
    BY DEF SuiteInv, SuiteInPhase, Preparing, LoadSection
<1>13. SuiteTypeOK' /\ phase' \in Phases
    BY <1>1, <1>6, <1>11, <1>12 DEF SuiteInv, SuiteTypeOK, Phases
<1>14. SuiteInPhase'
    BY <1>12 DEF SuiteInv, SuiteInPhase, Preparing
<1>15. CountedAnew'
    BY <1>12 DEF SuiteInv, CountedAnew
<1>16. EveryTestCaseAccounted'
  <2>1. ToSet(<<>>) = {} /\ Increasing(<<>>)
      BY DEF ToSet, Increasing
  <2>2. {i \in 1 .. next' : testCases'[i].execute} = {}
      BY <1>12
  <2>3. /\ lists'.results = <<>> /\ lists'.dismissed = <<>> /\ lists'.failed = <<>>
        /\ ~report'.counted /\ report'.rows = <<>>
      BY <1>12 DEF SuiteInv, SuiteInPhase, Preparing, NoReport
  <2> QED BY <2>1, <2>2, <2>3 DEF EveryTestCaseAccounted
<1>17. \A i \in 1 .. k : testCases[i].dir # Dirs[d]
    BY <1>11 DEF SuiteInv, NotLoaded
<1>18. \A e \in DOMAIN Dirs : Dirs[e] = Dirs[d] => e = d
    BY <1>8, TestSuiteAssumption DEF IsInjective
<1>19. NotLoaded'
  <2> SUFFICES ASSUME NEW i \in 1 .. k + m, NEW e \in sections \ {d}
               PROVE  testCases'[i].dir # Dirs[e]
      BY <1>1, <1>11 DEF NotLoaded
  <2>1. CASE i \in 1 .. k
      BY <2>1, <1>11 DEF SuiteInv, NotLoaded
  <2>2. CASE i \in k + 1 .. k + m
      BY <2>2, <1>9, <1>11, <1>18 DEF SuiteInv, SuiteTypeOK
  <2> QED BY <2>1, <2>2, <1>6, <1>11
<1>20. SectionsInNumericalOrder'
  <2> SUFFICES ASSUME NEW i \in 1 .. k + m, NEW j \in 1 .. k + m, i < j,
                      testCases'[i].dir = testCases'[j].dir,
                      \A f \in SectionFiles(testCases'[i].dir) : Number[f] >= 0
               PROVE  Number[testCases'[i].file] <= Number[testCases'[j].file]
      BY <1>11 DEF SectionsInNumericalOrder
  <2>1. CASE j \in 1 .. k
    <3>1. i \in DOMAIN testCases /\ j \in DOMAIN testCases
          /\ testCases'[i] = testCases[i] /\ testCases'[j] = testCases[j]
        BY <2>1, <1>11
    <3> QED BY <3>1 DEF SuiteInv, SectionsInNumericalOrder
  <2>2. CASE i \in 1 .. k /\ j \in k + 1 .. k + m
      BY <2>2, <1>9, <1>11, <1>17
  <2>3. CASE i \in k + 1 .. k + m /\ j \in k + 1 .. k + m
    <3>1. /\ i - k \in 1 .. m /\ j - k \in 1 .. m /\ i - k < j - k
          /\ testCases'[i] = new[i - k] /\ testCases'[j] = new[j - k]
        BY <2>3, <1>6, <1>11
    <3>2. valid[i - k] < valid[j - k] /\ valid[i - k] \in 1 .. n /\ valid[j - k] \in 1 .. n
        BY <3>1, <1>7, <1>9
    <3>3. \A f \in found : Number[f] >= 0
        BY <3>1, <1>9 DEF found
    <3>4. Number[order[valid[i - k]]] <= Number[order[valid[j - k]]]
        BY <3>2, <3>3, <1>4, <1>5, SortedByNumber
    <3> QED BY <3>1, <3>4, <1>9
  <2> QED BY <2>1, <2>2, <2>3, <1>6, <1>11
<1> QED BY <1>13, <1>14, <1>15, <1>16, <1>19, <1>20 DEF SuiteInv

\* The test cases gone through that were to be executed.
Done == {i \in 1 .. next : testCases[i].execute}

\* The test case gone through is added to the lists it belongs to.
LEMMA ExecuteInv ==
    ASSUME SuiteInv, phase = "execute", phase' = "execute", ExecuteNext PROVE SuiteInv'
<1> DEFINE n == next + 1
           t == testCases[n]
<1>1. /\ next \in Nat /\ n \in 1 .. Len(testCases) /\ next' = n /\ t \in TestCase
      /\ testCases \in Seq(TestCase) /\ UNCHANGED <<sections, report>>
  <2>1. /\ testCases \in Seq(TestCase) /\ next \in 0 .. Len(testCases) /\ next < Len(testCases)
        /\ next' = n /\ UNCHANGED <<sections, report>>
    BY DEF ExecuteNext, SuiteInv, SuiteTypeOK
  <2>2. Len(testCases) \in Nat
    BY <2>1
  <2>3. next \in Nat /\ n \in 1 .. Len(testCases)
    BY <2>1, <2>2
  <2> QED BY <2>1, <2>3
<1>2. ~report.counted /\ report.rows = <<>>
    BY DEF SuiteInv, SuiteInPhase
<1>3. /\ lists \in [results : Seq(Nat), dismissed : Seq(Nat), failed : Seq(Nat)]
      /\ Increasing(lists.results) /\ Increasing(lists.dismissed) /\ Increasing(lists.failed)
      /\ ToSet(lists.results) \cup ToSet(lists.dismissed) = Done
      /\ ToSet(lists.results) \cap ToSet(lists.dismissed) = {}
      /\ ToSet(lists.failed) = {i \in ToSet(lists.results) : ~Successful(testCases[i])}
    BY DEF SuiteInv, SuiteTypeOK, EveryTestCaseAccounted, Done
<1>4. /\ \A i \in ToSet(lists.results) : i < n /\ i \in 1 .. Len(testCases)
      /\ \A i \in ToSet(lists.dismissed) : i < n
      /\ \A i \in ToSet(lists.failed) : i < n
  <2>1. \A i \in Done : i < n /\ i \in 1 .. Len(testCases)
      BY <1>1 DEF Done
  <2> QED BY <2>1, <1>3
<1> DEFINE Outcome(result) == [t EXCEPT !.executed = TRUE, !.result = result]
           Skipped == ~t.execute /\ UNCHANGED <<testCases, lists>>
           Dismissed == /\ t.execute /\ lists' = [lists EXCEPT !.dismissed = Append(@, n)]
                        /\ UNCHANGED testCases
           Executed(result) ==
               /\ t.execute /\ testCases' = [testCases EXCEPT ![n] = Outcome(result)]
               /\ lists' = [lists EXCEPT
                     !.results = Append(@, n),
                     !.failed = IF Successful(Outcome(result)) THEN @ ELSE Append(@, n)]
<1>5. Skipped \/ Dismissed \/ \E result \in BOOLEAN : Executed(result)
    BY <1>1 DEF ExecuteNext
<1>6. \A result \in BOOLEAN : /\ Outcome(result) \in TestCase
                              /\ Outcome(result).file = t.file /\ Outcome(result).dir = t.dir
                              /\ Outcome(result).execute = t.execute
    BY <1>1 DEF TestCase
<1> HIDE DEF Outcome
\* What an execution changes of the test cases: nothing but what it sets.
<1> DEFINE SameCases ==
       /\ testCases' \in Seq(TestCase) /\ Len(testCases') = Len(testCases)
       /\ \A i \in 1 .. Len(testCases) :
             /\ testCases'[i].file = testCases[i].file /\ testCases'[i].dir = testCases[i].dir
             /\ testCases'[i].execute = testCases[i].execute
             /\ i # n => testCases'[i] = testCases[i]
<1>20. SameCases
  <2>1. ASSUME NEW result \in BOOLEAN, Executed(result) PROVE SameCases
    <3>1. testCases' = [testCases EXCEPT ![n] = Outcome(result)]
        BY <2>1
    <3>2. /\ Outcome(result) \in TestCase /\ Outcome(result).file = testCases[n].file
          /\ Outcome(result).dir = testCases[n].dir /\ Outcome(result).execute = testCases[n].execute
        BY <1>6
    <3> HIDE DEF n, t
    <3>3. testCases' \in Seq(TestCase) /\ Len(testCases') = Len(testCases)
        BY <3>1, <3>2, <1>1
    <3>4. \A i \in 1 .. Len(testCases) : i # n => testCases'[i] = testCases[i]
        BY <3>1, <1>1
    <3>5. testCases'[n] = Outcome(result)
        BY <3>1, <1>1
    <3> QED BY <3>2, <3>3, <3>4, <3>5
  <2>2. CASE UNCHANGED testCases
      BY <2>2, <1>1
  <2> HIDE DEF SameCases, Executed
  <2> QED BY <2>1, <2>2, <1>5
<1>7. Done' = IF t.execute THEN Done \cup {n} ELSE Done
  <2>1. /\ n \in Nat /\ 1 .. n = 1 .. next \cup {n} /\ n \notin 1 .. next
        /\ testCases'[n].execute = t.execute
        /\ \A i \in 1 .. next : testCases'[i].execute = testCases[i].execute
    BY <1>1, <1>20
  <2>2. Done' = {i \in 1 .. n : testCases'[i].execute}
    BY <1>1 DEF Done
  <2> QED BY <2>1, <2>2 DEF Done
<1> DEFINE Listed ==
       /\ lists' \in [results : Seq(Nat), dismissed : Seq(Nat), failed : Seq(Nat)]
       /\ Increasing(lists'.results) /\ Increasing(lists'.dismissed) /\ Increasing(lists'.failed)
       /\ ToSet(lists'.results) \cup ToSet(lists'.dismissed) = Done'
       /\ ToSet(lists'.results) \cap ToSet(lists'.dismissed) = {}
       /\ ToSet(lists'.failed) = {i \in ToSet(lists'.results) : ~Successful(testCases'[i])}
<1>8. n \in Nat /\ n \notin Done
    BY <1>1 DEF Done
<1>9. /\ lists.results \in Seq(Nat) /\ lists.dismissed \in Seq(Nat) /\ lists.failed \in Seq(Nat)
      /\ \A i \in ToSet(lists.results) : testCases'[i] = testCases[i]
  <2>1. \A i \in ToSet(lists.results) : i \in 1 .. Len(testCases) /\ i # n
      BY <1>1, <1>4
  <2> QED BY <2>1, <1>3, <1>20
<1>10. ASSUME Skipped PROVE Listed
  <2>1. lists' = lists /\ testCases' = testCases /\ Done' = Done
      BY <1>7, <1>10
  <2> HIDE DEF n, t
  <2> QED BY <2>1, <1>3
<1>11. ASSUME Dismissed PROVE Listed
  <2> DEFINE dismissed == Append(lists.dismissed, n)
  <2>1. /\ dismissed \in Seq(Nat) /\ Increasing(dismissed)
        /\ ToSet(dismissed) = ToSet(lists.dismissed) \cup {n}
      BY <1>3, <1>4, <1>8, <1>9, AppendLater
  <2> HIDE DEF dismissed
  <2>2. lists' = [lists EXCEPT !.dismissed = dismissed]
      BY <1>11 DEF dismissed
  <2>3. /\ lists' \in [results : Seq(Nat), dismissed : Seq(Nat), failed : Seq(Nat)]
        /\ lists'.results = lists.results /\ lists'.failed = lists.failed
        /\ lists'.dismissed = dismissed
      BY <2>1, <2>2, <1>3
  <2>4. n \notin ToSet(lists.results)
      BY <1>3, <1>8
  <2>5. Done' = Done \cup {n} /\ testCases' = testCases
      BY <1>7, <1>11
  <2> HIDE DEF n, t
  <2>6. /\ ToSet(lists'.results) \cup ToSet(lists'.dismissed) = Done'
        /\ ToSet(lists'.results) \cap ToSet(lists'.dismissed) = {}
      BY <1>3, <2>1, <2>3, <2>4, <2>5
  <2>7. ToSet(lists'.failed) = {i \in ToSet(lists'.results) : ~Successful(testCases'[i])}
      BY <1>3, <2>3, <2>5
  <2> QED BY <1>3, <2>1, <2>3, <2>6, <2>7
<1>12. ASSUME NEW result \in BOOLEAN, Executed(result) PROVE Listed
  <2> DEFINE done == Outcome(result)
             results == Append(lists.results, n)
             failed == IF Successful(done) THEN lists.failed ELSE Append(lists.failed, n)
  <2>1. testCases'[n] = done
      BY <1>1, <1>12
  <2> HIDE DEF done
  <2>2. /\ results \in Seq(Nat) /\ Increasing(results)
        /\ ToSet(results) = ToSet(lists.results) \cup {n}
      BY <1>3, <1>4, <1>8, <1>9, AppendLater
  <2>3. /\ Append(lists.failed, n) \in Seq(Nat) /\ Increasing(Append(lists.failed, n))
        /\ ToSet(Append(lists.failed, n)) = ToSet(lists.failed) \cup {n}
      BY <1>3, <1>4, <1>8, <1>9, AppendLater
  <2>4. /\ failed \in Seq(Nat) /\ Increasing(failed)
        /\ ToSet(failed) = IF Successful(done) THEN ToSet(lists.failed) ELSE ToSet(lists.failed) \cup {n}
      BY <2>3, <1>3, <1>9
  <2>5. lists' = [lists EXCEPT !.results = results, !.failed = failed]
      BY <1>12 DEF done
  <2> HIDE DEF results, failed
  <2>6. /\ lists' \in [results : Seq(Nat), dismissed : Seq(Nat), failed : Seq(Nat)]
        /\ lists'.results = results /\ lists'.failed = failed
        /\ lists'.dismissed = lists.dismissed
      BY <2>2, <2>4, <2>5, <1>3
  <2>7. n \notin ToSet(lists.results) /\ n \notin ToSet(lists.dismissed)
      BY <1>3, <1>8
  <2>8. ToSet(lists'.results) \cup ToSet(lists'.dismissed) = Done'
      BY <1>3, <1>7, <1>12, <2>2, <2>6
  <2>9. ToSet(lists'.results) \cap ToSet(lists'.dismissed) = {}
      BY <1>3, <2>2, <2>6, <2>7
  <2>10. ToSet(lists'.failed) = {i \in ToSet(lists'.results) : ~Successful(testCases'[i])}
      BY <1>3, <1>9, <2>1, <2>2, <2>4, <2>6, <2>7
  <2> QED BY <1>3, <2>2, <2>4, <2>6, <2>8, <2>9, <2>10
<1>13. Listed
  <2> HIDE DEF Listed, Executed, Skipped, Dismissed
  <2> QED BY <1>5, <1>10, <1>11, <1>12
<1>14. SuiteTypeOK' /\ phase' \in Phases
    BY <1>1, <1>20, <1>13 DEF SuiteInv, SuiteTypeOK, Phases
<1>15. SuiteInPhase'
    BY <1>1, <1>2 DEF SuiteInv, SuiteInPhase, Preparing
<1>16. CountedAnew'
    BY <1>1, <1>2 DEF CountedAnew
<1>17. NotLoaded'
    BY <1>1, <1>20 DEF SuiteInv, NotLoaded
<1>18. SectionsInNumericalOrder'
  <2>1. DOMAIN testCases' = DOMAIN testCases /\ DOMAIN testCases = 1 .. Len(testCases)
      BY <1>1, <1>20
  <2> QED BY <2>1, <1>20 DEF SuiteInv, SectionsInNumericalOrder
<1>19. EveryTestCaseAccounted'
    BY <1>1, <1>2, <1>13 DEF EveryTestCaseAccounted, Done
<1> QED BY <1>14, <1>15, <1>16, <1>17, <1>18, <1>19 DEF SuiteInv

\* What is counted anew is what the two lists hold.
LEMMA CountInv ==
    ASSUME SuiteInv, phase = "execute", phase' = "export", CountResults PROVE SuiteInv'
<1> DEFINE Counted(successful) == {i \in DOMAIN lists.results :
                                     Successful(testCases[lists.results[i]]) = successful}
           good == Counted(TRUE)
           bad == Counted(FALSE)
<1>1. /\ UNCHANGED <<sections, testCases, next, lists>>
      /\ report' = [report EXCEPT !.counted = TRUE, !.successful = Cardinality(good),
                                  !.failed = Cardinality(bad)]
    BY DEF CountResults
<1>2. /\ lists.results \in Seq(Nat) /\ lists.failed \in Seq(Nat)
      /\ Increasing(lists.results) /\ Increasing(lists.failed)
      /\ ToSet(lists.failed) = {i \in ToSet(lists.results) : ~Successful(testCases[i])}
      /\ report \in [counted : BOOLEAN, successful : Nat, failed : Nat, rows : Seq(Row)]
      /\ report.rows = <<>>
    BY DEF SuiteInv, SuiteTypeOK, EveryTestCaseAccounted, SuiteInPhase
<1> DEFINE n == Len(lists.results)
<1>3. n \in Nat /\ IsFiniteSet(1 .. n) /\ Cardinality(1 .. n) = n /\ DOMAIN lists.results = 1 .. n
  <2>1. n \in Nat /\ DOMAIN lists.results = 1 .. n
      BY <1>2
  <2> HIDE DEF n
  <2>2. IsFiniteSet(1 .. n) /\ Cardinality(1 .. n) = IF 1 > n THEN 0 ELSE n - 1 + 1
      BY <2>1, FS_Interval, n \in Int, 1 \in Int, Zenon
  <2> QED BY <2>1, <2>2
<1>4. good \cup bad = 1 .. n /\ good \cap bad = {}
  <2>1. \A i \in 1 .. n : Successful(testCases[lists.results[i]]) \in BOOLEAN
      BY DEF Successful
  <2> QED BY <2>1, <1>3, Zenon
<1>5. /\ IsFiniteSet(good) /\ IsFiniteSet(bad)
      /\ Cardinality(good) \in Nat /\ Cardinality(bad) \in Nat
      /\ Cardinality(good) + Cardinality(bad) = n
  <2> HIDE DEF good, bad
  <2>1. IsFiniteSet(good) /\ IsFiniteSet(bad)
      BY <1>3, <1>4, FS_Subset
  <2>2. Cardinality(good) \in Nat /\ Cardinality(bad) \in Nat
      BY <2>1, FS_CardinalityType
  <2>3. Cardinality(good \cup bad) = Cardinality(good) + Cardinality(bad) - Cardinality(good \cap bad)
      BY <2>1, FS_Union
  <2>4. Cardinality({}) = 0
      BY FS_EmptySet
  <2>5. Cardinality(good \cup bad) = n /\ Cardinality(good \cap bad) = 0
      BY <2>4, <1>3, <1>4
  <2> HIDE DEF n
  <2> QED BY <2>1, <2>2, <2>3, <2>5, <1>3
<1>6. Cardinality(bad) = Len(lists.failed)
  <2> DEFINE f == [i \in bad |-> lists.results[i]]
  <2>1. bad = {i \in 1 .. n : ~Successful(testCases[lists.results[i]])}
    <3>1. \A i \in 1 .. n : Successful(testCases[lists.results[i]]) \in BOOLEAN
        BY DEF Successful
    <3> QED BY <3>1, <1>3, Zenon
  <2> HIDE DEF bad
  <2>2. f \in [bad -> ToSet(lists.failed)]
      BY <2>1, <1>2, <1>3 DEF ToSet
  <2>3. \A i, j \in bad : f[i] = f[j] => i = j
      BY <2>1, <1>2, IncreasingLists
  <2>4. \A x \in ToSet(lists.failed) : \E i \in bad : f[i] = x
    <3> SUFFICES ASSUME NEW x \in ToSet(lists.failed) PROVE \E i \in bad : f[i] = x
        OBVIOUS
    <3>1. x \in ToSet(lists.results) /\ ~Successful(testCases[x])
        BY <1>2
    <3>2. PICK i \in 1 .. n : lists.results[i] = x
        BY <3>1, <1>3 DEF ToSet
    <3> QED BY <3>1, <3>2, <2>1
  <2> HIDE DEF f
  <2>5. Cardinality(ToSet(lists.failed)) = Cardinality(bad)
      BY <2>2, <2>3, <2>4, <1>5, OneToOne
  <2> QED BY <2>5, <1>2, IncreasingLists
<1> HIDE DEF good, bad, n
<1>7. /\ report' \in [counted : BOOLEAN, successful : Nat, failed : Nat, rows : Seq(Row)]
      /\ report'.successful = Cardinality(good) /\ report'.failed = Cardinality(bad)
      /\ report'.rows = <<>>
    BY <1>1, <1>2, <1>5
<1>8. SuiteTypeOK' /\ phase' \in Phases
    BY <1>1, <1>7 DEF SuiteInv, SuiteTypeOK, Phases
<1>9. SuiteInPhase'
    BY <1>1, <1>7, <1>2 DEF SuiteInPhase, Preparing
<1>10. CountedAnew'
    BY <1>1, <1>6, <1>7 DEF CountedAnew
<1>11. NotLoaded' /\ SectionsInNumericalOrder'
    BY <1>1 DEF SuiteInv, NotLoaded, SectionsInNumericalOrder
<1>12. report'.successful + report'.failed = Len(lists'.results) /\ report'.rows = <<>>
    BY <1>1, <1>5, <1>7 DEF n
<1>13. EveryTestCaseAccounted'
    BY <1>1, <1>12 DEF SuiteInv, EveryTestCaseAccounted
<1> QED BY <1>8, <1>9, <1>10, <1>11, <1>13 DEF SuiteInv

\* The rows of a list, in its order.
LEMMA RowsListed ==
    ASSUME NEW kind \in {"executed", "dismissed", "failed"}, NEW list \in Seq(Nat)
    PROVE  /\ Rows(kind, list) \in Seq(Row) /\ Len(Rows(kind, list)) = Len(list)
           /\ \A i \in 1 .. Len(list) : Rows(kind, list)[i] = [kind |-> kind, case |-> list[i]]
<1> DEFINE n == Len(list)
<1>1. n \in Nat /\ list \in [1 .. n -> Nat] /\ DOMAIN list = 1 .. n
    OBVIOUS
<1> HIDE DEF n
<1>2. Rows(kind, list) = [i \in 1 .. n |-> [kind |-> kind, case |-> list[i]]]
    BY <1>1 DEF Rows
<1>3. \A i \in 1 .. n : [kind |-> kind, case |-> list[i]] \in Row
    BY <1>1 DEF Row
<1>4. Rows(kind, list) \in [1 .. n -> Row]
    BY <1>2, <1>3
<1> QED BY <1>1, <1>2, <1>4 DEF n

\* Of the rows those of the failed list are marked so, and there is one for each.
LEMMA ExportInv ==
    ASSUME SuiteInv, phase = "export", phase' = "over", ExportCSV PROVE SuiteInv'
<1>1. /\ UNCHANGED <<sections, testCases, next, lists>>
      /\ report' = report \/ report' = [report EXCEPT !.rows = ExportRows]
    BY DEF ExportCSV
<1>2. /\ lists.results \in Seq(Nat) /\ lists.dismissed \in Seq(Nat) /\ lists.failed \in Seq(Nat)
      /\ Increasing(lists.failed)
      /\ report \in [counted : BOOLEAN, successful : Nat, failed : Nat, rows : Seq(Row)]
    BY DEF SuiteInv, SuiteTypeOK, EveryTestCaseAccounted
<1> DEFINE executed == Rows("executed", lists.results)
           dismissed == Rows("dismissed", lists.dismissed)
           failed == Rows("failed", lists.failed)
<1>3. executed \in Seq(Row) /\ \A i \in 1 .. Len(executed) : executed[i].kind = "executed"
  <2>1. "executed" \in {"executed", "dismissed", "failed"}
      OBVIOUS
  <2>2. /\ executed \in Seq(Row) /\ Len(executed) = Len(lists.results)
        /\ \A i \in 1 .. Len(lists.results) : executed[i] = [kind |-> "executed", case |-> lists.results[i]]
      BY <2>1, <1>2, RowsListed
  <2> HIDE DEF executed
  <2>3. ASSUME NEW i \in 1 .. Len(executed) PROVE executed[i].kind = "executed"
    <3>1. executed[i] = [kind |-> "executed", case |-> lists.results[i]]
        BY <2>2
    <3> QED BY <3>1
  <2> QED BY <2>2, <2>3
<1>4. dismissed \in Seq(Row) /\ \A i \in 1 .. Len(dismissed) : dismissed[i].kind = "dismissed"
  <2>1. "dismissed" \in {"executed", "dismissed", "failed"}
      OBVIOUS
  <2>2. /\ dismissed \in Seq(Row) /\ Len(dismissed) = Len(lists.dismissed)
        /\ \A i \in 1 .. Len(lists.dismissed) : dismissed[i] = [kind |-> "dismissed", case |-> lists.dismissed[i]]
      BY <2>1, <1>2, RowsListed
  <2> HIDE DEF dismissed
  <2>3. ASSUME NEW i \in 1 .. Len(dismissed) PROVE dismissed[i].kind = "dismissed"
    <3>1. dismissed[i] = [kind |-> "dismissed", case |-> lists.dismissed[i]]
        BY <2>2
    <3> QED BY <3>1
  <2> QED BY <2>2, <2>3
<1>5. /\ failed \in Seq(Row) /\ Len(failed) = Len(lists.failed)
      /\ \A i \in 1 .. Len(failed) : failed[i] = [kind |-> "failed", case |-> lists.failed[i]]
    BY <1>2, RowsListed
<1> DEFINE marked == {row \in ToSet(ExportRows) : row.kind = "failed"}
<1> HIDE DEF executed, dismissed, failed
<1>6. ExportRows = (executed \o dismissed) \o failed
    BY DEF ExportRows, executed, dismissed, failed
<1>7. ExportRows \in Seq(Row)
    BY <1>3, <1>4, <1>5, <1>6
<1>8. marked = ToSet(failed)
  <2> DEFINE a == Len(executed)
             b == Len(dismissed)
             c == Len(failed)
  <2>1. /\ a \in Nat /\ b \in Nat /\ c \in Nat /\ DOMAIN ExportRows = 1 .. a + b + c
        /\ \A i \in 1 .. a : ExportRows[i] = executed[i]
        /\ \A i \in a + 1 .. a + b : i - a \in 1 .. b /\ ExportRows[i] = dismissed[i - a]
        /\ \A i \in a + b + 1 .. a + b + c : i - (a + b) \in 1 .. c /\ ExportRows[i] = failed[i - (a + b)]
    <3> DEFINE both == executed \o dismissed
    <3>1. a \in Nat /\ b \in Nat /\ c \in Nat
        BY <1>3, <1>4, <1>5
    <3>2. /\ both \in Seq(Row) /\ Len(both) = a + b
          /\ \A i \in 1 .. a : both[i] = executed[i]
          /\ \A i \in a + 1 .. a + b : i - a \in 1 .. b /\ both[i] = dismissed[i - a]
        BY <1>3, <1>4, <3>1
    <3> HIDE DEF both
    <3>3. /\ ExportRows = both \o failed /\ DOMAIN ExportRows = 1 .. a + b + c
          /\ \A i \in 1 .. a + b : ExportRows[i] = both[i]
          /\ \A i \in a + b + 1 .. a + b + c :
                i - (a + b) \in 1 .. c /\ ExportRows[i] = failed[i - (a + b)]
      <4>1. ExportRows = both \o failed
          BY <1>6 DEF both
      <4>2. both \in Seq(Row) /\ failed \in Seq(Row) /\ Len(both) = a + b /\ Len(failed) = c
          BY <1>5, <3>2
      <4> HIDE DEF a, b, c
      <4>3. DOMAIN (both \o failed) = 1 .. a + b + c
          BY <4>2, <3>1
      <4>4. \A i \in 1 .. a + b : (both \o failed)[i] = both[i]
          BY <4>2, <3>1
      <4>5. \A i \in a + b + 1 .. a + b + c :
                i - (a + b) \in 1 .. c /\ (both \o failed)[i] = failed[i - (a + b)]
          BY <4>2, <3>1
      <4> QED BY <4>1, <4>3, <4>4, <4>5
    <3> HIDE DEF a, b, c
    <3>5. \A i \in 1 .. a : i \in 1 .. a + b
        BY <3>1
    <3>6. \A i \in a + 1 .. a + b : i \in 1 .. a + b
        BY <3>1
    <3> QED BY <3>1, <3>2, <3>3, <3>5, <3>6
  <2>2. DOMAIN failed = 1 .. c
      BY <1>5
  <2> HIDE DEF a, b, c
  <2>3. ASSUME NEW row \in ToSet(ExportRows), row.kind = "failed" PROVE row \in ToSet(failed)
    <3>1. PICK i \in 1 .. a + b + c : ExportRows[i] = row
        BY <2>1 DEF ToSet
    <3>2. i \notin 1 .. a
        BY <3>1, <2>1, <2>3, <1>3 DEF a
    <3>3. i \notin a + 1 .. a + b
        BY <3>1, <2>1, <2>3, <1>4 DEF b
    <3>4. i - (a + b) \in 1 .. c /\ row = failed[i - (a + b)]
        BY <3>1, <3>2, <3>3, <2>1
    <3> QED BY <3>4, <2>2 DEF ToSet
  <2>4. ASSUME NEW row \in ToSet(failed) PROVE row \in ToSet(ExportRows) /\ row.kind = "failed"
    <3>1. PICK i \in 1 .. c : failed[i] = row
        BY <2>2 DEF ToSet
    <3>2. a + b + i \in a + b + 1 .. a + b + c /\ a + b + i \in DOMAIN ExportRows
        BY <2>1
    <3>3. ExportRows[a + b + i] = row
        BY <3>1, <3>2, <2>1
    <3>4. failed[i].kind = "failed"
      <4>1. failed[i] = [kind |-> "failed", case |-> lists.failed[i]]
          BY <1>5 DEF c
      <4> QED BY <4>1
    <3> QED BY <3>1, <3>2, <3>3, <3>4 DEF ToSet
  <2> QED BY <2>3, <2>4
<1>9. Cardinality(marked) = Len(lists.failed)
  <2> DEFINE n == Len(lists.failed)
             f == [i \in 1 .. n |-> failed[i]]
  <2>1. n \in Nat /\ DOMAIN failed = 1 .. n
      BY <1>2, <1>5
  <2>2. f \in [1 .. n -> ToSet(failed)] /\ \A x \in ToSet(failed) : \E i \in 1 .. n : f[i] = x
      BY <2>1 DEF ToSet
  <2>3. \A i, j \in 1 .. n : f[i] = f[j] => i = j
    <3>1. \A i \in 1 .. n : f[i] = [kind |-> "failed", case |-> lists.failed[i]]
        BY <1>5, <2>1
    <3>2. \A i, j \in 1 .. n : lists.failed[i] = lists.failed[j] => i = j
        BY <1>2, IncreasingLists
    <3> HIDE DEF f, n
    <3> SUFFICES ASSUME NEW i \in 1 .. n, NEW j \in 1 .. n, f[i] = f[j] PROVE i = j
        OBVIOUS
    <3>3. \A k \in 1 .. n : f[k].case = lists.failed[k]
      <4> SUFFICES ASSUME NEW k \in 1 .. n PROVE f[k].case = lists.failed[k]
          OBVIOUS
      <4>1. f[k] = [kind |-> "failed", case |-> lists.failed[k]]
          BY <3>1
      <4> QED BY <4>1
    <3>4. f[i].case = lists.failed[i]
        BY <3>3
    <3>5. f[j].case = lists.failed[j]
        BY <3>3
    <3> QED BY <3>2, <3>4, <3>5
  <2> HIDE DEF n, f
  <2>4. IsFiniteSet(1 .. n) /\ Cardinality(1 .. n) = n
      BY <2>1, UpTo
  <2>5. Cardinality(ToSet(failed)) = n
      BY <2>2, <2>3, <2>4, OneToOne
  <2> QED BY <2>5, <1>8 DEF n
<1> HIDE DEF marked
<1>10. /\ report' \in [counted : BOOLEAN, successful : Nat, failed : Nat, rows : Seq(Row)]
       /\ report'.counted = report.counted /\ report'.successful = report.successful
       /\ report'.failed = report.failed
       /\ report'.rows = report.rows \/ report'.rows = ExportRows
    BY <1>1, <1>2, <1>7
<1>11. SuiteTypeOK' /\ phase' \in Phases
    BY <1>1, <1>10 DEF SuiteInv, SuiteTypeOK, Phases
<1>12. SuiteInPhase'
    BY DEF SuiteInPhase, Preparing
<1>13. CountedAnew'
    BY <1>1, <1>10 DEF SuiteInv, CountedAnew
<1>14. NotLoaded' /\ SectionsInNumericalOrder'
    BY <1>1 DEF SuiteInv, NotLoaded, SectionsInNumericalOrder
<1>15. report.failed = Len(lists.failed)
    BY DEF SuiteInv, SuiteInPhase, CountedAnew
<1>16. report'.rows # <<>> =>
          Cardinality({row \in ToSet(report'.rows) : row.kind = "failed"}) = report'.failed
  <2>1. CASE report'.rows = report.rows
      BY <2>1, <1>10 DEF SuiteInv, EveryTestCaseAccounted
  <2>2. CASE report'.rows = ExportRows
      BY <2>2, <1>9, <1>10, <1>15 DEF marked
  <2> QED BY <2>1, <2>2, <1>10
<1>17. EveryTestCaseAccounted'
    BY <1>1, <1>10, <1>16 DEF SuiteInv, EveryTestCaseAccounted
<1> QED BY <1>11, <1>12, <1>13, <1>14, <1>17 DEF SuiteInv

\* Each part of the suite keeps what is said of all of them.
LEMMA SuiteInvNext == ASSUME SuiteInv, [Next]_vars PROVE SuiteInv'
<1>1. phase \in Phases
    BY DEF SuiteInv
<1> QED BY <1>1, SuiteMoves, SuiteKept, IdentifyInv, LoadInv, ExecuteInv, CountInv, ExportInv

\* SuiteInv is an invariant of the program.
LEMMA SuiteInvariant == Spec => []SuiteInv
<1>1. Init => SuiteInv
    BY SuiteInitially
<1>2. SuiteInv /\ [Next]_vars => SuiteInv'
    BY SuiteInvNext
<1> QED BY <1>1, <1>2, PTL DEF Spec

\* The summary and the export account for every test case of the suite, however
\* many there are and whatever their results.
THEOREM EveryCaseIsAccounted == Spec => []EveryTestCaseAccounted
<1>1. SuiteInv => EveryTestCaseAccounted
    BY DEF SuiteInv
<1> QED BY <1>1, SuiteInvariant, PTL

\* Whatever the directories and files are called, a section whose names are
\* numbers is executed in their order.
THEOREM RunsInNumericalOrder == Spec => []SectionsInNumericalOrder
<1>1. SuiteInv => SectionsInNumericalOrder
    BY DEF SuiteInv
<1> QED BY <1>1, SuiteInvariant, PTL

----
\* The keys and the setup of the funding account.

\* The types of everything but the suite.
ProgramTypes ==
    /\ phase \in Phases /\ config \in Config
    /\ LedgerTypeOK /\ CallTypeOK /\ KeysTypeOK /\ SetupTypeOK

\* Until the funding account is set up, accs holds the accounts above the minimum,
\* which have their keys; each half of LoadKeys adds what it can list at most.
Loading == {"configure", "identify", "load", "private", "keystore"}

AccsInPhase ==
    /\ phase \in Loading \ {"keystore"} => accs = <<>>
    /\ phase = "keystore" => Len(accs) <= Len(PrivateKeys)
    /\ Len(accs) <= MaxAccounts
    /\ ToSet(accs) \subseteq keystore
    /\ phase \in Loading => \A a \in ToSet(accs) : HasFunds(a)

\* Who pays: the account at its position, or the funding account from shard 0.
Payer(p) == IF IsSweep(p) THEN <<accs[p[1]], p[2]>> ELSE <<Funder, 0>>

\* Where SetupFundingAccount stands, and the transfers it has not started or has
\* waited for.
SetupInPhase ==
    /\ phase \in Loading => setup.pc = "account"
    /\ setup.pc = "account" =>
          setup.sweeps = {} /\ pool = {} /\ chain = {} /\ \A p \in Payments : call[p].pc = "idle"
    /\ setup.pc \in {"account", "sweep", "wait"} => setup.left = Shards
    /\ \A p \in setup.sweeps : call[p].pc = "idle" /\ IsSweep(p) /\ p[1] \in DOMAIN accs
    /\ setup.pc \in {"topup", "poll"} => setup.shard \notin setup.left
    /\ \A s \in setup.left : call[TopUp(s)].pc = "idle"
    /\ setup.pc \notin {"account", "sweep", "wait"} =>
          \A p \in Payments : IsSweep(p) => call[p].pc \in Returned \cup {"idle"}

\* The frames of the calls and the amounts they transfer.
FramesKept ==
    \A p \in Payments :
        /\ call[p].pc \in {"idle", "skipped"} => call[p].attempts = Attempts
        /\ call[p].pc \in {"send", "receipt"} => call[p].attempts > 0
        /\ call[p].pc # "idle" =>
              call[p].from = Payer(p) /\ (IsSweep(p) => p[1] \in DOMAIN accs)
        /\ call[p].pc \notin {"idle", "skipped"} \/ ~IsSweep(p) => amount[p] >= 0

\* The pool holds what running or returned calls have sent.
SentByCalls ==
    \A t \in pool : t.from = call[t.to].from /\ call[t.to].pc \notin {"idle", "skipped"}

\* A staking run goes through the beacon shard.
InBeaconShard ==
    config.test = "staking" =>
        /\ phase \notin {"configure", "over", "exited"} => config.shards = 0
        /\ \A p \in setup.sweeps : p[2] = 0
        /\ \A p \in Payments : IsSweep(p) /\ call[p].pc # "idle" => p[2] = 0

\* An attempt leaves at most one transaction, in the pool or mined.
PendingFor(p) == {t \in pool : t.to = p}
Uses(frame) ==
    Attempts - frame.attempts + IF frame.pc \in {"receipt", "success"} THEN 1 ELSE 0
AttemptsUsed(p) == Uses(call[p])

\* What was paid and what is still pending was paid for in attempts.
Counted ==
    /\ IsFiniteSet(pool) /\ IsFiniteSet(chain)
    /\ \A p \in Payments : Cardinality(PaidBy(p)) + Cardinality(PendingFor(p)) <= AttemptsUsed(p)

\* The shards that were checked, unless one of them waits for its top-up.
CheckedAreFunded ==
    config.test = "all" /\ setup.pc \in {"shards", "topup", "poll", "done"} =>
        \A s \in Shards \ {0} :
            \/ s \in setup.left
            \/ setup.pc \in {"topup", "poll"} /\ s = setup.shard
            \/ holdings[Funder][s] >= MinimumFunds

\* The setup is done once every shard was gone through.
AllChecked == setup.pc = "done" => setup.left = {}

\* The process ends with the call that finds no key.
FunderMissing == exited => phase = "exited" /\ Funder \notin keystore

\* Inductive, with the named parts above.
ProgramInv ==
    /\ ProgramTypes /\ AccsInPhase /\ SetupInPhase /\ FramesKept /\ SentByCalls
    /\ InBeaconShard /\ Counted /\ CheckedAreFunded /\ AllChecked /\ FunderMissing

\* What a step of the keys may do: the accounts that were kept have their keys,
\* and the files that disappear are those of accounts without funds.
FundedKept ==
    /\ ToSet(accs') \subseteq keystore'
    /\ \A f \in files \ files' : ~HasFunds(FileAddress[f])

\* accs grows by what is kept of the imported accounts, and nothing that holds
\* more than the minimum is removed.
LEMMA FilterStep ==
    ASSUME KeysTypeOK, ToSet(accs) \subseteq keystore, \A a \in ToSet(accs) : HasFunds(a),
           NEW imported \in SUBSET Addresses, NEW kept \in Seq(imported),
           \A i \in DOMAIN kept : HasFunds(kept[i]),
           NEW mapping, NEW removeEmpty,
           \A a \in imported \cap DOMAIN mapping :
               mapping[a] \in files /\ FileAddress[mapping[a]] = a,
           FilterKeys(imported, kept, mapping, removeEmpty)
    PROVE  /\ accs' \in Seq(Addresses) /\ Len(accs') = Len(accs) + Len(kept)
           /\ keystore' \subseteq Accounts /\ files' \subseteq files
           /\ \A a \in ToSet(accs') : HasFunds(a)
           /\ FundedKept
<1> DEFINE missing == {a \in imported : ~HasFunds(a)}
           sources == {mapping[a] : a \in missing \cap DOMAIN mapping}
<1>1. accs' = accs \o kept
    BY DEF FilterKeys
<1>2. accs \in Seq(Addresses) /\ kept \in Seq(Addresses)
    BY DEF KeysTypeOK
<1>3. accs' \in Seq(Addresses) /\ Len(accs') = Len(accs) + Len(kept)
    BY <1>1, <1>2
<1>4. \A a \in ToSet(accs') : a \in ToSet(accs) \/ (a \in imported /\ HasFunds(a))
  <2> SUFFICES ASSUME NEW i \in 1 .. Len(accs) + Len(kept)
               PROVE  accs'[i] \in ToSet(accs) \/ (accs'[i] \in imported /\ HasFunds(accs'[i]))
      BY <1>3 DEF ToSet
  <2>1. CASE i \in 1 .. Len(accs)
    <3>1. accs'[i] = accs[i]
        BY <2>1, <1>1, <1>2
    <3> QED BY <3>1, <2>1, <1>2 DEF ToSet
  <2>2. CASE i \in Len(accs) + 1 .. Len(accs) + Len(kept)
    <3>1. accs'[i] = kept[i - Len(accs)] /\ i - Len(accs) \in 1 .. Len(kept)
        BY <2>2, <1>1, <1>2
    <3> QED BY <3>1
  <2> QED BY <2>1, <2>2, <1>2
<1>5. /\ (keystore \cup imported) \ missing \subseteq keystore'
      /\ keystore' \subseteq keystore \cup imported
      /\ files \ files' \subseteq sources /\ files' \subseteq files
    BY DEF FilterKeys
<1>6. \A f \in sources : ~HasFunds(FileAddress[f])
    OBVIOUS
<1>7. ToSet(accs') \subseteq keystore'
    BY <1>4, <1>5
<1>8. keystore' \subseteq Accounts
    BY <1>5 DEF KeysTypeOK, Accounts
<1> QED BY <1>3, <1>4, <1>5, <1>6, <1>7, <1>8 DEF FundedKept

\* What LoadKeys leaves behind, whichever half of it and however it ends.
LEMMA LoadKeysStep ==
    ASSUME ProgramInv, LoadKeys
    PROVE  /\ phase' \in Phases \ {"configure", "identify", "load", "private", "execute", "export"}
           /\ phase \in {"private", "keystore"}
           /\ KeysTypeOK' /\ AccsInPhase' /\ FundedKept
<1> USE KeysAssumption
<1>1. /\ KeysTypeOK /\ AccsInPhase /\ config.removeEmpty \in BOOLEAN
      /\ PrivateKeys \in Seq(Addresses) /\ Cardinality(Addresses) \in Nat /\ Len(PrivateKeys) \in Nat
    BY FS_CardinalityType DEF ProgramInv, ProgramTypes, Config
<1>2. \A imported \in SUBSET Addresses : Cardinality(imported) \in Nat
                                         /\ Cardinality(imported) <= Cardinality(Addresses)
    BY FS_Subset, FS_CardinalityType
<1>3. CASE Goes("private", "keystore") /\ LoadPrivateKeys(config.removeEmpty)
  <2> USE <1>3
  <2>1. PICK lines \in SUBSET DOMAIN PrivateKeys :
           \E kept \in InOrder({i \in lines : HasFunds(PrivateKeys[i])}) :
              FilterKeys({PrivateKeys[i] : i \in lines},
                         [i \in DOMAIN kept |-> PrivateKeys[kept[i]]], NoMapping, config.removeEmpty)
      BY DEF LoadPrivateKeys
  <2> DEFINE funded == {i \in lines : HasFunds(PrivateKeys[i])}
             imported == {PrivateKeys[i] : i \in lines}
  <2>2. PICK order \in InOrder(funded) :
           FilterKeys(imported, [i \in DOMAIN order |-> PrivateKeys[order[i]]], NoMapping, config.removeEmpty)
      BY <2>1
  <2> DEFINE kept == [i \in DOMAIN order |-> PrivateKeys[order[i]]]
             n == Cardinality(funded)
             m == Len(PrivateKeys)
  <2>3. imported \in SUBSET Addresses /\ funded \in SUBSET (1 .. m)
      BY <1>1
  <2>4. n \in Nat /\ n <= m
    <3> HIDE DEF n, m, funded
    <3>1. IsFiniteSet(1 .. m) /\ Cardinality(1 .. m) = m
        BY <1>1, UpTo DEF m
    <3>2. IsFiniteSet(funded) /\ Cardinality(funded) <= Cardinality(1 .. m)
        BY <2>3, <3>1, FS_Subset
    <3> QED BY <3>1, <3>2, FS_CardinalityType DEF n
  <2>5. order \in [1 .. n -> funded]
      BY DEF InOrder
  <2>6. kept \in [1 .. n -> imported] /\ \A i \in 1 .. n : HasFunds(kept[i])
      BY <2>5
  <2>7. FilterKeys(imported, kept, NoMapping, config.removeEmpty)
      BY <2>2
  <2> HIDE DEF kept, n, funded, imported
  <2>8. kept \in Seq(imported) /\ Len(kept) = n /\ \A i \in DOMAIN kept : HasFunds(kept[i])
      BY <2>4, <2>6
  <2>9. accs = <<>> /\ phase = "private" /\ phase' = "keystore"
      BY <1>1 DEF AccsInPhase, Goes, Loading
  <2>10. \A a \in ToSet(accs) : HasFunds(a)
      BY <1>1, <2>9 DEF AccsInPhase, Loading
  <2>11. \A a \in imported \cap DOMAIN NoMapping :
              NoMapping[a] \in files /\ FileAddress[NoMapping[a]] = a
      BY DEF NoMapping
  <2>12. ToSet(accs) \subseteq keystore
      BY <1>1 DEF AccsInPhase
  <2>13. /\ accs' \in Seq(Addresses) /\ Len(accs') = Len(accs) + Len(kept)
         /\ keystore' \subseteq Accounts /\ files' \subseteq files
         /\ \A a \in ToSet(accs') : HasFunds(a)
         /\ FundedKept
    <3>1. KeysTypeOK /\ imported \in SUBSET Addresses /\ kept \in Seq(imported)
        BY <1>1, <2>3, <2>8
    <3>2. \A i \in DOMAIN kept : HasFunds(kept[i])
        BY <2>8
    <3> QED BY <3>1, <3>2, <2>7, <2>10, <2>11, <2>12, FilterStep, Zenon
  <2>14. UNCHANGED <<holdings, keyMapping>>
      BY DEF LoadPrivateKeys
  <2>15. KeysTypeOK'
      BY <1>1, <2>13, <2>14 DEF KeysTypeOK
  <2>16. Len(accs') = n
      BY <2>8, <2>9, <2>13, <2>4
  <2>17. Len(accs') <= Len(PrivateKeys)
      BY <2>16, <2>4 DEF m
  <2>18. Len(accs') <= MaxAccounts
      BY <2>16, <2>4, <1>1 DEF m, MaxAccounts
  <2>19. \A a \in ToSet(accs') : HasFunds(a)'
      BY <2>13, <2>14 DEF HasFunds
  <2>20. AccsInPhase'
      BY <2>9, <2>13, <2>17, <2>18, <2>19 DEF AccsInPhase, Loading, FundedKept
  <2> QED BY <2>9, <2>13, <2>15, <2>20 DEF Phases
<1>4. ASSUME NEW to \in {"over", "setup", "exited"}, phase \in {"private", "keystore"}, phase' = to,
             keystore \subseteq keystore', keystore' \subseteq keystore \cup Addresses,
             DOMAIN keyMapping' \subseteq Addresses, UNCHANGED <<holdings, files, accs>>
      PROVE  phase' \in Phases \ {"configure", "identify", "load", "private", "execute", "export"}
             /\ KeysTypeOK' /\ AccsInPhase' /\ FundedKept
  <2>1. KeysTypeOK'
      BY <1>1, <1>4 DEF KeysTypeOK, Accounts
  <2>2. AccsInPhase'
      BY <1>1, <1>4 DEF AccsInPhase, Loading
  <2>3. FundedKept
      BY <1>1, <1>4 DEF AccsInPhase, FundedKept
  <2> QED BY <2>1, <2>2, <2>3, <1>4 DEF Phases
<1>5. CASE Goes("private", "over") /\ LoadKeysFails(ToSet(PrivateKeys), keyMapping)
  <2>1. ToSet(PrivateKeys) \subseteq Addresses
      BY DEF ToSet
  <2>2. /\ keystore \subseteq keystore' /\ keystore' \subseteq keystore \cup Addresses
        /\ DOMAIN keyMapping' \subseteq Addresses /\ UNCHANGED <<holdings, files, accs>>
      BY <1>1, <1>5, <2>1 DEF LoadKeysFails, KeysTypeOK
  <2> QED BY <1>4, <1>5, <2>2 DEF Goes
<1>6. DOMAIN IdentifiedKeys \subseteq Addresses
    BY DEF IdentifiedKeys
<1>7. CASE Goes("keystore", "over") /\ LoadKeysFails(DOMAIN IdentifiedKeys, IdentifiedKeys)
  <2>1. /\ keystore \subseteq keystore' /\ keystore' \subseteq keystore \cup Addresses
        /\ DOMAIN keyMapping' \subseteq Addresses /\ UNCHANGED <<holdings, files, accs>>
    <3>1. keyMapping' = IdentifiedKeys /\ UNCHANGED <<holdings, files, accs>>
        BY <1>7 DEF LoadKeysFails
    <3>2. PICK imported \in SUBSET DOMAIN IdentifiedKeys : keystore' = keystore \cup imported
        BY <1>7 DEF LoadKeysFails
    <3> QED BY <3>1, <3>2, <1>6
  <2> QED BY <1>4, <1>7, <2>1 DEF Goes
<1>8. CASE Goes("keystore", "exited") /\ UNCHANGED keysVars
  <2>1. /\ keystore \subseteq keystore' /\ keystore' \subseteq keystore \cup Addresses
        /\ DOMAIN keyMapping' \subseteq Addresses /\ UNCHANGED <<holdings, files, accs>>
      BY <1>1, <1>8 DEF keysVars, KeysTypeOK
  <2> QED BY <1>4, <1>8, <2>1 DEF Goes
<1>9. \A a \in DOMAIN IdentifiedKeys :
         IdentifiedKeys[a] \in files /\ FileAddress[IdentifiedKeys[a]] = a
  <2> SUFFICES ASSUME NEW a \in DOMAIN IdentifiedKeys
               PROVE  IdentifiedKeys[a] \in files /\ FileAddress[IdentifiedKeys[a]] = a
      OBVIOUS
  <2>1. IdentifiedKeys[a] = Max(Naming(a)) /\ Naming(a) # {}
      BY DEF IdentifiedKeys
  <2>2. Naming(a) \in SUBSET (1 .. Len(FileAddress))
      BY <1>1 DEF Naming, KeysTypeOK
  <2>3. Len(FileAddress) \in Nat
      OBVIOUS
  <2>4. Max(Naming(a)) \in Naming(a)
      BY <2>1, <2>2, <2>3, GreatestElement
  <2> QED BY <2>1, <2>4 DEF Naming
<1>10. CASE Goes("keystore", "setup") /\ LoadKeystoreKeys(config.removeEmpty)
  <2> USE <1>10
  <2>1. PICK imported \in SUBSET DOMAIN IdentifiedKeys :
           \E kept \in SetToSeqs({a \in imported : HasFunds(a)}) :
              FilterKeys(imported, kept, IdentifiedKeys, config.removeEmpty)
      BY DEF LoadKeystoreKeys
  <2> DEFINE funded == {a \in imported : HasFunds(a)}
             n == Cardinality(funded)
  <2>2. PICK kept \in SetToSeqs(funded) : FilterKeys(imported, kept, IdentifiedKeys, config.removeEmpty)
      BY <2>1
  <2>3. imported \in SUBSET Addresses /\ funded \in SUBSET imported
      BY <1>6
  <2>4. n \in Nat /\ n <= Cardinality(Addresses)
      BY <1>2, <2>3
  <2>5. kept \in [1 .. n -> funded]
      BY DEF SetToSeqs
  <2>6. kept \in [1 .. n -> imported] /\ \A i \in 1 .. n : HasFunds(kept[i])
      BY <2>5
  <2> HIDE DEF n, funded
  <2>7. kept \in Seq(imported) /\ Len(kept) = n /\ \A i \in DOMAIN kept : HasFunds(kept[i])
      BY <2>4, <2>6
  <2>8. phase = "keystore" /\ phase' = "setup" /\ Len(accs) <= Len(PrivateKeys)
        /\ ToSet(accs) \subseteq keystore /\ \A a \in ToSet(accs) : HasFunds(a)
      BY <1>1 DEF AccsInPhase, Goes, Loading
  <2>9. \A a \in imported \cap DOMAIN IdentifiedKeys :
           IdentifiedKeys[a] \in files /\ FileAddress[IdentifiedKeys[a]] = a
      BY <1>9
  <2>10. /\ accs' \in Seq(Addresses) /\ Len(accs') = Len(accs) + Len(kept)
         /\ keystore' \subseteq Accounts /\ files' \subseteq files
         /\ \A a \in ToSet(accs') : HasFunds(a)
         /\ FundedKept
      BY <1>1, <2>2, <2>3, <2>7, <2>8, <2>9, FilterStep
  <2>11. holdings' = holdings /\ keyMapping' = IdentifiedKeys
      BY DEF LoadKeystoreKeys
  <2>12. KeysTypeOK'
      BY <1>1, <1>6, <2>10, <2>11 DEF KeysTypeOK
  <2>13. Len(accs) \in Nat
      BY <1>1 DEF KeysTypeOK
  <2>14. Len(accs') <= MaxAccounts
      BY <1>1, <2>4, <2>7, <2>8, <2>10, <2>13 DEF MaxAccounts
  <2>15. AccsInPhase'
      BY <2>8, <2>10, <2>14 DEF AccsInPhase, Loading, FundedKept
  <2> QED BY <2>8, <2>10, <2>12, <2>15 DEF Phases
<1> QED BY <1>3, <1>5, <1>7, <1>8, <1>10 DEF LoadKeys, Goes

\* A step that leaves the keys, the setup and the ledger alone.
LEMMA PhaseStep ==
    ASSUME ProgramInv, UNCHANGED startVars, phase' \in Phases, config' \in Config,
           phase' \in Loading => phase \in Loading,
           phase' \in Loading \ {"keystore"} => phase # "keystore",
           phase' = "keystore" => phase = "keystore",
           exited => phase' = "exited",
           config' = config \/ phase = "configure",
           config'.test = "staking" /\ phase' \notin {"configure", "over", "exited"} =>
               config'.shards = 0
    PROVE  ProgramInv' /\ FundedKept
<1> USE DEF ProgramInv, startVars, keysVars, setupVars, callVars, ledgerVars
<1>1. ProgramTypes'
  <2>1. LedgerTypeOK' /\ CallTypeOK'
      BY DEF ProgramTypes, LedgerTypeOK, CallTypeOK
  <2>2. KeysTypeOK' /\ SetupTypeOK'
      BY DEF ProgramTypes, KeysTypeOK, SetupTypeOK
  <2> QED BY <2>1, <2>2 DEF ProgramTypes
<1>2. AccsInPhase'
  <2>1. \A a : HasFunds(a)' <=> HasFunds(a)
      BY DEF HasFunds
  <2> QED BY <2>1 DEF AccsInPhase, Loading
<1>3. SetupInPhase'
    BY DEF SetupInPhase
<1>4. FramesKept' /\ SentByCalls'
    BY DEF FramesKept, SentByCalls, Payer
<1>5. phase = "configure" => setup.pc = "account"
    BY DEF SetupInPhase, Loading
<1>6. InBeaconShard'
    BY <1>5 DEF InBeaconShard, SetupInPhase
<1>7. Counted'
    BY DEF Counted, PaidBy, PendingFor, AttemptsUsed, Uses
<1>8. CheckedAreFunded' /\ AllChecked' /\ FunderMissing'
    BY <1>5 DEF CheckedAreFunded, AllChecked, FunderMissing
<1>9. FundedKept
    BY DEF FundedKept, AccsInPhase
<1> QED BY <1>1, <1>2, <1>3, <1>4, <1>6, <1>7, <1>8, <1>9

\* The keys are loaded before anything is sent.
LEMMA LoadKeysInv == ASSUME ProgramInv, LoadKeys PROVE ProgramInv' /\ FundedKept
<1>1. /\ phase' \in Phases \ {"configure", "identify", "load", "private", "execute", "export"}
      /\ phase \in {"private", "keystore"}
      /\ KeysTypeOK' /\ AccsInPhase' /\ FundedKept
    BY LoadKeysStep
<1>2. UNCHANGED <<config, setupVars, callVars, ledgerVars>>
    BY DEF LoadKeys
<1> USE <1>1, <1>2 DEF ProgramInv, setupVars, callVars, ledgerVars
<1>3. phase' = "keystore" => phase = "private"
    BY DEF LoadKeys, Goes
<1>4. setup.pc = "account"
    BY DEF SetupInPhase, Loading
<1>5. ProgramTypes'
  <2>1. LedgerTypeOK' /\ CallTypeOK' /\ SetupTypeOK'
      BY DEF ProgramTypes, LedgerTypeOK, CallTypeOK, SetupTypeOK
  <2> QED BY <2>1 DEF ProgramTypes
<1>6. SetupInPhase'
    BY <1>4 DEF SetupInPhase
<1>7. FramesKept' /\ SentByCalls'
    BY <1>4 DEF FramesKept, SentByCalls, SetupInPhase
<1>8. InBeaconShard'
    BY <1>4 DEF InBeaconShard, SetupInPhase
<1>9. Counted'
    BY DEF Counted, PaidBy, PendingFor, AttemptsUsed, Uses
<1>10. CheckedAreFunded' /\ AllChecked' /\ FunderMissing'
    BY <1>4 DEF CheckedAreFunded, AllChecked, FunderMissing
<1> QED BY <1>5, <1>6, <1>7, <1>8, <1>9, <1>10

\* The steps of main and the scenarios, outside the setup.
LEMMA MainInv ==
    ASSUME ProgramInv,
           Configure \/ Identify \/ Load \/ SetupOver \/ Execute \/ ExitWhileExecuting
           \/ Results \/ Export \/ UNCHANGED vars
    PROVE  ProgramInv' /\ FundedKept
<1> USE DEF Goes
<1>1. /\ config \in Config /\ phase \in Phases
      /\ exited => phase = "exited"
      /\ config.test = "staking" /\ phase \notin {"configure", "over", "exited"} => config.shards = 0
    BY DEF ProgramInv, ProgramTypes, FunderMissing, InBeaconShard
<1>2. CASE Configure
  <2>1. CASE Goes("configure", "over") /\ UNCHANGED config
      BY <1>1, <1>2, <2>1, PhaseStep DEF Configure, Phases, Loading
  <2>2. ASSUME NEW test, test = NormalizedTest(config.test), Goes("configure", "identify"),
               config' = [config EXCEPT !.test = test, !.shards = FundingShards(test, @)]
        PROVE  ProgramInv' /\ FundedKept
    <3>1. test \in Targets
      <4>1. config.test \in Targets
          BY <1>1 DEF Config
      <4>2. NormalizedTest(config.test) \in {"transactions", "staking", "all", config.test}
          BY DEF NormalizedTest
      <4> QED BY <2>2, <4>1, <4>2, AppAssumption
    <3>2. config.shards \in Int
        BY <1>1 DEF Config
    <3>3. FundingShards(test, config.shards) \in Int
        BY <3>2 DEF FundingShards, AllShards
    <3>4. test = "staking" => FundingShards(test, config.shards) = 0
        BY DEF FundingShards
    <3> DEFINE shards == FundingShards(test, config.shards)
    <3> HIDE DEF shards
    <3>5. config' = [config EXCEPT !.test = test, !.shards = shards]
        BY <2>2 DEF shards
    <3>6. config' \in Config /\ config'.test = test /\ config'.shards = shards
        BY <1>1, <3>1, <3>3, <3>5 DEF Config, shards
    <3> QED BY <1>1, <1>2, <2>2, <3>4, <3>6, PhaseStep DEF Configure, Phases, Loading, shards
  <2> QED BY <1>2, <2>1, <2>2 DEF Configure
<1>3. CASE Identify
    BY <1>1, <1>3, PhaseStep DEF Identify, Phases, Loading
<1>4. CASE Load
    BY <1>1, <1>4, PhaseStep DEF Load, Phases, Loading
<1>5. CASE SetupOver
    BY <1>1, <1>5, PhaseStep DEF SetupOver, Phases, Loading
<1>6. CASE Execute
    BY <1>1, <1>6, PhaseStep DEF Execute, Phases, Loading
<1>7. CASE ExitWhileExecuting
    BY <1>1, <1>7, PhaseStep DEF ExitWhileExecuting, Phases, Loading
<1>8. CASE Results
    BY <1>1, <1>8, PhaseStep DEF Results, Phases, Loading
<1>9. CASE Export
    BY <1>1, <1>9, PhaseStep DEF Export, Phases, Loading
<1>10. CASE UNCHANGED vars
    BY <1>1, <1>10, PhaseStep DEF vars, startVars
<1> QED BY <1>2, <1>3, <1>4, <1>5, <1>6, <1>7, <1>8, <1>9, <1>10

\* What a step of a running call does to its frame.
Advanced(old, new) ==
    /\ new \in Frame /\ new.from = old.from
    /\ old.pc \in {"loop", "send", "receipt"}
    /\ new.pc \notin {"idle", "skipped"}
    /\ new.pc \in {"send", "receipt"} => new.attempts > 0

\* An attempt accepted by the node is one more attempt used, or the one whose
\* receipt the call waits for.
LEMMA CallMoves ==
    ASSUME LedgerTypeOK, CallTypeOK, NEW p \in Payments, CallStep(p),
           call[p].pc \in {"send", "receipt"} => call[p].attempts > 0
    PROVE  \E f \in Frame :
              /\ call' = [call EXCEPT ![p] = f] /\ Advanced(call[p], f)
              /\ \/ UNCHANGED ledgerVars /\ Uses(call[p]) <= Uses(f)
                 \/ Accept(TxOf(p)) /\ call[p].pc = "send" /\ Uses(call[p]) + 1 <= Uses(f)
              /\ exited' = exited \/ exited' = TRUE
<1> USE FundingTransactionAssumption
<1> USE DEF CallPC, ReturnedNil, Returned
<1> DEFINE Moved(f, n) ==
               call' = [call EXCEPT ![p] = f] /\ Advanced(call[p], f) /\ Uses(call[p]) + n <= Uses(f)
<1>1. call[p] \in Frame /\ call \in [Payments -> Frame]
    BY DEF CallTypeOK
<1>2. ASSUME NEW pc \in CallPC, Goto(p, pc), pc \notin {"idle", "skipped", "send"},
             call[p].pc \in {"loop", "send", "receipt"},
             pc = "receipt" => call[p].pc = "send",
             call[p].pc = "receipt" => pc = "success"
      PROVE  \E f \in Frame : Moved(f, IF pc = "receipt" THEN 1 ELSE 0)
    <2> DEFINE f == [call[p] EXCEPT !.pc = pc]
    <2>1. call' = [call EXCEPT ![p] = f]
        BY <1>1, <1>2 DEF Goto
    <2>2. f \in Frame /\ f.pc = pc /\ f.from = call[p].from /\ f.attempts = call[p].attempts
        BY <1>1, <1>2 DEF Frame
    <2>3. call[p].attempts \in Int
        BY <1>1 DEF Frame
    <2> HIDE DEF f
    <2>4. Advanced(call[p], f)
        BY <2>2, <1>1, <1>2 DEF Advanced, Frame
    <2>5. Uses(call[p]) = Attempts - call[p].attempts + IF call[p].pc = "receipt" THEN 1 ELSE 0
        BY <1>2 DEF Uses
    <2>6. Uses(f) = Attempts - call[p].attempts + IF pc \in {"receipt", "success"} THEN 1 ELSE 0
        BY <2>2 DEF Uses
    <2>7. Uses(call[p]) + (IF pc = "receipt" THEN 1 ELSE 0) <= Uses(f)
        BY <1>2, <2>3, <2>5, <2>6
    <2> QED BY <2>1, <2>2, <2>4, <2>7
<1>3. ASSUME NEW price \in Nat, Retry(p, price), call[p].attempts > 0,
             call[p].pc \in {"loop", "send", "receipt"}
      PROVE  \E f \in Frame : Moved(f, IF call[p].pc = "receipt" THEN 0 ELSE 1)
    <2> DEFINE f == [call[p] EXCEPT !.pc = "loop", !.attempts = call[p].attempts - 1,
                                   !.gasPrice = price]
    <2>1. call' = [call EXCEPT ![p] = f]
        BY <1>1, <1>3 DEF Retry
    <2>2. call[p].attempts - 1 \in 0 .. Attempts /\ call[p].attempts \in Int
        BY <1>1, <1>3 DEF Frame
    <2>3. f \in Frame /\ f.pc = "loop" /\ f.from = call[p].from /\ f.attempts = call[p].attempts - 1
        BY <1>1, <1>3, <2>2 DEF Frame
    <2> HIDE DEF f
    <2>4. Advanced(call[p], f)
        BY <2>3, <1>3 DEF Advanced
    <2>5. Uses(call[p]) = Attempts - call[p].attempts + IF call[p].pc = "receipt" THEN 1 ELSE 0
        BY <1>3 DEF Uses
    <2>6. Uses(f) = Attempts - (call[p].attempts - 1)
        BY <2>2, <2>3 DEF Uses
    <2>7. Uses(call[p]) + (IF call[p].pc = "receipt" THEN 0 ELSE 1) <= Uses(f)
        BY <2>2, <2>5, <2>6
    <2> QED BY <2>1, <2>3, <2>4, <2>7
<1>4. call[p].gasPrice \in Nat /\ BumpGasPrice(call[p].gasPrice) \in Nat
    BY <1>1 DEF Frame, BumpGasPrice
<1>5. \A f \in Frame : Uses(f) \in Int
    BY DEF Frame, Uses
<1>6. ASSUME NEW f \in Frame, NEW n \in {0, 1}, Moved(f, n),
             \/ UNCHANGED ledgerVars
             \/ n = 1 /\ Accept(TxOf(p)) /\ call[p].pc = "send",
             exited' = exited \/ exited' = TRUE
      PROVE  \E g \in Frame :
              /\ call' = [call EXCEPT ![p] = g] /\ Advanced(call[p], g)
              /\ \/ UNCHANGED ledgerVars /\ Uses(call[p]) <= Uses(g)
                 \/ Accept(TxOf(p)) /\ call[p].pc = "send" /\ Uses(call[p]) + 1 <= Uses(g)
              /\ exited' = exited \/ exited' = TRUE
    <2>1. Uses(f) \in Int /\ Uses(call[p]) \in Int
        BY <1>1, <1>5
    <2>2. n = 0 \/ n = 1
        OBVIOUS
    <2>3. Uses(call[p]) <= Uses(f)
        BY <1>6, <2>1, <2>2
    <2> QED BY <1>6, <2>3
<1> HIDE DEF Moved
<1>7. CASE GiveUp(p)
    <2>1. \E f \in Frame : Moved(f, 0)
        BY <1>2, <1>7 DEF GiveUp
    <2> QED BY <1>6, <1>7, <2>1 DEF GiveUp
<1>8. CASE Prepare(p)
    <2>1. CASE RetrySamePrice(p)
        <3>1. \E f \in Frame : Moved(f, 1)
            BY <1>3, <1>4, <1>8, <2>1 DEF Prepare, RetrySamePrice
        <3> QED BY <1>6, <1>8, <3>1 DEF Prepare
    <2>2. CASE \E n \in ResolvedNonces(p) :
                 call' = [call EXCEPT ![p] = [call[p] EXCEPT !.pc = "send", !.nonce = n]]
        <3>1. PICK n \in ResolvedNonces(p) :
                 call' = [call EXCEPT ![p] = [call[p] EXCEPT !.pc = "send", !.nonce = n]]
            BY <2>2
        <3>2. n \in Nat
            <4>1. call[p].from \in Senders /\ call[p].given \in Int
                BY <1>1 DEF Frame
            <4>2. CurrentNonces(call[p].from) \subseteq Nat
                BY <4>1 DEF CurrentNonces, LedgerTypeOK
            <4> QED BY <3>1, <4>1, <4>2 DEF ResolvedNonces
        <3> DEFINE f == [call[p] EXCEPT !.pc = "send", !.nonce = n]
        <3>3. f \in Frame
            BY <1>1, <3>2 DEF Frame
        <3>8. f.pc = "send" /\ f.from = call[p].from /\ f.attempts = call[p].attempts
              /\ call[p].attempts \in Int
            BY <1>1 DEF Frame
        <3>4. call' = [call EXCEPT ![p] = f]
            BY <3>1
        <3> HIDE DEF f
        <3>5. call[p].pc = "loop" /\ call[p].attempts > 0
            BY <1>8 DEF Prepare
        <3>6. Advanced(call[p], f) /\ Uses(call[p]) + 0 <= Uses(f)
            BY <3>3, <3>5, <3>8 DEF Advanced, Uses
        <3>7. Moved(f, 0)
            BY <3>4, <3>6 DEF Moved
        <3> QED BY <1>6, <1>8, <3>3, <3>7 DEF Prepare
    <2> QED BY <1>8, <2>1, <2>2 DEF Prepare
<1>9. CASE SendAccepted(p)
    <2>1. \E f \in Frame : Moved(f, 1)
        BY <1>2, <1>9 DEF SendAccepted
    <2> QED BY <1>6, <1>9, <2>1 DEF SendAccepted
<1>10. CASE SendAnswerLost(p)
    <2>1. \E f \in Frame : Moved(f, 1)
        BY <1>3, <1>4, <1>10 DEF SendAnswerLost, RetrySamePrice
    <2> QED BY <1>6, <1>10, <2>1 DEF SendAnswerLost
<1>11. CASE SendUnderpriced(p)
    <2>1. \E f \in Frame : Moved(f, 1)
        BY <1>3, <1>4, <1>11 DEF SendUnderpriced, RetryHigherPrice
    <2> QED BY <1>6, <1>11, <2>1 DEF SendUnderpriced
<1>12. CASE SendRefused(p)
    <2>1. \E f \in Frame : Moved(f, 1)
        BY <1>3, <1>4, <1>12 DEF SendRefused, RetrySamePrice
    <2> QED BY <1>6, <1>12, <2>1 DEF SendRefused
<1>13. CASE SendInsufficient(p)
    <2>1. \E f \in Frame : Moved(f, 0)
        BY <1>2, <1>13 DEF SendInsufficient
    <2> QED BY <1>6, <1>13, <2>1 DEF SendInsufficient
<1>14. CASE SendMissingAccount(p)
    <2>1. call' = [call EXCEPT ![p] = call[p]] /\ call[p].pc = "send" /\ call[p].attempts > 0
        BY <1>1, <1>14 DEF SendMissingAccount
    <2>2. Advanced(call[p], call[p]) /\ Uses(call[p]) + 0 <= Uses(call[p])
        BY <1>1, <1>5, <2>1 DEF Advanced
    <2>3. Moved(call[p], 0)
        BY <2>1, <2>2 DEF Moved
    <2> QED BY <1>1, <1>6, <1>14, <2>3 DEF SendMissingAccount
<1>15. CASE ReceiptSuccessful(p)
    <2>1. \E f \in Frame : Moved(f, 0)
        BY <1>2, <1>15 DEF ReceiptSuccessful
    <2> QED BY <1>6, <1>15, <2>1 DEF ReceiptSuccessful
<1>16. CASE ReceiptUnsuccessful(p)
    <2>1. \E f \in Frame : Moved(f, 0)
        BY <1>3, <1>4, <1>16 DEF ReceiptUnsuccessful, RetryHigherPrice
    <2> QED BY <1>6, <1>16, <2>1 DEF ReceiptUnsuccessful
<1> QED BY <1>7, <1>8, <1>9, <1>10, <1>11, <1>12, <1>13, <1>14, <1>15, <1>16
        DEF CallStep, Send, AwaitReceipt

\* What a step may add to the pool.
SweepsBounded ==
    \A t \in pool' \ pool :
        /\ IsSweep(t.to) => setup.pc \in {"sweep", "wait"}
        /\ config.test = "staking" => t.from[2] = 0

\* A step of a sweep or of a top-up: an attempt adds one transaction at most, paid
\* by the account whose key the call found.
LEMMA TransferInv ==
    ASSUME ProgramInv, NEW p \in Payments, SetupTransfer(p)
    PROVE  ProgramInv' /\ FundedKept /\ SweepsBounded
<1> DEFINE t == TxOf(p)
<1>0. /\ LedgerTypeOK /\ CallTypeOK /\ KeysTypeOK /\ SetupTypeOK /\ config \in Config
      /\ call[p] \in Frame /\ call \in [Payments -> Frame]
      /\ phase = "setup" /\ phase' = (IF exited' THEN "exited" ELSE phase) /\ CallStep(p)
      /\ UNCHANGED <<config, keysVars, setupVars>>
    BY DEF ProgramInv, ProgramTypes, CallTypeOK, SetupTransfer, SetupCall
<1>1. PICK f \in Frame :
         /\ call' = [call EXCEPT ![p] = f] /\ Advanced(call[p], f)
         /\ \/ UNCHANGED ledgerVars /\ Uses(call[p]) <= Uses(f)
            \/ Accept(TxOf(p)) /\ call[p].pc = "send" /\ Uses(call[p]) + 1 <= Uses(f)
         /\ exited' = exited \/ exited' = TRUE
  <2>1. call[p].pc \in {"send", "receipt"} => call[p].attempts > 0
      BY DEF ProgramInv, FramesKept
  <2> QED BY <1>0, <2>1, CallMoves
<1> USE DEF keysVars, setupVars
<1>2. /\ call[p].pc \in {"loop", "send", "receipt"} /\ f.from = call[p].from
      /\ f.pc \notin {"idle", "skipped"}
      /\ f.pc \in {"send", "receipt"} => f.attempts > 0
      /\ call'[p] = f /\ \A q \in Payments : q # p => call'[q] = call[q]
      /\ call' \in [Payments -> Frame]
    BY <1>0, <1>1 DEF Advanced
<1>3. t \in Transaction /\ t.to = p /\ t.from = call[p].from
    BY <1>0 DEF TxOf, Transaction, Frame
<1>4. \/ UNCHANGED ledgerVars
      \/ /\ call[p].pc = "send" /\ Uses(call[p]) + 1 <= Uses(f)
         /\ pool' \subseteq pool \cup {t} /\ UNCHANGED <<mined, chain>>
    BY <1>1 DEF Accept
<1> HIDE DEF t
<1>5. pool' \subseteq pool \cup {t} /\ UNCHANGED <<mined, chain>>
    BY <1>4 DEF ledgerVars
<1>6. phase' \in {"setup", "exited"} /\ exited' \in BOOLEAN
    BY <1>0, <1>1 DEF CallTypeOK
<1>7. ProgramTypes'
  <2>1. LedgerTypeOK'
      BY <1>0, <1>3, <1>5 DEF LedgerTypeOK
  <2>2. CallTypeOK'
      BY <1>2, <1>6 DEF CallTypeOK
  <2>3. KeysTypeOK' /\ SetupTypeOK'
      BY <1>0 DEF KeysTypeOK, SetupTypeOK
  <2> QED BY <2>1, <2>2, <2>3, <1>0, <1>6 DEF ProgramTypes, Phases
<1>8. AccsInPhase'
    BY <1>0, <1>6 DEF ProgramInv, AccsInPhase, Loading
<1>9. setup.pc # "account" /\ (IsSweep(p) => setup.pc \in {"sweep", "wait"})
      /\ p \notin setup.sweeps /\ \A s \in setup.left : TopUp(s) # p
  <2>1. call[p].pc \notin Returned \cup {"idle"}
      BY <1>2 DEF Returned, ReturnedNil
  <2> QED BY <2>1 DEF ProgramInv, SetupInPhase
<1>10. SetupInPhase'
  <2>1. \A s \in setup.left : TopUp(s) \in Payments
      BY <1>0, SetupAssumption, KeysAssumption, FS_CardinalityType DEF SetupTypeOK, TopUp, MaxAccounts
  <2>2. \A q \in setup.sweeps : call'[q].pc = "idle"
      BY <1>0, <1>2, <1>9 DEF SetupTypeOK, ProgramInv, SetupInPhase
  <2>3. \A s \in setup.left : call'[TopUp(s)].pc = "idle"
      BY <1>2, <1>9, <2>1 DEF ProgramInv, SetupInPhase
  <2>4. setup.pc \notin {"account", "sweep", "wait"} =>
            \A q \in Payments : IsSweep(q) => call'[q].pc \in Returned \cup {"idle"}
      BY <1>2, <1>9 DEF ProgramInv, SetupInPhase
  <2>5. /\ setup.pc \in {"account", "sweep", "wait"} => setup.left = Shards
        /\ setup.pc \in {"topup", "poll"} => setup.shard \notin setup.left
        /\ \A q \in setup.sweeps : IsSweep(q) /\ q[1] \in DOMAIN accs
      BY DEF ProgramInv, SetupInPhase
  <2> QED BY <2>2, <2>3, <2>4, <2>5, <1>0, <1>6, <1>9 DEF SetupInPhase, Loading
<1>11. call[p].from = Payer(p) /\ (IsSweep(p) => p[1] \in DOMAIN accs) /\ amount[p] >= 0
    BY <1>2 DEF ProgramInv, FramesKept
<1>12. FramesKept'
  <2> SUFFICES ASSUME NEW q \in Payments
               PROVE  /\ call'[q].pc \in {"idle", "skipped"} => call'[q].attempts = Attempts
                      /\ call'[q].pc \in {"send", "receipt"} => call'[q].attempts > 0
                      /\ call'[q].pc # "idle" =>
                            call'[q].from = Payer(q) /\ (IsSweep(q) => q[1] \in DOMAIN accs)
                      /\ call'[q].pc \notin {"idle", "skipped"} \/ ~IsSweep(q) => amount[q] >= 0
      BY <1>0 DEF FramesKept, Payer
  <2>1. CASE q = p
      BY <2>1, <1>2, <1>11
  <2>2. CASE q # p
      BY <2>2, <1>2 DEF ProgramInv, FramesKept
  <2> QED BY <2>1, <2>2
<1>13. SentByCalls'
  <2> SUFFICES ASSUME NEW u \in pool'
               PROVE  u.from = call'[u.to].from /\ call'[u.to].pc \notin {"idle", "skipped"}
      BY DEF SentByCalls
  <2>1. CASE u = t
      BY <2>1, <1>2, <1>3
  <2>2. CASE u \in pool
    <3>1. u.to \in Payments /\ u.from = call[u.to].from /\ call[u.to].pc \notin {"idle", "skipped"}
        BY <2>2, <1>0 DEF LedgerTypeOK, Transaction, ProgramInv, SentByCalls
    <3> QED BY <3>1, <1>2
  <2> QED BY <2>1, <2>2, <1>5
<1>14. InBeaconShard'
  <2>1. \A q \in Payments : call'[q].pc # "idle" => call[q].pc # "idle"
      BY <1>2
  <2> QED BY <2>1, <1>0, <1>6 DEF ProgramInv, InBeaconShard
<1>15. Counted'
  <2>1. IsFiniteSet(pool) /\ IsFiniteSet(chain) /\ \A q \in Payments :
            Cardinality(PaidBy(q)) + Cardinality(PendingFor(q)) <= Uses(call[q])
      BY DEF ProgramInv, Counted, AttemptsUsed, Uses
  <2>2. IsFiniteSet(pool') /\ IsFiniteSet(chain')
      BY <2>1, <1>5, OneMore
  <2> SUFFICES ASSUME NEW q \in Payments
               PROVE  Cardinality(PaidBy(q)') + Cardinality(PendingFor(q)') <= Uses(call'[q])
      BY <2>2 DEF Counted, AttemptsUsed, Uses
  <2>3. PaidBy(q)' = PaidBy(q)
      BY <1>5 DEF PaidBy
  <2>4. IsFiniteSet(PendingFor(q)) /\ Cardinality(PaidBy(q)) \in Nat /\ Cardinality(PendingFor(q)) \in Nat
    <3>1. PendingFor(q) \in SUBSET pool /\ PaidBy(q) \in SUBSET chain
        BY DEF PendingFor, PaidBy
    <3> QED BY <3>1, <2>1, Fewer
  <2>5. Uses(call[q]) \in Int /\ Uses(call'[q]) \in Int
      BY <1>0, <1>2, FundingTransactionAssumption DEF Uses, Frame
  <2>6. CASE UNCHANGED ledgerVars
    <3>1. PendingFor(q)' = PendingFor(q)
        BY <2>6 DEF PendingFor, ledgerVars
    <3>2. Uses(call[q]) <= Uses(call'[q])
      <4>1. CASE q # p
          BY <4>1, <1>2, <2>5
      <4>2. CASE q = p
          BY <4>2, <1>1, <1>2, <2>5
      <4> QED BY <4>1, <4>2
    <3> QED BY <3>1, <3>2, <2>1, <2>3, <2>4, <2>5
  <2>7. CASE q = p /\ Uses(call[p]) + 1 <= Uses(f)
    <3>1. PendingFor(q)' \in SUBSET (PendingFor(q) \cup {t})
        BY <1>5 DEF PendingFor
    <3>2. Cardinality(PendingFor(q)') <= Cardinality(PendingFor(q)) + 1
          /\ Cardinality(PendingFor(q)') \in Nat
        BY <3>1, <2>4, OneMore
    <3> QED BY <3>2, <2>7, <2>1, <2>3, <2>4, <2>5, <1>2
  <2>8. CASE q # p
    <3>1. PendingFor(q)' \in SUBSET PendingFor(q)
        BY <2>8, <1>3, <1>5 DEF PendingFor
    <3>2. Cardinality(PendingFor(q)') <= Cardinality(PendingFor(q))
          /\ Cardinality(PendingFor(q)') \in Nat
        BY <3>1, <2>4, Fewer
    <3>3. call'[q] = call[q]
        BY <2>8, <1>2
    <3> QED BY <3>2, <3>3, <2>1, <2>3, <2>4, <2>5
  <2> QED BY <2>6, <2>7, <2>8, <1>4
<1>16. CheckedAreFunded' /\ AllChecked'
    BY <1>0 DEF ProgramInv, CheckedAreFunded, AllChecked
<1>17. exited' => phase' = "exited" /\ Funder \notin keystore'
  <2> SUFFICES ASSUME exited' PROVE phase' = "exited" /\ Funder \notin keystore
      BY <1>0
  <2>1. ~exited /\ call[p].from[1] \notin keystore
      BY <1>0 DEF ProgramInv, FunderMissing, SetupTransfer, SetupCall
  <2>2. CASE IsSweep(p)
    <3>1. accs[p[1]] \in keystore
        BY <2>2, <1>11 DEF ProgramInv, AccsInPhase, ToSet
    <3>2. call[p].from[1] = accs[p[1]]
        BY <2>2, <1>11 DEF Payer
    <3> QED BY <2>1, <3>1, <3>2
  <2>3. CASE ~IsSweep(p)
    <3>1. call[p].from[1] = Funder
        BY <2>3, <1>11 DEF Payer
    <3> QED BY <3>1, <2>1, <1>0
  <2> QED BY <2>2, <2>3
<1>18. FunderMissing'
    BY <1>17 DEF FunderMissing
<1>19. FundedKept
    BY <1>0 DEF FundedKept, ProgramInv, AccsInPhase
<1>20. SweepsBounded
  <2> SUFFICES ASSUME config.test = "staking" PROVE call[p].from[2] = 0
      BY <1>3, <1>5, <1>9 DEF SweepsBounded
  <2>1. CASE IsSweep(p)
      BY <2>1, <1>2, <1>11 DEF Payer, ProgramInv, InBeaconShard
  <2>2. CASE ~IsSweep(p)
      BY <2>2, <1>11 DEF Payer
  <2> QED BY <2>1, <2>2
<1> QED
    BY <1>7, <1>8, <1>10, <1>12, <1>13, <1>14, <1>15, <1>16, <1>18, <1>19, <1>20 DEF ProgramInv

\* What the chain does while the funds are set up: the transactions of the pool
\* are mined or evicted, and the funding account pays from shard 0 alone.
LEMMA ChainInv ==
    ASSUME ProgramInv, Chain
    PROVE  ProgramInv' /\ FundedKept /\ pool' \subseteq pool
<1>0. /\ LedgerTypeOK /\ CallTypeOK /\ KeysTypeOK /\ SetupTypeOK /\ config \in Config
      /\ phase = "setup"
      /\ UNCHANGED <<phase, config, keystore, files, keyMapping, accs, setupVars, callVars>>
    BY DEF ProgramInv, ProgramTypes, Chain, SetupLedgerNext, SetupMine, keysVars
<1> USE DEF setupVars, callVars
<1>1. ASSUME pool' \subseteq pool, LedgerTypeOK', KeysTypeOK', Counted', CheckedAreFunded'
      PROVE  ProgramInv' /\ FundedKept /\ pool' \subseteq pool
  <2>1. ProgramTypes'
    <3>1. CallTypeOK' /\ SetupTypeOK'
        BY <1>0 DEF CallTypeOK, SetupTypeOK
    <3> QED BY <3>1, <1>0, <1>1 DEF ProgramTypes, Phases
  <2>2. AccsInPhase'
      BY <1>0 DEF ProgramInv, AccsInPhase, Loading
  <2>3. SetupInPhase'
    <3>1. setup.pc = "account" => chain' = {}
      <4> SUFFICES ASSUME setup.pc = "account" PROVE chain' = {}
          OBVIOUS
      <4>1. pool = {} /\ chain = {}
          BY DEF ProgramInv, SetupInPhase
      <4> QED BY <4>1 DEF Chain, SetupLedgerNext, SetupMine, Evict
    <3> QED BY <3>1, <1>0, <1>1 DEF ProgramInv, SetupInPhase, Loading
  <2>4. FramesKept' /\ SentByCalls'
      BY <1>0, <1>1 DEF ProgramInv, FramesKept, SentByCalls, Payer
  <2>5. InBeaconShard' /\ AllChecked' /\ FunderMissing'
      BY <1>0 DEF ProgramInv, InBeaconShard, AllChecked, FunderMissing
  <2>6. FundedKept
      BY <1>0 DEF FundedKept, ProgramInv, AccsInPhase
  <2> QED BY <2>1, <2>2, <2>3, <2>4, <2>5, <2>6, <1>1 DEF ProgramInv
<1>2. IsFiniteSet(pool) /\ IsFiniteSet(chain) /\ \A q \in Payments :
          /\ Cardinality(PaidBy(q)) + Cardinality(PendingFor(q)) <= AttemptsUsed(q)
          /\ IsFiniteSet(PaidBy(q)) /\ IsFiniteSet(PendingFor(q))
          /\ Cardinality(PaidBy(q)) \in Nat /\ Cardinality(PendingFor(q)) \in Nat
          /\ AttemptsUsed(q) \in Int
  <2>1. IsFiniteSet(pool) /\ IsFiniteSet(chain) /\ \A q \in Payments :
            Cardinality(PaidBy(q)) + Cardinality(PendingFor(q)) <= AttemptsUsed(q)
      BY DEF ProgramInv, Counted
  <2>2. ASSUME NEW q \in Payments
        PROVE  /\ IsFiniteSet(PaidBy(q)) /\ IsFiniteSet(PendingFor(q))
               /\ Cardinality(PaidBy(q)) \in Nat /\ Cardinality(PendingFor(q)) \in Nat
               /\ AttemptsUsed(q) \in Int
    <3>1. PendingFor(q) \in SUBSET pool /\ PaidBy(q) \in SUBSET chain
        BY DEF PendingFor, PaidBy
    <3>2. AttemptsUsed(q) \in Int
        BY <1>0, FundingTransactionAssumption DEF AttemptsUsed, Uses, CallTypeOK, Frame
    <3> QED BY <3>1, <3>2, <2>1, Fewer
  <2> QED BY <2>1, <2>2
<1>3. \A q \in Payments : AttemptsUsed(q)' = AttemptsUsed(q)
    BY <1>0 DEF AttemptsUsed, Uses
<1>4. CASE Evict /\ UNCHANGED keysVars
  <2>1. pool' \subseteq pool /\ UNCHANGED <<mined, chain>>
      BY <1>4 DEF Evict
  <2>2. LedgerTypeOK' /\ KeysTypeOK'
      BY <2>1, <1>0, <1>4 DEF LedgerTypeOK, KeysTypeOK, keysVars
  <2>3. CheckedAreFunded'
      BY <1>0, <1>4 DEF ProgramInv, CheckedAreFunded, keysVars
  <2>4. Counted'
    <3>1. IsFiniteSet(pool') /\ IsFiniteSet(chain')
        BY <2>1, <1>2, FS_Subset
    <3>2. ASSUME NEW q \in Payments
          PROVE  Cardinality(PaidBy(q)') + Cardinality(PendingFor(q)') <= AttemptsUsed(q)'
      <4>1. PaidBy(q)' = PaidBy(q) /\ PendingFor(q)' \in SUBSET PendingFor(q)
          BY <2>1 DEF PaidBy, PendingFor
      <4>2. Cardinality(PendingFor(q)') <= Cardinality(PendingFor(q))
            /\ Cardinality(PendingFor(q)') \in Nat
          BY <4>1, <1>2, Fewer
      <4> QED BY <4>1, <4>2, <1>2, <1>3
    <3> QED BY <3>1, <3>2 DEF Counted
  <2> QED BY <2>1, <2>2, <2>3, <2>4, <1>1
<1>5. ASSUME NEW t \in pool, NEW ok \in BOOLEAN, NEW moved,
             moved = (IF ok THEN amount[t.to] ELSE 0), MineTransaction(t, ok),
             holdings' = [a \in Accounts |-> [s \in Shards |->
                    holdings[a][s] + (IF <<a, s>> = Target(t.to) THEN moved ELSE 0)
                                   - (IF <<a, s>> = t.from THEN moved + GasCost ELSE 0)]]
      PROVE  ProgramInv' /\ FundedKept /\ pool' \subseteq pool
  <2>1. /\ t \in Transaction /\ t.to \in Payments /\ t.from \in Senders
        /\ t.from = call[t.to].from /\ call[t.to].pc \notin {"idle", "skipped"}
      BY <1>0 DEF LedgerTypeOK, Transaction, ProgramInv, SentByCalls
  <2>2. /\ pool' = pool \ {t} /\ chain' = chain \cup {[tx |-> t, ok |-> ok]}
        /\ mined' = [mined EXCEPT ![t.from] = @ + 1]
      BY <1>5 DEF MineTransaction
  <2>3. LedgerTypeOK'
      BY <2>1, <2>2, <1>0 DEF LedgerTypeOK, Receipt
  <2>4. amount[t.to] \in Int /\ amount[t.to] >= 0 /\ moved \in Int /\ moved >= 0
      BY <1>0, <1>5, <2>1 DEF ProgramInv, FramesKept, SetupTypeOK
  <2>5. KeysTypeOK'
    <3>1. \A a \in Accounts, s \in Shards : holdings[a][s] \in Int
        BY <1>0 DEF KeysTypeOK
    <3>2. holdings' \in [Accounts -> [Shards -> Int]]
        BY <3>1, <2>4, <1>5, SetupAssumption
    <3> QED BY <3>2, <1>0 DEF KeysTypeOK
\* The funding account's own transactions start in shard 0.
  <2>6. \A s \in Shards \ {0} : <<Funder, s>> # t.from
    <3>1. t.from = Payer(t.to) /\ (IsSweep(t.to) => t.to[1] \in DOMAIN accs)
        BY <2>1 DEF ProgramInv, FramesKept
    <3>2. \A i \in DOMAIN accs : accs[i] # Funder
        BY <1>0, KeysAssumption DEF KeysTypeOK
    <3> QED BY <3>1, <3>2 DEF Payer
  <2>7. \A s \in Shards \ {0} : holdings'[Funder][s] >= holdings[Funder][s]
        /\ holdings'[Funder][s] \in Int /\ holdings[Funder][s] \in Int
    <3> SUFFICES ASSUME NEW s \in Shards \ {0}
                 PROVE  holdings'[Funder][s] >= holdings[Funder][s]
                        /\ holdings'[Funder][s] \in Int /\ holdings[Funder][s] \in Int
        OBVIOUS
    <3>1. Funder \in Accounts /\ holdings[Funder][s] \in Int
        BY <1>0 DEF KeysTypeOK, Accounts
    <3>2. holdings'[Funder][s] = holdings[Funder][s]
              + (IF <<Funder, s>> = Target(t.to) THEN moved ELSE 0)
              - (IF <<Funder, s>> = t.from THEN moved + GasCost ELSE 0)
        BY <1>5, <3>1
    <3>3. holdings'[Funder][s] = holdings[Funder][s]
              + (IF <<Funder, s>> = Target(t.to) THEN moved ELSE 0)
        BY <3>1, <3>2, <2>4, <2>6
    <3> QED BY <3>1, <3>3, <2>4
  <2>8. CheckedAreFunded'
    <3>1. MinimumFunds \in Int
        BY KeysAssumption
    <3> QED BY <1>0, <2>7, <3>1 DEF ProgramInv, CheckedAreFunded
  <2>9. Counted'
    <3> DEFINE r == [tx |-> t, ok |-> ok]
    <3>1. chain' = chain \cup {r} /\ r.tx = t
        BY <2>2
    <3> HIDE DEF r
    <3>2. IsFiniteSet(pool') /\ IsFiniteSet(chain')
      <4>1. pool' \in SUBSET pool /\ chain' \in SUBSET (chain \cup {r})
          BY <2>2, <3>1
      <4> QED BY <4>1, <1>2, Fewer, OneMore
    <3>3. ASSUME NEW q \in Payments
          PROVE  Cardinality(PaidBy(q)') + Cardinality(PendingFor(q)') <= AttemptsUsed(q)'
      <4>1. CASE q = t.to
        <5>1. PaidBy(q)' \in SUBSET (PaidBy(q) \cup {r})
            BY <3>1 DEF PaidBy
        <5>2. Cardinality(PaidBy(q)') <= Cardinality(PaidBy(q)) + 1 /\ Cardinality(PaidBy(q)') \in Nat
            BY <5>1, <1>2, OneMore
        <5>3. PendingFor(q)' = PendingFor(q) \ {t} /\ t \in PendingFor(q)
            BY <4>1, <2>2 DEF PendingFor
        <5>4. Cardinality(PendingFor(q)') = Cardinality(PendingFor(q)) - 1
            BY <5>3, <1>2, FS_RemoveElement
        <5> QED BY <5>2, <5>4, <1>2, <1>3
      <4>2. CASE q # t.to
        <5>1. PaidBy(q)' \in SUBSET PaidBy(q) /\ PendingFor(q)' \in SUBSET PendingFor(q)
            BY <4>2, <3>1, <2>2 DEF PaidBy, PendingFor
        <5>2. /\ Cardinality(PaidBy(q)') <= Cardinality(PaidBy(q)) /\ Cardinality(PaidBy(q)') \in Nat
              /\ Cardinality(PendingFor(q)') <= Cardinality(PendingFor(q))
              /\ Cardinality(PendingFor(q)') \in Nat
            BY <5>1, <1>2, Fewer
        <5> QED BY <5>2, <1>2, <1>3
      <4> QED BY <4>1, <4>2
    <3> QED BY <3>2, <3>3 DEF Counted
  <2> QED BY <2>2, <2>3, <2>5, <2>8, <2>9, <1>1
<1>6. CASE SetupMine
  <2>1. PICK t \in pool, ok \in BOOLEAN :
          LET moved == IF ok THEN amount[t.to] ELSE 0
          IN  /\ MineTransaction(t, ok)
              /\ holdings' = [a \in Accounts |-> [s \in Shards |->
                    holdings[a][s] + (IF <<a, s>> = Target(t.to) THEN moved ELSE 0)
                                   - (IF <<a, s>> = t.from THEN moved + GasCost ELSE 0)]]
      BY <1>6 DEF SetupMine
  <2> QED BY <2>1, <1>5
<1> QED BY <1>4, <1>6 DEF Chain, SetupLedgerNext

\* A step of SetupFundingAccount that starts no transfer.
LEMMA SetupMove ==
    ASSUME ProgramInv, phase = "setup",
           UNCHANGED <<phase, config, holdings, files, keyMapping, accs, amount, callVars, ledgerVars>>,
           keystore \subseteq keystore', keystore' \subseteq keystore \cup {Funder},
           keystore' = keystore \/ setup.pc = "account",
           SetupTypeOK', SetupInPhase',
           config.test = "staking" => \A p \in setup'.sweeps : p[2] = 0,
           CheckedAreFunded', AllChecked'
    PROVE  ProgramInv' /\ FundedKept
<1> USE DEF ProgramInv, callVars, ledgerVars
<1>1. ProgramTypes'
  <2>1. LedgerTypeOK' /\ CallTypeOK'
      BY DEF ProgramTypes, LedgerTypeOK, CallTypeOK
  <2>2. KeysTypeOK'
      BY DEF ProgramTypes, KeysTypeOK, Accounts
  <2> QED BY <2>1, <2>2 DEF ProgramTypes
<1>2. AccsInPhase'
    BY DEF AccsInPhase, Loading
<1>3. FramesKept' /\ SentByCalls'
    BY DEF FramesKept, SentByCalls, Payer
<1>4. InBeaconShard'
    BY DEF InBeaconShard
<1>5. Counted'
    BY DEF Counted, PaidBy, PendingFor, AttemptsUsed, Uses
<1>6. FunderMissing'
    BY DEF FunderMissing
<1>7. FundedKept
    BY DEF FundedKept, AccsInPhase
<1> QED BY <1>1, <1>2, <1>3, <1>4, <1>5, <1>6, <1>7

\* A step that starts the transfer of payment p.
LEMMA SetupEnter ==
    ASSUME ProgramInv, phase = "setup", NEW p \in Payments, NEW positive, NEW value \in Int,
           UNCHANGED <<phase, config, keysVars, ledgerVars, exited>>,
           setup.pc # "account", call[p].pc = "idle", IsSweep(p) => p[1] \in DOMAIN accs,
           Enter(p, Payer(p), -1, positive), amount' = [amount EXCEPT ![p] = value],
           positive \/ ~IsSweep(p) => value >= 0,
           config.test = "staking" /\ IsSweep(p) => p[2] = 0,
           setup' \in [pc : SetupPC, sweeps : SUBSET setup.sweeps, left : SUBSET Shards,
                       shard : Shards, polls : 0 .. Polls],
           SetupInPhase', CheckedAreFunded', AllChecked'
    PROVE  ProgramInv' /\ FundedKept
<1> USE DEF ProgramInv, keysVars, ledgerVars
<1> DEFINE f == [pc |-> IF positive THEN "loop" ELSE "skipped", from |-> Payer(p), given |-> -1,
                 nonce |-> 0, attempts |-> Attempts, gasPrice |-> GasPrice]
<1>1. call' = [call EXCEPT ![p] = f]
    BY DEF Enter
<1>2. /\ call \in [Payments -> Frame] /\ accs \in Seq(Addresses)
      /\ setup.sweeps \subseteq Payments /\ amount \in [Payments -> Int]
    BY DEF ProgramTypes, CallTypeOK, KeysTypeOK, SetupTypeOK
<1>3. Payer(p) \in Senders
  <2>1. p[2] \in Shards /\ 0 \in Shards
      BY SetupAssumption, KeysAssumption DEF Shards
  <2>2. CASE IsSweep(p)
      BY <2>1, <2>2, <1>2, SetupAssumption DEF Payer, Accounts
  <2>3. CASE ~IsSweep(p)
      BY <2>1, <2>3, SetupAssumption DEF Payer, Accounts
  <2> QED BY <2>2, <2>3
<1>4. f \in Frame
  <2>1. (IF positive THEN "loop" ELSE "skipped") \in CallPC
      BY DEF CallPC, Returned, ReturnedNil
  <2>2. Attempts \in 0 .. Attempts /\ GasPrice \in Nat /\ -1 \in Int /\ 0 \in Nat
      BY FundingTransactionAssumption
  <2> QED BY <2>1, <2>2, <1>3 DEF Frame
<1>5. /\ f.pc = (IF positive THEN "loop" ELSE "skipped") /\ f.attempts = Attempts
      /\ f.from = Payer(p)
    OBVIOUS
<1> HIDE DEF f
<1>6. /\ call' \in [Payments -> Frame] /\ call'[p] = f
      /\ \A q \in Payments : q # p => call'[q] = call[q]
      /\ amount' \in [Payments -> Int] /\ amount'[p] = value
      /\ \A q \in Payments : q # p => amount'[q] = amount[q]
    BY <1>1, <1>2, <1>4
<1>7. ProgramTypes'
  <2>1. LedgerTypeOK' /\ KeysTypeOK'
      BY DEF ProgramTypes, LedgerTypeOK, KeysTypeOK
  <2>2. CallTypeOK'
      BY <1>6 DEF ProgramTypes, CallTypeOK
  <2>3. SetupTypeOK'
      BY <1>2, <1>6 DEF SetupTypeOK
  <2> QED BY <2>1, <2>2, <2>3 DEF ProgramTypes
<1>8. AccsInPhase'
    BY DEF AccsInPhase, Loading
<1>9. FramesKept'
  <2> SUFFICES ASSUME NEW q \in Payments
               PROVE  /\ call'[q].pc \in {"idle", "skipped"} => call'[q].attempts = Attempts
                      /\ call'[q].pc \in {"send", "receipt"} => call'[q].attempts > 0
                      /\ call'[q].pc # "idle" =>
                            call'[q].from = Payer(q) /\ (IsSweep(q) => q[1] \in DOMAIN accs)
                      /\ call'[q].pc \notin {"idle", "skipped"} \/ ~IsSweep(q) => amount'[q] >= 0
      BY DEF FramesKept, Payer
  <2>1. CASE q = p
      BY <2>1, <1>5, <1>6
  <2>2. CASE q # p
      BY <2>2, <1>6 DEF FramesKept
  <2> QED BY <2>1, <2>2
<1>10. SentByCalls'
  <2>1. \A t \in pool : t.to \in Payments /\ t.to # p
      BY DEF ProgramTypes, LedgerTypeOK, Transaction, SentByCalls
  <2> QED BY <2>1, <1>6 DEF SentByCalls
<1>11. InBeaconShard'
    BY <1>6 DEF InBeaconShard
<1>12. Counted'
  <2>1. \A q \in Payments : AttemptsUsed(q)' = AttemptsUsed(q)
    <3> SUFFICES ASSUME NEW q \in Payments PROVE AttemptsUsed(q)' = AttemptsUsed(q)
        OBVIOUS
    <3>1. CASE q = p
      <4>1. call[p].attempts = Attempts
          BY DEF FramesKept
      <4> QED BY <3>1, <4>1, <1>5, <1>6 DEF AttemptsUsed, Uses
    <3>2. CASE q # p
        BY <3>2, <1>6 DEF AttemptsUsed, Uses
    <3> QED BY <3>1, <3>2
  <2> QED BY <2>1 DEF Counted, PaidBy, PendingFor
<1>13. FunderMissing' /\ FundedKept
    BY DEF FunderMissing, FundedKept, AccsInPhase
<1> QED BY <1>7, <1>8, <1>9, <1>10, <1>11, <1>12, <1>13

\* Every step of SetupFundingAccount.
LEMMA SetupInv == ASSUME ProgramInv, Setup PROVE ProgramInv' /\ FundedKept /\ pool' = pool
<1>0. /\ LedgerTypeOK /\ CallTypeOK /\ KeysTypeOK /\ SetupTypeOK /\ config \in Config
      /\ phase = "setup" /\ UNCHANGED <<phase, config>>
      /\ SetupStep(config.test, config.shards)
      /\ setup.pc \notin {"done", "failed"}
    BY DEF ProgramInv, ProgramTypes, Setup
<1>a. /\ setup \in [pc : SetupPC, sweeps : SUBSET Payments, left : SUBSET Shards,
                    shard : Shards, polls : 0 .. Polls]
      /\ accs \in Seq(Addresses) /\ Len(accs) <= MaxAccounts
    BY <1>0 DEF SetupTypeOK, KeysTypeOK, ProgramInv, AccsInPhase
<1>b. /\ setup.pc \in {"account", "sweep", "wait"} => setup.left = Shards
      /\ \A p \in setup.sweeps : call[p].pc = "idle" /\ IsSweep(p) /\ p[1] \in DOMAIN accs
      /\ setup.pc \in {"topup", "poll"} => setup.shard \notin setup.left
      /\ \A s \in setup.left : call[TopUp(s)].pc = "idle"
      /\ setup.pc \notin {"account", "sweep", "wait"} =>
            \A p \in Payments : IsSweep(p) => call[p].pc \in Returned \cup {"idle"}
      /\ setup.pc = "account" => setup.sweeps = {}
    BY DEF ProgramInv, SetupInPhase
<1>c. config.test = "staking" => config.shards = 0 /\ \A p \in setup.sweeps : p[2] = 0
    BY <1>0 DEF ProgramInv, InBeaconShard
<1>d. Polls \in Nat /\ GasCost \in Nat /\ MinimumFunds \in Nat /\ MaxAccounts \in Nat
      /\ \A s \in Shards : TopUp(s) \in Payments
    BY SetupAssumption, KeysAssumption, FS_CardinalityType DEF MaxAccounts, TopUp
<1>e. /\ config.test = "all" /\ setup.pc \in {"shards", "topup", "poll", "done"} =>
            \A s \in Shards \ {0} :
               \/ s \in setup.left
               \/ setup.pc \in {"topup", "poll"} /\ s = setup.shard
               \/ holdings[Funder][s] >= MinimumFunds
      /\ Funder \in Accounts /\ \A s \in Shards : holdings[Funder][s] \in Int
    BY <1>0 DEF ProgramInv, CheckedAreFunded, KeysTypeOK, Accounts
\* A step to another pc, at most.
<1>1. ASSUME NEW pc \in SetupPC \ {"account", "sweep", "wait"}, NEW polls \in 0 .. Polls,
             UNCHANGED <<keysVars, amount, callVars, ledgerVars>>,
             setup' = [setup EXCEPT !.pc = pc, !.polls = polls],
             setup.pc \notin {"sweep", "wait"}, setup.pc = "account" => pc = "failed",
             pc \in {"topup", "poll"} => setup.pc \in {"topup", "poll"},
             pc = "done" => setup.left = {},
             setup.pc \in {"topup", "poll"} /\ pc \in {"shards", "done"} =>
                 holdings[Funder][setup.shard] >= MinimumFunds
      PROVE  ProgramInv' /\ FundedKept /\ pool' = pool
  <2>1. /\ setup' \in [pc : SetupPC, sweeps : SUBSET Payments, left : SUBSET Shards,
                       shard : Shards, polls : 0 .. Polls]
        /\ setup'.pc = pc /\ setup'.left = setup.left /\ setup'.sweeps = setup.sweeps
        /\ setup'.shard = setup.shard
      BY <1>1, <1>a
  <2>2. SetupTypeOK'
      BY <2>1, <1>0, <1>1 DEF SetupTypeOK
  <2>3. SetupInPhase'
    <3>1. \A p \in Payments : IsSweep(p) => call[p].pc \in Returned \cup {"idle"}
        BY <1>1, <1>b DEF ProgramInv, SetupInPhase
    <3>2. pc \notin {"account", "sweep", "wait"} /\ UNCHANGED <<call, accs, pool, chain>>
        BY <1>1 DEF callVars, keysVars, ledgerVars
    <3>3. pc \in {"topup", "poll"} => setup.shard \notin setup.left
        BY <1>1, <1>b
    <3> QED BY <2>1, <3>1, <3>2, <3>3, <1>0, <1>b DEF SetupInPhase, Loading
  <2>4. CheckedAreFunded'
    <3> SUFFICES ASSUME config.test = "all", pc \in {"shards", "topup", "poll", "done"},
                        NEW s \in Shards \ {0}
                 PROVE  \/ s \in setup.left
                        \/ pc \in {"topup", "poll"} /\ s = setup.shard
                        \/ holdings[Funder][s] >= MinimumFunds
        BY <2>1, <1>0, <1>1 DEF CheckedAreFunded, keysVars
    <3>1. setup.pc \in {"shards", "topup", "poll", "done"}
        BY <1>0, <1>1, <1>a DEF SetupPC
    <3>2. \/ s \in setup.left
          \/ setup.pc \in {"topup", "poll"} /\ s = setup.shard
          \/ holdings[Funder][s] >= MinimumFunds
        BY <3>1, <1>e
    <3>3. pc \in {"shards", "done"} \/ pc \in {"topup", "poll"}
        OBVIOUS
    <3> QED BY <3>2, <3>3, <1>1
  <2>5. AllChecked'
      BY <2>1, <1>1 DEF AllChecked
  <2>6. UNCHANGED <<holdings, keystore, files, keyMapping, accs, amount, callVars, ledgerVars>>
      BY <1>1 DEF keysVars
  <2>7. ProgramInv' /\ FundedKept
      BY <2>1, <2>2, <2>3, <2>4, <2>5, <2>6, <1>0, <1>c, SetupMove
  <2> QED BY <2>6, <2>7 DEF ledgerVars
<1>2. ASSUME setup' = [setup EXCEPT !.pc = "failed"], setup.pc \notin {"sweep", "wait"},
             UNCHANGED <<keysVars, amount, callVars, ledgerVars>>
      PROVE  ProgramInv' /\ FundedKept /\ pool' = pool
  <2>1. setup' = [setup EXCEPT !.pc = "failed", !.polls = setup.polls] /\ setup.polls \in 0 .. Polls
      BY <1>2, <1>a
  <2>2. "failed" \in SetupPC \ {"account", "sweep", "wait"}
      BY DEF SetupPC
  <2>3. "failed" \notin {"topup", "poll", "shards", "done"}
      OBVIOUS
  <2> QED BY <1>1, <1>2, <2>1, <2>2, <2>3
<1>3. CASE GenerateFundingAccountFails \/ CheckShardFails
    BY <1>2, <1>3 DEF GenerateFundingAccountFails, CheckShardFails
<1>4. CASE AllShardsChecked
  <2>1. setup' = [setup EXCEPT !.pc = "done", !.polls = setup.polls] /\ setup.polls \in 0 .. Polls
      BY <1>4, <1>a DEF AllShardsChecked
  <2> QED BY <1>1, <1>4, <2>1 DEF AllShardsChecked, SetupPC
<1>5. CASE TopUpReturned
  <2>1. CASE setup' = [setup EXCEPT !.pc = "failed"]
    BY <1>2, <1>5, <2>1 DEF TopUpReturned
  <2>2. CASE setup' = [setup EXCEPT !.pc = "poll", !.polls = Polls]
    <3>1. Polls \in 0 .. Polls
        BY <1>d
    <3> QED BY <1>1, <1>5, <2>2, <3>1 DEF TopUpReturned, SetupPC
  <2> QED BY <1>5, <2>1, <2>2 DEF TopUpReturned
<1>6. ASSUME NEW s \in Shards, NEW balance \in ReadBalances(s)
      PROVE  balance \in Int /\ holdings[Funder][s] >= balance
  <2>1. TopUp(s) \in Payments /\ ~IsSweep(TopUp(s)) /\ amount[TopUp(s)] \in Int
      BY <1>0, <1>d DEF TopUp, IsSweep, SetupTypeOK
  <2>2. amount[TopUp(s)] >= 0
      BY <2>1 DEF ProgramInv, FramesKept
  <2>3. Cardinality(PaidBy(TopUp(s))) \in Nat
    <3>1. PaidBy(TopUp(s)) \in SUBSET chain
        BY DEF PaidBy
    <3> QED BY <3>1, Fewer DEF ProgramInv, Counted
  <2> DEFINE n == Cardinality(PaidBy(TopUp(s)))
             v == amount[TopUp(s)]
  <2>4. balance \in {holdings[Funder][s] - v * n, holdings[Funder][s]}
      BY <1>6 DEF ReadBalances
  <2>5. v \in Nat /\ n \in Nat
      BY <2>1, <2>2, <2>3
  <2> HIDE DEF v, n
  <2>6. v * n \in Nat
      BY <2>5
  <2> QED BY <2>4, <2>6, <1>e
<1>7. CASE PollBalance
  <2>0. setup.pc = "poll" /\ UNCHANGED <<keysVars, amount, callVars, ledgerVars>>
        /\ setup.polls \in 0 .. Polls
      BY <1>7, <1>a DEF PollBalance
  <2>1. CASE /\ \E balance \in ReadBalances(setup.shard) : ~(balance <= 0) /\ balance >= FundingAmount
             /\ setup' = [setup EXCEPT !.pc = "shards"]
    <3>1. PICK balance \in ReadBalances(setup.shard) : balance >= FundingAmount
        BY <2>1
    <3>2. setup.shard \in Shards
        BY <1>a
    <3>3. holdings[Funder][setup.shard] >= MinimumFunds
        BY <3>1, <3>2, <1>6, <1>d, <1>e DEF FundingAmount
    <3>4. setup' = [setup EXCEPT !.pc = "shards", !.polls = setup.polls]
        BY <2>1, <1>a
    <3>5. "shards" \in SetupPC \ {"account", "sweep", "wait"}
        BY DEF SetupPC
    <3> QED BY <1>1, <2>0, <3>3, <3>4, <3>5
  <2>2. CASE setup' = [setup EXCEPT !.pc = "failed"]
    BY <1>2, <2>0, <2>2
  <2>3. CASE setup.polls > 1 /\ setup' = [setup EXCEPT !.polls = @ - 1]
    <3>1. setup.polls - 1 \in 0 .. Polls
        BY <2>3, <1>a, <1>d
    <3>2. setup' = [setup EXCEPT !.pc = "poll", !.polls = setup.polls - 1]
        BY <2>0, <2>3, <1>a
    <3> QED BY <1>1, <2>0, <3>1, <3>2 DEF SetupPC
  <2>4. setup.polls <= 1 \/ setup.polls > 1
      BY <2>0, <1>d
  <2> QED BY <1>7, <2>1, <2>2, <2>3, <2>4 DEF PollBalance
\* The sweeps: which there are, and that they have come to an end.
<1>8. CASE FindFundingAccount(config.shards)
  <2>1. setup.pc = "account" /\ UNCHANGED <<holdings, files, keyMapping, accs, amount, callVars, ledgerVars>>
        /\ keystore' \in {keystore, keystore \cup {Funder}}
        /\ setup' = [setup EXCEPT !.pc = "sweep", !.sweeps = SweepsOf(config.shards)]
      BY <1>8 DEF FindFundingAccount
  <2>2. \A p \in SweepsOf(config.shards) :
           /\ p \in Payments /\ IsSweep(p) /\ p[1] \in DOMAIN accs
           /\ config.test = "staking" => p[2] = 0
    <3> SUFFICES ASSUME NEW i \in DOMAIN accs, NEW s \in SweepShards(config.shards)
                 PROVE  /\ Sweep(i, s) \in Payments /\ IsSweep(Sweep(i, s))
                        /\ Sweep(i, s)[1] \in DOMAIN accs
                        /\ config.test = "staking" => Sweep(i, s)[2] = 0
        BY DEF SweepsOf
    <3>1. i \in 1 .. Len(accs) /\ i \in 0 .. MaxAccounts
        BY <1>a, <1>d
    <3>2. s \in Shards /\ (config.test = "staking" => s = 0)
        BY <1>c DEF SweepShards, AllShards
    <3> QED BY <3>1, <3>2, SetupAssumption DEF Sweep, IsSweep
  <2> DEFINE sweeps == SweepsOf(config.shards)
  <2>3. sweeps \in SUBSET Payments
      BY <2>2
  <2> HIDE DEF sweeps
  <2>4. /\ setup' \in [pc : SetupPC, sweeps : SUBSET Payments, left : SUBSET Shards,
                       shard : Shards, polls : 0 .. Polls]
        /\ setup'.pc = "sweep" /\ setup'.left = setup.left /\ setup'.sweeps = sweeps
    <3>1. setup' = [setup EXCEPT !.pc = "sweep", !.sweeps = sweeps]
        BY <2>1 DEF sweeps
    <3> QED BY <3>1, <2>3, <1>a DEF SetupPC
  <2>5. SetupTypeOK'
      BY <2>1, <2>4, <1>0 DEF SetupTypeOK
  <2>6. \A p \in Payments : call[p].pc = "idle"
      BY <2>1 DEF ProgramInv, SetupInPhase
  <2>7. SetupInPhase'
      BY <2>1, <2>2, <2>3, <2>4, <2>6, <1>0, <1>b, <1>d DEF SetupInPhase, Loading, callVars, sweeps
  <2>8. CheckedAreFunded' /\ AllChecked'
      BY <2>4 DEF CheckedAreFunded, AllChecked
  <2>9. config.test = "staking" => \A p \in setup'.sweeps : p[2] = 0
      BY <2>2, <2>4 DEF sweeps
  <2>10. ProgramInv' /\ FundedKept
      BY <2>1, <2>5, <2>7, <2>8, <2>9, <1>0, SetupMove
  <2> QED BY <2>1, <2>10 DEF ledgerVars
<1>9. CASE SweepsStarted \/ SweepsAwaited
  <2>1. PICK to \in {"wait", "shards"} :
           /\ setup' = [setup EXCEPT !.pc = to] /\ setup.pc \in {"sweep", "wait"}
           /\ UNCHANGED <<keysVars, amount, callVars, ledgerVars>>
           /\ to = "shards" => \A p \in Payments : call[p].pc \in Returned \cup {"idle"}
      BY <1>9 DEF SweepsStarted, SweepsAwaited
  <2>2. /\ setup' \in [pc : SetupPC, sweeps : SUBSET Payments, left : SUBSET Shards,
                       shard : Shards, polls : 0 .. Polls]
        /\ setup'.pc = to /\ setup'.left = Shards /\ setup'.sweeps = setup.sweeps
      BY <2>1, <1>a, <1>b DEF SetupPC
  <2>3. SetupTypeOK'
      BY <2>1, <2>2, <1>0 DEF SetupTypeOK
  <2>4. SetupInPhase'
      BY <2>1, <2>2, <1>0, <1>b DEF SetupInPhase, Loading, callVars, keysVars
  <2>5. CheckedAreFunded' /\ AllChecked'
      BY <2>1, <2>2 DEF CheckedAreFunded, AllChecked
  <2>6. UNCHANGED <<holdings, keystore, files, keyMapping, accs, amount, callVars, ledgerVars>>
      BY <2>1 DEF keysVars
  <2>7. ProgramInv' /\ FundedKept
      BY <2>2, <2>3, <2>4, <2>5, <2>6, <1>0, <1>c, SetupMove
  <2> QED BY <2>6, <2>7 DEF ledgerVars
<1>10. CASE SweepNext
  <2>1. PICK p \in setup.sweeps :
          LET from == <<accs[p[1]], ShardOf(p)>>
              available == holdings[from[1]][from[2]]
          IN  /\ setup' = [setup EXCEPT !.sweeps = @ \ {p}]
              /\ \/ /\ available \notin {0, GasCost}
                    /\ amount' = [amount EXCEPT ![p] = available - GasCost]
                    /\ Enter(p, from, -1, available > GasCost)
                    /\ UNCHANGED exited
                 \/ UNCHANGED <<amount, callVars>>
      BY <1>10 DEF SweepNext
  <2>2. setup.pc = "sweep" /\ UNCHANGED <<keysVars, ledgerVars>>
      BY <1>10 DEF SweepNext
  <2>3. /\ p \in Payments /\ IsSweep(p) /\ p[1] \in DOMAIN accs /\ call[p].pc = "idle"
        /\ p[2] \in Shards
      BY <1>a, <1>b, SetupAssumption
  <2> DEFINE sweeps == setup.sweeps \ {p}
  <2>4. /\ setup' \in [pc : SetupPC, sweeps : SUBSET setup.sweeps, left : SUBSET Shards,
                       shard : Shards, polls : 0 .. Polls]
        /\ setup'.pc = "sweep" /\ setup'.left = setup.left /\ setup'.sweeps = sweeps
    <3>1. setup' = [setup EXCEPT !.sweeps = sweeps] /\ sweeps \in SUBSET setup.sweeps
        BY <2>1
    <3> HIDE DEF sweeps
    <3> QED BY <3>1, <2>2, <1>a
  <2>5. CheckedAreFunded' /\ AllChecked'
      BY <2>4 DEF CheckedAreFunded, AllChecked
  <2>6. ASSUME \A q \in Payments : q # p => call'[q] = call[q] PROVE SetupInPhase'
    <3>1. \A s \in setup.left : TopUp(s) \in Payments /\ TopUp(s) # p
      <4>1. \A s \in Shards : ~IsSweep(TopUp(s))
          BY DEF TopUp, IsSweep
      <4> QED BY <4>1, <1>a, <1>d, <2>3
    <3>2. \A q \in setup.sweeps : q \in Payments
        BY <1>a
    <3> QED BY <3>1, <3>2, <2>2, <2>4, <2>6, <1>0, <1>b DEF SetupInPhase, Loading, keysVars
  <2>7. CASE UNCHANGED <<amount, callVars>>
    <3>1. SetupInPhase'
        BY <2>6, <2>7 DEF callVars
    <3>2. SetupTypeOK'
        BY <2>4, <2>7, <1>0, <1>a DEF SetupTypeOK
    <3>3. UNCHANGED <<holdings, keystore, files, keyMapping, accs, amount, callVars, ledgerVars>>
        BY <2>2, <2>7 DEF keysVars
    <3>4. config.test = "staking" => \A q \in setup'.sweeps : q[2] = 0
        BY <2>4, <1>c
    <3>5. ProgramInv' /\ FundedKept
        BY <3>1, <3>2, <3>3, <3>4, <2>5, <1>0, SetupMove
    <3> QED BY <3>3, <3>5 DEF ledgerVars
  <2>8. ASSUME NEW available, available = holdings[accs[p[1]]][p[2]],
               amount' = [amount EXCEPT ![p] = available - GasCost],
               Enter(p, <<accs[p[1]], p[2]>>, -1, available > GasCost), UNCHANGED exited
        PROVE  ProgramInv' /\ FundedKept /\ pool' = pool
    <3>1. available \in Int
        BY <2>3, <2>8, <1>0 DEF KeysTypeOK, Accounts
    <3>2. Payer(p) = <<accs[p[1]], p[2]>>
        BY <2>3 DEF Payer
    <3> DEFINE value == available - GasCost
               positive == available > GasCost
    <3>3. value \in Int /\ (positive => value >= 0)
        BY <3>1, <1>d
    <3>4. Enter(p, Payer(p), -1, positive) /\ amount' = [amount EXCEPT ![p] = value]
        BY <2>8, <3>2
    <3> HIDE DEF value, positive
    <3>5. \A q \in Payments : q # p => call'[q] = call[q]
        BY <3>4, <1>0 DEF Enter, CallTypeOK
    <3>6. SetupInPhase'
        BY <2>6, <3>5
    <3>7. UNCHANGED <<phase, config, keysVars, ledgerVars, exited>> /\ setup.pc # "account"
        BY <1>0, <2>2, <2>8
    <3>8. (config.test = "staking" /\ IsSweep(p) => p[2] = 0) /\ (positive \/ ~IsSweep(p) => value >= 0)
        BY <1>c, <2>3, <3>3
    <3>9. ProgramInv' /\ FundedKept
        BY <1>0, <2>3, <2>4, <2>5, <3>3, <3>4, <3>6, <3>7, <3>8, SetupEnter
    <3> QED BY <3>9, <2>2 DEF ledgerVars
  <2>9. <<accs[p[1]], ShardOf(p)>>[1] = accs[p[1]] /\ <<accs[p[1]], ShardOf(p)>>[2] = p[2]
      BY DEF ShardOf
  <2>10. \/ \E available :
                /\ available = holdings[accs[p[1]]][p[2]]
                /\ amount' = [amount EXCEPT ![p] = available - GasCost]
                /\ Enter(p, <<accs[p[1]], p[2]>>, -1, available > GasCost)
                /\ UNCHANGED exited
         \/ UNCHANGED <<amount, callVars>>
      BY <2>1, <2>9 DEF ShardOf
  <2> QED BY <2>10, <2>7, <2>8
<1>11. CASE CheckShard(config.test)
  <2>0. PICK s \in setup.left : \E balance \in ReadBalances(s) :
          LET short == s # 0 /\ config.test = "all" /\ InsufficientBalance(balance)
          IN  /\ setup' = [setup EXCEPT !.left = @ \ {s},
                                        !.pc = IF s = 0 /\ balance <= 0 THEN "failed"
                                               ELSE IF short THEN "topup" ELSE "shards",
                                        !.shard = IF short THEN s ELSE @]
              /\ IF short
                 THEN /\ amount' = [amount EXCEPT ![TopUp(s)] = FundingAmount]
                      /\ Enter(TopUp(s), <<Funder, 0>>, -1, FundingAmount > 0)
                      /\ UNCHANGED exited
                 ELSE UNCHANGED <<amount, callVars>>
      BY <1>11 DEF CheckShard
  <2>1. PICK balance \in ReadBalances(s) :
          LET short == s # 0 /\ config.test = "all" /\ InsufficientBalance(balance)
          IN  /\ setup' = [setup EXCEPT !.left = @ \ {s},
                                        !.pc = IF s = 0 /\ balance <= 0 THEN "failed"
                                               ELSE IF short THEN "topup" ELSE "shards",
                                        !.shard = IF short THEN s ELSE @]
              /\ IF short
                 THEN /\ amount' = [amount EXCEPT ![TopUp(s)] = FundingAmount]
                      /\ Enter(TopUp(s), <<Funder, 0>>, -1, FundingAmount > 0)
                      /\ UNCHANGED exited
                 ELSE UNCHANGED <<amount, callVars>>
      BY <2>0
  <2>2. setup.pc = "shards" /\ UNCHANGED <<keysVars, ledgerVars>>
      BY <1>11 DEF CheckShard
  <2> DEFINE short == s # 0 /\ config.test = "all" /\ InsufficientBalance(balance)
             p == TopUp(s)
             left == setup.left \ {s}
  <2>3. /\ s \in Shards /\ p \in Payments /\ ~IsSweep(p) /\ call[p].pc = "idle"
        /\ left \in SUBSET Shards /\ s \notin left
        /\ \A r \in left : TopUp(r) \in Payments /\ TopUp(r) # p
      BY <1>a, <1>b, <1>d DEF TopUp, IsSweep
  <2>4. balance \in Int /\ holdings[Funder][s] >= balance
      BY <1>6, <2>3
  <2>5. \A r \in Shards \ {0} : config.test = "all" =>
           r \in setup.left \/ holdings[Funder][r] >= MinimumFunds
      BY <1>e, <2>2
  <2>6. \A q \in Payments : IsSweep(q) => call[q].pc \in Returned \cup {"idle"}
      BY <1>b, <2>2
  <2> HIDE DEF left, p
  <2>7. CASE ~short
    <3> DEFINE pc == IF s = 0 /\ balance <= 0 THEN "failed" ELSE "shards"
    <3>1. setup' = [setup EXCEPT !.left = left, !.pc = pc, !.shard = setup.shard]
          /\ UNCHANGED <<amount, callVars>>
        BY <2>1, <2>7, <1>a DEF left
    <3>2. pc \in {"failed", "shards"}
        OBVIOUS
    <3> HIDE DEF pc
    <3>3. /\ setup' \in [pc : SetupPC, sweeps : SUBSET Payments, left : SUBSET Shards,
                         shard : Shards, polls : 0 .. Polls]
          /\ setup'.pc = pc /\ setup'.left = left /\ setup'.sweeps = setup.sweeps
        BY <3>1, <3>2, <2>3, <1>a DEF SetupPC
    <3>4. UNCHANGED <<holdings, keystore, files, keyMapping, accs, amount, callVars, ledgerVars>>
        BY <3>1, <2>2 DEF keysVars
    <3>5. SetupTypeOK'
        BY <3>3, <3>4, <1>0 DEF SetupTypeOK
    <3>6. SetupInPhase'
        BY <3>2, <3>3, <3>4, <2>6, <1>0, <1>b DEF SetupInPhase, Loading, callVars, left
    <3>7. config.test = "all" /\ s # 0 => holdings[Funder][s] >= MinimumFunds
        BY <2>3, <2>4, <2>7, <1>d, <1>e DEF InsufficientBalance
    <3>8. CheckedAreFunded'
        BY <3>2, <3>3, <3>4, <3>7, <2>5, <1>0 DEF CheckedAreFunded, left
    <3>9. AllChecked'
        BY <3>2, <3>3 DEF AllChecked
    <3>10. config.test = "staking" => \A q \in setup'.sweeps : q[2] = 0
        BY <3>3, <1>c
    <3>11. ProgramInv' /\ FundedKept
        BY <3>4, <3>5, <3>6, <3>8, <3>9, <3>10, <1>0, SetupMove
    <3> QED BY <3>4, <3>11 DEF ledgerVars
  <2>8. CASE short
    <3>1. /\ setup' = [setup EXCEPT !.left = left, !.pc = "topup", !.shard = s]
          /\ amount' = [amount EXCEPT ![p] = FundingAmount]
          /\ Enter(p, <<Funder, 0>>, -1, FundingAmount > 0) /\ UNCHANGED exited
        BY <2>1, <2>8 DEF left, p
    <3>2. /\ setup' \in [pc : SetupPC, sweeps : SUBSET setup.sweeps, left : SUBSET Shards,
                         shard : Shards, polls : 0 .. Polls]
          /\ setup'.pc = "topup" /\ setup'.left = left /\ setup'.sweeps = setup.sweeps
          /\ setup'.shard = s
        BY <3>1, <2>3, <1>a DEF SetupPC
    <3> DEFINE positive == FundingAmount > 0
    <3>3. FundingAmount \in Int /\ FundingAmount >= 0
        BY <1>d DEF FundingAmount
    <3>4. Enter(p, Payer(p), -1, positive)
        BY <3>1, <2>3 DEF Payer
    <3> HIDE DEF positive
    <3>5. \A q \in Payments : q # p => call'[q] = call[q]
        BY <3>4, <1>0 DEF Enter, CallTypeOK
    <3>6. SetupInPhase'
      <4>1. \A q \in setup.sweeps : q \in Payments /\ q # p /\ call'[q].pc = "idle"
          BY <3>5, <2>3, <1>a, <1>b
      <4>2. \A r \in left : call'[TopUp(r)].pc = "idle"
          BY <3>5, <2>3, <1>b DEF left
      <4>3. \A q \in Payments : IsSweep(q) => call'[q].pc \in Returned \cup {"idle"}
          BY <3>5, <2>3, <2>6
      <4> QED BY <4>1, <4>2, <4>3, <3>2, <2>2, <2>3, <1>0, <1>b DEF SetupInPhase, Loading, keysVars
    <3>7. CheckedAreFunded' /\ AllChecked'
        BY <3>2, <2>2, <2>5, <1>0 DEF CheckedAreFunded, AllChecked, left, keysVars
    <3>8. UNCHANGED <<phase, config, keysVars, ledgerVars, exited>> /\ setup.pc # "account"
        BY <1>0, <2>2, <3>1
    <3>9. ProgramInv' /\ FundedKept
        BY <1>0, <2>3, <3>1, <3>2, <3>3, <3>4, <3>6, <3>7, <3>8, SetupEnter
    <3> QED BY <3>9, <2>2 DEF ledgerVars
  <2> QED BY <2>7, <2>8
<1> QED
    BY <1>0, <1>3, <1>4, <1>5, <1>7, <1>8, <1>9, <1>10, <1>11 DEF SetupStep

\* Initially nothing was loaded and nothing was sent.
LEMMA ProgramInit == Init => ProgramInv
<1> SUFFICES ASSUME Init PROVE ProgramInv
    OBVIOUS
<1>1. /\ phase = "configure" /\ config \in Config /\ holdings \in [Accounts -> [Shards -> Nat]]
      /\ files \in SUBSET DOMAIN FileAddress
  <2>1. PICK start \in Starts :
           config = start.config /\ holdings = start.holdings /\ files = start.files
      BY DEF Init
  <2>2. start \in Start
      BY AppAssumption
  <2> QED BY <2>1, <2>2 DEF Init, Start
<1>2. keystore = {} /\ keyMapping = NoMapping /\ accs = <<>>
    BY DEF Init
<1>3. LedgerTypeOK /\ pool = {} /\ chain = {}
    BY DEF Init, LedgerInit, LedgerTypeOK
<1>4. CallTypeOK /\ exited = FALSE
      /\ \A p \in Payments : call[p].pc = "idle" /\ call[p].attempts = Attempts
  <2> DEFINE anySender == CHOOSE s \in Senders : TRUE
             frame == [pc |-> "idle", from |-> anySender, given |-> -1, nonce |-> 0,
                       attempts |-> Attempts, gasPrice |-> GasPrice]
  <2>1. anySender \in Senders
      BY LedgerAssumption
  <2>2. call = [p \in Payments |-> frame] /\ exited = FALSE
      BY DEF Init, CallInit
  <2> HIDE DEF anySender
  <2>3. frame \in Frame
      BY <2>1, FundingTransactionAssumption DEF Frame, CallPC
  <2>4. frame.pc = "idle" /\ frame.attempts = Attempts
      OBVIOUS
  <2> HIDE DEF frame
  <2> QED BY <2>2, <2>3, <2>4 DEF CallTypeOK
<1>5. SetupTypeOK /\ setup.pc = "account" /\ setup.sweeps = {} /\ setup.left = Shards
      /\ \A p \in Payments : amount[p] = 0
  <2>1. 0 \in Shards /\ Polls \in 0 .. Polls
      BY KeysAssumption, SetupAssumption DEF Shards
  <2> QED BY <2>1 DEF Init, SetupInit, SetupTypeOK, SetupPC
<1>6. KeysTypeOK
  <2>1. holdings \in [Accounts -> [Shards -> Int]]
      BY <1>1
  <2> QED BY <2>1, <1>1, <1>2 DEF KeysTypeOK, NoMapping
<1>7. ProgramTypes
    BY <1>1, <1>3, <1>4, <1>5, <1>6 DEF ProgramTypes, Phases
<1>8. AccsInPhase
  <2>1. MaxAccounts \in Nat
      BY KeysAssumption, FS_CardinalityType DEF MaxAccounts
  <2> QED BY <1>1, <1>2, <2>1 DEF AccsInPhase, ToSet
<1>9. SetupInPhase
  <2>1. \A s \in Shards : TopUp(s) \in Payments
      BY SetupAssumption, KeysAssumption, FS_CardinalityType DEF TopUp, MaxAccounts
  <2> QED BY <1>3, <1>4, <1>5, <2>1 DEF SetupInPhase
<1>10. FramesKept /\ SentByCalls
    BY <1>3, <1>4, <1>5 DEF FramesKept, SentByCalls
<1>11. InBeaconShard
    BY <1>1, <1>4, <1>5 DEF InBeaconShard
<1>12. Counted
  <2>1. \A p \in Payments : PaidBy(p) = {} /\ PendingFor(p) = {} /\ AttemptsUsed(p) = 0
      BY <1>3, <1>4, FundingTransactionAssumption DEF PaidBy, PendingFor, AttemptsUsed, Uses
  <2> QED BY <2>1, <1>3, FS_EmptySet DEF Counted
<1>13. CheckedAreFunded /\ AllChecked /\ FunderMissing
    BY <1>4, <1>5 DEF CheckedAreFunded, AllChecked, FunderMissing
<1> QED
    BY <1>7, <1>8, <1>9, <1>10, <1>11, <1>12, <1>13 DEF ProgramInv

\* Every step of the program, and what it may do to keys, files and the pool.
LEMMA ProgramNext ==
    ASSUME ProgramInv, [Next]_vars
    PROVE  ProgramInv' /\ FundedKept /\ SweepsBounded
<1>1. CASE \/ Configure \/ Identify \/ Load \/ SetupOver \/ Execute \/ ExitWhileExecuting
           \/ Results \/ Export \/ UNCHANGED vars
  <2>1. pool' = pool
      BY <1>1 DEF Configure, Identify, Load, SetupOver, Execute, ExitWhileExecuting, Results, Export,
                  vars, startVars, ledgerVars
  <2> QED BY <1>1, <2>1, MainInv DEF SweepsBounded
<1>2. CASE LoadKeys
  <2>1. pool' = pool
      BY <1>2 DEF LoadKeys, ledgerVars
  <2> QED BY <1>2, <2>1, LoadKeysInv DEF SweepsBounded
<1>3. CASE Setup
    BY <1>3, SetupInv DEF SweepsBounded
<1>4. ASSUME NEW p \in Payments, SetupTransfer(p)
      PROVE  ProgramInv' /\ FundedKept /\ SweepsBounded
    BY <1>4, TransferInv
<1>5. CASE Chain
    BY <1>5, ChainInv DEF SweepsBounded
<1> QED
    BY <1>1, <1>2, <1>3, <1>4, <1>5 DEF Next, AppStep, Stopped

\* ProgramInv is an invariant of the program.
LEMMA ProgramInvariant == Spec => []ProgramInv
<1>1. ProgramInv /\ [Next]_vars => ProgramInv'
    BY ProgramNext
<1> QED BY <1>1, ProgramInit, PTL DEF Spec

\* Whatever the arguments, the holdings, the key files and the test cases, every
\* variable of the program has its type.
THEOREM TypeCorrect == Spec => []TypeOK
<1>1. ProgramInv /\ SuiteInv => TypeOK
    BY DEF ProgramInv, ProgramTypes, SuiteInv, TypeOK
<1> QED BY <1>1, ProgramInvariant, SuiteInvariant, PTL

\* LoadKeys and remove_empty lose no account that holds more than the minimum,
\* for any key files, any private keys and any holdings.
THEOREM KeepsFundedKeys == Spec => FundedKeysKept
<1>1. ProgramInv /\ [Next]_vars =>
          [/\ ToSet(accs') \subseteq keystore'
           /\ \A f \in files \ files' : ~HasFunds(FileAddress[f])]_vars
    BY ProgramNext DEF FundedKept
<1> QED BY <1>1, ProgramInvariant, PTL DEF Spec, FundedKeysKept

\* No sweep is sent after the wait group has let SetupFundingAccount go on, and
\* nothing leaves another shard than the beacon shard in a staking run.
THEOREM SweepsAreBounded == Spec => SweepsStayInBounds
<1>1. ProgramInv /\ [Next]_vars =>
          [\A t \in pool' \ pool :
              /\ IsSweep(t.to) => setup.pc \in {"sweep", "wait"}
              /\ config.test = "staking" => t.from[2] = 0]_vars
    BY ProgramNext DEF SweepsBounded
<1> QED BY <1>1, ProgramInvariant, PTL DEF Spec, SweepsStayInBounds

\* A successful setup leaves the minimum in every shard but the beacon shard,
\* for any number of shards and accounts.
THEOREM SetupLeavesTheMinimum == Spec => []SetupMeansFunded
<1>1. ProgramInv => SetupMeansFunded
    BY DEF ProgramInv, SetupMeansFunded, CheckedAreFunded, AllChecked
<1> QED BY <1>1, ProgramInvariant, PTL

\* A sweep or a top-up is paid at most once for each attempt it used up, however
\* the chain delays, drops and orders its transactions.
THEOREM PaysPerAttempt == Spec => []PaidAtMostAttempts
<1>1. ProgramInv => PaidAtMostAttempts
  <2> SUFFICES ASSUME ProgramInv, NEW p \in Payments
               PROVE  Cardinality(PaidBy(p)) <= AttemptsUsed(p)
      BY DEF PaidAtMostAttempts, AttemptsUsed, Uses
  <2>1. IsFiniteSet(chain) /\ IsFiniteSet(pool)
        /\ Cardinality(PaidBy(p)) + Cardinality(PendingFor(p)) <= AttemptsUsed(p)
      BY DEF ProgramInv, Counted
  <2>2. PaidBy(p) \in SUBSET chain /\ PendingFor(p) \in SUBSET pool
      BY DEF PaidBy, PendingFor
  <2>3. Cardinality(PaidBy(p)) \in Nat /\ Cardinality(PendingFor(p)) \in Nat
      BY <2>1, <2>2, Fewer
  <2>4. AttemptsUsed(p) \in Int
      BY FundingTransactionAssumption DEF ProgramInv, ProgramTypes, CallTypeOK, Frame, AttemptsUsed, Uses
  <2> QED BY <2>1, <2>3, <2>4
<1> QED BY <1>1, ProgramInvariant, PTL

\* The process ends during the setup only because the funding account has no key.
THEOREM EndsForTheFunderAlone == Spec => []ExitsForTheFunderAlone
<1>1. ProgramInv => ExitsForTheFunderAlone
    BY DEF ProgramInv, FunderMissing, ExitsForTheFunderAlone
<1> QED BY <1>1, ProgramInvariant, PTL
====
