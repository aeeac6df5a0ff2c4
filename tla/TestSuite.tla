---- MODULE TestSuite ----
(***************************************************************************)
(* testcases/app.go and load.go: the test case files are found, ordered    *)
(* and parsed, the test cases are executed one after the other and sorted  *)
(* into Results, Dismissed and Failed, results counts them, and ExportCSV  *)
(* of export/csv.go writes them out.  A scenario is one step here: it sets *)
(* Executed and Result, or never returns.                                  *)
(***************************************************************************)
EXTENDS Orders, Sequences, SequencesExt

CONSTANTS
    Files,      \* the test case files below the root path
    Dirs,       \* the directories, in the order filepath.Walk meets them
    DirOf,      \* DirOf[f]: the directory of file f
    Root,       \* Root[f]: the directory directly below testcases that f is in
    Within,     \* Within[d]: the directories whose path contains that of d
    Number,     \* Number[f]: the number that is the name of f, or -1
    Rank,       \* Rank[f]: the place of the name of f in lexical order
    Content     \* Content[f]: what f says: [valid, execute, expected]

ASSUME TestSuiteAssumption ==
    /\ IsFiniteSet(Files) /\ IsInjective(Dirs)
    /\ \A f \in Files : DirOf[f] \in ToSet(Dirs) /\ Number[f] \in Nat \cup {-1} /\ Rank[f] \in Nat
    /\ \A d \in ToSet(Dirs) : d \in Within[d]
    /\ Content \in [Files -> [valid : BOOLEAN, execute : BOOLEAN, expected : BOOLEAN]]

VARIABLES
    sections,   \* the directories still to be loaded, by their place in Dirs
    testCases,  \* TestCases: [file, dir, execute, executed, expected, result]
    next,       \* the test cases already gone through by execute
    lists,      \* Results, Dismissed and Failed, as positions in testCases
    report      \* what results returned, and what the export lists

suiteVars == <<sections, testCases, next, lists, report>>

TestCase == [file : Files, dir : ToSet(Dirs), execute : BOOLEAN, executed : BOOLEAN,
             expected : BOOLEAN, result : BOOLEAN]
Successful(t) == t.result = t.expected

\* A row of the export, below its headers: in which list, and which test case.
Row == [kind : {"executed", "dismissed", "failed"}, case : Nat]

NoReport == [counted |-> FALSE, successful |-> 0, failed |-> 0, rows |-> <<>>]

SuiteTypeOK ==
    /\ sections \subseteq DOMAIN Dirs /\ next \in 0 .. Len(testCases)
    /\ testCases \in Seq(TestCase)
    /\ lists \in [results : Seq(Nat), dismissed : Seq(Nat), failed : Seq(Nat)]
    /\ report \in [counted : BOOLEAN, successful : Nat, failed : Nat, rows : Seq(Row)]

SuiteInit ==
    /\ sections = {} /\ next = 0
    /\ testCases = <<>>
    /\ lists = [results |-> <<>>, dismissed |-> <<>>, failed |-> <<>>]
    /\ report = NoReport

\* The files identifyTestCaseFiles finds for framework.test: all of them, those
\* below one directory, or a single file.
FilesFor(test) == {f \in Files : test \in {"all", Root[f], f}}

\* The sections: the directories of the files, in the order they are met.
IdentifySections(test) ==
    /\ sections' = {d \in DOMAIN Dirs : \E f \in FilesFor(test) : DirOf[f] = Dirs[d]}
    /\ UNCHANGED <<testCases, next, lists, report>>

\* Fault: file names are always compared as strings.
LexicallyLess(f, g) == Rank[f] < Rank[g]

\* ByNumericalFilename.
Less(f, g) ==
    IF Number[f] >= 0 /\ Number[g] >= 0 THEN Number[f] < Number[g] ELSE Rank[f] < Rank[g]

\* The orders sort.Sort may leave a section in: no file is less than the one
\* before it.  With names of both kinds Less is not transitive, and such an
\* order may still have a larger number before a smaller one.
Sorted(found) ==
    {order \in SetToSeqs(found) :
        \A i \in 1 .. Len(order) - 1 : ~Less(order[i + 1], order[i])}

\* A section holds the files whose path contains the path of its directory: a
\* file in a nested directory is in the sections of both, and loaded in both.
SectionFiles(dir) == {f \in Files : DirOf[f] \in Within[dir]}

Loaded(f, dir) ==
    [file |-> f, dir |-> dir, execute |-> Content[f].execute, executed |-> FALSE,
     expected |-> Content[f].expected, result |-> FALSE]

\* The next section; a file that is not valid YAML is reported and left out.
LoadSection(test) ==
    /\ \E d \in sections :
          /\ \A e \in sections : d <= e
          /\ sections' = sections \ {d}
          /\ \E order \in Sorted(FilesFor(test) \cap SectionFiles(Dirs[d])) :
                \E valid \in InOrder({i \in DOMAIN order : Content[order[i]].valid}) :
                   testCases' = testCases \o
                       [i \in DOMAIN valid |-> Loaded(order[valid[i]], Dirs[d])]
    /\ UNCHANGED <<next, lists, report>>

\* The test case is skipped; its scenario is unknown or dismisses it; or it is
\* executed, with a result - errors included, they set the result to false.
ExecuteNext ==
    /\ next < Len(testCases)
    /\ next' = next + 1
    /\ LET t == testCases[next']
       IN  IF ~t.execute THEN UNCHANGED <<testCases, lists>>
           ELSE \/ \E result \in BOOLEAN :
                      LET done == [t EXCEPT !.executed = TRUE, !.result = result]
                      IN  /\ testCases' = [testCases EXCEPT ![next'] = done]
                          /\ lists' = [lists EXCEPT
                                !.results = Append(@, next'),
                                !.failed = IF Successful(done) THEN @ ELSE Append(@, next')]
                \/ lists' = [lists EXCEPT !.dismissed = Append(@, next')]
                   /\ UNCHANGED testCases
    /\ UNCHANGED <<sections, report>>

\* Fault: the dismissed test cases are counted as failed.
CountWithDismissed ==
    /\ next = Len(testCases)
    /\ report' = [report EXCEPT
                    !.counted = TRUE,
                    !.successful = Len(lists.results) - Len(lists.failed),
                    !.failed = Len(lists.failed) + Len(lists.dismissed)]
    /\ UNCHANGED <<sections, testCases, next, lists>>

\* results counts anew, from the results of all executed test cases.
CountResults ==
    /\ next = Len(testCases)
    /\ LET Count(successful) == Cardinality({i \in DOMAIN lists.results :
                                    Successful(testCases[lists.results[i]]) = successful})
       IN  report' = [report EXCEPT !.counted = TRUE, !.successful = Count(TRUE),
                                    !.failed = Count(FALSE)]
    /\ UNCHANGED <<sections, testCases, next, lists>>

\* The rows of the three lists, in this order: executed, dismissed, failed.
Rows(kind, list) == [i \in DOMAIN list |-> [kind |-> kind, case |-> list[i]]]
ExportRows ==
    Rows("executed", lists.results) \o Rows("dismissed", lists.dismissed)
        \o Rows("failed", lists.failed)

\* ExportCSV; a file that cannot be written is reported and nothing more.
ExportCSV ==
    /\ report' \in {report, [report EXCEPT !.rows = ExportRows]}
    /\ UNCHANGED <<sections, testCases, next, lists>>
----
\* What the summary and the export show adds up: each test case that was to be
\* executed is in exactly one of Results and Dismissed, in the order of the
\* suite; Failed is the part of Results that did not come out as expected; and
\* the exported file, whose rows come from the three lists, agrees with the
\* counts, which results takes anew from Results.
EveryTestCaseAccounted ==
    LET done == {i \in 1 .. next : testCases[i].execute}
    IN  /\ ToSet(lists.results) \cup ToSet(lists.dismissed) = done
        /\ ToSet(lists.results) \cap ToSet(lists.dismissed) = {}
        /\ Increasing(lists.results) /\ Increasing(lists.dismissed) /\ Increasing(lists.failed)
        /\ ToSet(lists.failed) = {i \in ToSet(lists.results) : ~Successful(testCases[i])}
        /\ report.counted => report.successful + report.failed = Len(lists.results)
        /\ report.rows # <<>> => Cardinality({row \in ToSet(report.rows) : row.kind = "failed"})
                                 = report.failed

\* load.go:84: within a section, files whose names are numbers are executed in
\* the order of the numbers, 2 before 10, whatever the sections are called - as
\* long as no other kind of name is among them, which breaks the order.
SectionsInNumericalOrder ==
    \A i, j \in DOMAIN testCases :
        /\ i < j /\ testCases[i].dir = testCases[j].dir
        /\ \A f \in SectionFiles(testCases[i].dir) : Number[f] >= 0
        => Number[testCases[i].file] <= Number[testCases[j].file]
====
