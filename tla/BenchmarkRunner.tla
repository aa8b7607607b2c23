--------------------------- MODULE BenchmarkRunner ---------------------------
(***************************************************************************)
(* scripts/benchmark_runner.py, run from the repository root one run after *)
(* another: go test -bench runs, its output is parsed, a results folder    *)
(* benchmarks/<time>_<hash>_run is made and filled, benchmark_plot.py is   *)
(* run on the saved output if scripts/benchmark_plot.py exists and the     *)
(* PNG and TXT files it leaves in benchmark_plots/ are moved into the      *)
(* folder's plots/, and a README is written. Any run may be interrupted    *)
(* (Ctrl-C) between two steps; between runs, benchmark_plot.py may be run *)
(* by hand on a saved output (its default output directory is              *)
(* benchmark_plots/, the one the runner empties). At any time,            *)
(* benchmark_comparison_multi.py may compare two or more results folders;  *)
(* it only reads them, so it is the operator CompareMultipleRuns.          *)
(*                                                                         *)
(* Every run that reaches create_results_folder has spent at least         *)
(* -benchtime=5s in go test, so no two of them take the same second: a     *)
(* folder is named by its run's number. The git information only names    *)
(* things and is left out.                                                 *)
(***************************************************************************)
EXTENDS Naturals, Sequences, SequencesExt

CONSTANTS
    Outputs,        \* what a successful go test prints: sets of benchmark lines
    PlotTypeOrder,  \* the benchmark types benchmark_plot.py draws, in its order
    MaxRuns         \* how many times the runner is started

\* A benchmark line is [type |-> t, case |-> c, shape |-> s, mem |-> m]: its
\* benchmark type and test case, and whether its B/op figure is 0 (m = 0). The shape says whether the
\* regular expression of parse_benchmark_output accepts it: "plain" lines
\* (BenchmarkT/Case-16  N  T ns/op  M B/op) do; a test case name with '-' in
\* it, a benchmark without a sub-benchmark, a line without the -N suffix
\* (GOMAXPROCS=1) or with a custom metric between ns/op and B/op do not.
Matches(l) == l.shape = "plain"

\* parse_benchmark_output (identical in benchmark_plot.py): the lines the
\* regular expression accepts; the others are dropped without a word.
ParseBenchmarkOutput(o) == {l \in o : Matches(l)}

TypesOf(data) == {l.type : l \in data}

\* The key "<type>/<test_case>" of compare_multiple_runs.
Keys(data) == {<<l.type, l.case>> : l \in data}

\* The files create_performance_plots writes, in order: one PNG per type it
\* draws that has data, then performance_dashboard.png and README.txt.
PlotOrder(o) ==
    SelectSeq(PlotTypeOrder, LAMBDA t : t \in TypesOf(ParseBenchmarkOutput(o)))
    \o <<"dashboard", "readme">>

PlotNames == Range(PlotTypeOrder) \cup {"dashboard", "readme"}

\* No benchmark_output.txt: an output with no lines is never saved, since
\* parsing it finds no data.
NoOutput == {}
Runs == 1..MaxRuns

VARIABLES
    bpc,        \* "idle", "bench", "folder", "output", "results", "dump", "gitinfo",
                \* "plots", "move", "readme"
    runs,       \* runs started so far; the current run's number
    noPlots,    \* args.no_plots of the current run
    out,        \* raw_output of the current run
    plotScript, \* scripts/benchmark_plot.py exists (it is scripts/benchmark/
                \* benchmark_plot.py in this repository): fixed for a behaviour
    staging,    \* benchmark_plots/: [PlotNames -> run whose output it shows, 0 = none]
    folders,    \* [Runs -> the results folder of that run]
    plotted,    \* runs whose benchmark_plot.py subprocess ran to its end (history)
    completed   \* runs that printed "Benchmark run completed!"

vars == <<bpc, runs, noPlots, out, plotScript, staging, folders, plotted, completed>>

NoPlots == [n \in PlotNames |-> 0]

NoFolder ==
    [exists |-> FALSE, output |-> NoOutput, results |-> "none", gitinfo |-> FALSE,
     plotsDir |-> FALSE, plots |-> NoPlots, readme |-> FALSE]

\* What benchmark_plot.py leaves in benchmark_plots/ after writing the first
\* k files of its run on output o, read from run r's folder.
DrawPlots(st, o, r, k) ==
    LET written == Range(SubSeq(PlotOrder(o), 1, k))
    IN  [n \in PlotNames |-> IF n \in written THEN r ELSE st[n]]

Folder == folders[runs]

\* The run arguments of benchmark_comparison_multi.py: two or more distinct
\* run folders in any order (fewer names end the script before it reads
\* anything). A comparison reads only results.json, so the properties about
\* comparisons are checked once the last run is over and while no plot has
\* been drawn: every state of the results files is also one of such a
\* state, since a run may be interrupted at any step, one that fails in go
\* test leaves no folder, and --no-plots and the plot steps leave the
\* results files as they are.
RunArgs == UNION {SetToSeqs(rs) : rs \in {rs \in SUBSET Runs : Cardinality(rs) >= 2}}

AllRunsOver ==
    /\ bpc = "idle" /\ runs = MaxRuns
    /\ staging = NoPlots /\ \A r \in Runs : folders[r].plots = NoPlots

\* The benchmarks of run r's results.json.
ResultsData(r) == ParseBenchmarkOutput(folders[r].output)

\* The keys of each output's parsed benchmarks, computed once.
KeysOfOutput == [o \in Outputs \cup {NoOutput} |-> Keys(ParseBenchmarkOutput(o))]

ResultsKeys(r) == KeysOfOutput[folders[r].output]

\* next(b for b in run_data['benchmarks'] if key matches): its B/op is 0.
ZeroMemory(r, k) == \E l \in ResultsData(r) : <<l.type, l.case>> = k /\ l.mem = 0

\* The runs of benchmark_data for key k: the loaded runs that have it, in
\* argument order, sorted by name in calculate_trends; for
\* <time>_<hash>_run folders that is the order of the runs.
\* A set of run numbers in increasing order.
RECURSIVE Ascending(_)
Ascending(S) == IF S = {} THEN << >> ELSE <<Min(S)>> \o Ascending(S \ {Min(S)})

TrendRuns(loaded, k) ==
    Ascending(Range(SelectSeq(loaded, LAMBDA r : k \in ResultsKeys(r))))

\* compare_multiple_runs then calculate_trends on the run names given, in
\* the order given. load_results warns about a folder without results.json
\* and skips it; json.load raises on a results.json cut short. The common
\* keys are folded in argument order: an empty set is taken for "nothing
\* seen yet" and replaced by the next run's keys. A benchmark is compared
\* when at least two loaded runs have it; the memory change divides by
\* the first run's B/op. A trend is <<key, first run, last run>>.
CompareMultipleRuns(names) ==
    LET loaded  == SelectSeq(names, LAMBDA r : folders[r].results = "complete")
        common  == FoldLeft(LAMBDA acc, r :
                              IF acc = {} THEN ResultsKeys(r)
                              ELSE acc \cap ResultsKeys(r), {}, loaded)
        runsOf     == [k \in common |-> TrendRuns(loaded, k)]
        compared   == {k \in common : Len(runsOf[k]) >= 2}
        Ended(st)  == [status |-> st, trends |-> {}]
    IN  CASE \E r \in Range(names) : folders[r].results = "partial" -> Ended("crashed")
          [] Len(loaded) < 2 \/ compared = {}                        -> Ended("error")
          [] \E k \in compared : ZeroMemory(Head(runsOf[k]), k) -> Ended("crashed")
          [] OTHER -> [status |-> "done",
                       trends |-> {<<k, Head(runsOf[k]), Last(runsOf[k])>> :
                                     k \in compared}]

-----------------------------------------------------------------------------

BenchInit ==
    /\ bpc = "idle" /\ runs = 0 /\ noPlots = FALSE /\ out = NoOutput
    /\ plotScript \in BOOLEAN /\ staging = NoPlots
    /\ folders = [r \in Runs |-> NoFolder] /\ plotted = {} /\ completed = {}

\* main(): the arguments are parsed, get_git_info is called and
\* run_benchmarks starts go test.
Start ==
    /\ bpc = "idle" /\ runs < MaxRuns
    /\ runs' = runs + 1 /\ noPlots' \in BOOLEAN /\ bpc' = "bench"
    /\ UNCHANGED <<out, plotScript, staging, folders, plotted, completed>>

\* go test exits non-zero: "Benchmark run failed", sys.exit(1).
BenchmarksFail ==
    /\ bpc = "bench" /\ bpc' = "idle"
    /\ UNCHANGED <<runs, noPlots, out, plotScript, staging, folders, plotted, completed>>

\* go test succeeds but no line is parsed: "No benchmark data found!", exit 1.
NoBenchmarkData ==
    /\ bpc = "bench"
    /\ \E o \in Outputs : ParseBenchmarkOutput(o) = {}
    /\ bpc' = "idle"
    /\ UNCHANGED <<runs, noPlots, out, plotScript, staging, folders, plotted, completed>>

\* go test succeeds and parse_benchmark_output finds data.
BenchmarksParsed ==
    /\ bpc = "bench"
    /\ \E o \in Outputs : ParseBenchmarkOutput(o) /= {} /\ out' = o
    /\ bpc' = "folder"
    /\ UNCHANGED <<runs, noPlots, plotScript, staging, folders, plotted, completed>>

\* create_results_folder: mkdir(parents=True, exist_ok=True).
CreateResultsFolder ==
    /\ bpc = "folder"
    /\ folders' = [folders EXCEPT ![runs].exists = TRUE] /\ bpc' = "output"
    /\ UNCHANGED <<runs, noPlots, out, plotScript, staging, plotted, completed>>

\* save_results writes benchmark_output.txt, results.json and git_info.json,
\* one file after the other.
SaveOutput ==
    /\ bpc = "output"
    /\ folders' = [folders EXCEPT ![runs].output = out] /\ bpc' = "results"
    /\ UNCHANGED <<runs, noPlots, out, plotScript, staging, plotted, completed>>

\* open(results.json, "w") creates the file; json.dump then writes it.
SaveResultsJson ==
    /\ bpc = "results"
    /\ folders' = [folders EXCEPT ![runs].results = "partial"] /\ bpc' = "dump"
    /\ UNCHANGED <<runs, noPlots, out, plotScript, staging, plotted, completed>>

DumpResultsJson ==
    /\ bpc = "dump"
    /\ folders' = [folders EXCEPT ![runs].results = "complete"] /\ bpc' = "gitinfo"
    /\ UNCHANGED <<runs, noPlots, out, plotScript, staging, plotted, completed>>

SaveGitInfo ==
    /\ bpc = "gitinfo"
    /\ folders' = [folders EXCEPT ![runs].gitinfo = TRUE]
    /\ bpc' = IF noPlots THEN "readme" ELSE "plots"
    /\ UNCHANGED <<runs, noPlots, out, plotScript, staging, plotted, completed>>

\* generate_plots: plots/ is made; if scripts/benchmark_plot.py exists it is
\* run on the saved output and may stop after any of its files (its exit
\* status is not looked at); otherwise nothing else happens.
GeneratePlots ==
    /\ bpc = "plots"
    /\ IF plotScript
       THEN \E k \in 0..Len(PlotOrder(out)) :
              /\ staging' = DrawPlots(staging, out, runs, k)
              /\ plotted' = IF k = Len(PlotOrder(out)) THEN plotted \cup {runs} ELSE plotted
              /\ bpc' = "move"
       ELSE UNCHANGED <<staging, plotted>> /\ bpc' = "readme"
    /\ folders' = [folders EXCEPT ![runs].plotsDir = TRUE]
    /\ UNCHANGED <<runs, noPlots, out, plotScript, completed>>

\* Mutant: only the *.png files are moved.
MovePlotsPngOnly ==
    /\ bpc = "move"
    /\ folders' = [folders EXCEPT ![runs].plots =
                     [n \in PlotNames |-> IF staging[n] /= 0 /\ n /= "readme" THEN staging[n] ELSE @[n]]]
    /\ staging' = [n \in PlotNames |-> IF n = "readme" THEN staging[n] ELSE 0] /\ bpc' = "readme"
    /\ UNCHANGED <<runs, noPlots, out, plotScript, plotted, completed>>

\* Every *.png and *.txt in benchmark_plots/ is renamed into plots/.
MovePlots ==
    /\ bpc = "move"
    /\ folders' = [folders EXCEPT ![runs].plots =
                     [n \in PlotNames |-> IF staging[n] /= 0 THEN staging[n] ELSE @[n]]]
    /\ staging' = NoPlots /\ bpc' = "readme"
    /\ UNCHANGED <<runs, noPlots, out, plotScript, plotted, completed>>

\* create_readme, then the summary is printed.
CreateReadme ==
    /\ bpc = "readme"
    /\ folders' = [folders EXCEPT ![runs].readme = TRUE]
    /\ completed' = completed \cup {runs} /\ bpc' = "idle"
    /\ UNCHANGED <<runs, noPlots, out, plotScript, staging, plotted>>

\* KeyboardInterrupt between two steps: the run ends where it is.
Interrupted ==
    /\ bpc /= "idle" /\ bpc' = "idle"
    /\ UNCHANGED <<runs, noPlots, out, plotScript, staging, folders, plotted, completed>>

\* python3 scripts/benchmark/benchmark_plot.py benchmarks/<run>/benchmark_output.txt
\* by hand, between runs: its plots are left in benchmark_plots/.
PlotByHand ==
    /\ bpc = "idle"
    /\ \E r \in Runs :
        /\ folders[r].output /= NoOutput
        /\ staging' = DrawPlots(staging, folders[r].output, r, Len(PlotOrder(folders[r].output)))
    /\ UNCHANGED <<bpc, runs, noPlots, out, plotScript, folders, plotted, completed>>

BenchNext ==
    \/ Start \/ BenchmarksFail \/ NoBenchmarkData \/ BenchmarksParsed
    \/ CreateResultsFolder \/ SaveOutput \/ SaveResultsJson \/ DumpResultsJson \/ SaveGitInfo
    \/ GeneratePlots \/ MovePlots \/ CreateReadme
    \/ Interrupted \/ PlotByHand

BenchSpec == BenchInit /\ [][BenchNext]_vars

-----------------------------------------------------------------------------
(* Properties *)

FolderRec ==
    [exists : BOOLEAN, output : Outputs \cup {NoOutput}, results : {"none", "partial", "complete"},
     gitinfo : BOOLEAN, plotsDir : BOOLEAN, plots : [PlotNames -> 0..MaxRuns],
     readme : BOOLEAN]

BenchTypeOK ==
    /\ bpc \in {"idle", "bench", "folder", "output", "results", "dump", "gitinfo",
                "plots", "move", "readme"}
    /\ runs \in 0..MaxRuns /\ noPlots \in BOOLEAN /\ out \in Outputs \cup {NoOutput}
    /\ plotScript \in BOOLEAN /\ staging \in [PlotNames -> 0..MaxRuns]
    /\ folders \in [Runs -> FolderRec]
    /\ plotted \subseteq Runs /\ completed \subseteq Runs

\* A run that completed with plots, and whose benchmark_plot.py ran to its
\* end, has in plots/ every file the plot script draws for its data, and
\* each of them was drawn from this run's own output, whatever earlier runs
\* or hand-made plots left in benchmark_plots/.
OwnPlotsPresent ==
    \A r \in completed \cap plotted :
        \A j \in 1..Len(PlotOrder(folders[r].output)) :
            folders[r].plots[PlotOrder(folders[r].output)[j]] = r

\* The folder's README lists plots/ as the run's performance plots: every
\* plot in a results folder was drawn from that folder's own output.
PlotsFromOwnRun ==
    \A r \in Runs : \A n \in PlotNames : folders[r].plots[n] \in {0, r}

\* benchmark_comparison_multi.py reports either its trends or an error
\* message: it never stops on an exception, whatever folders it is given.
ComparisonEndsCleanly ==
    AllRunsOver => \A names \in RunArgs : CompareMultipleRuns(names).status /= "crashed"

\* "Find common benchmarks across all runs": every benchmark the comparison
\* reports a trend for is in the results of every run it loaded.
CommonToAllLoaded ==
    AllRunsOver => \A names \in RunArgs :
        \A t \in CompareMultipleRuns(names).trends : \A r \in Range(names) :
            folders[r].results = "complete" => t[1] \in ResultsKeys(r)

=============================================================================
