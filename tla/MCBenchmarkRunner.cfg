\* Three runs, each of which may be interrupted, with benchmark_plot.py
\* present or not where the runner looks for it.
CONSTANTS
    Outputs <- MCOutputs
    PlotTypeOrder <- MCPlotTypeOrder
    MaxRuns = 3
INIT BenchInit
NEXT BenchNext
INVARIANTS
    OwnPlotsPresent
\* After the last run the runner stays idle.
CHECK_DEADLOCK FALSE
