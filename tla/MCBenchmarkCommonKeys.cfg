\* The runs of MCBenchmarkRunner.cfg, compared with benchmark_comparison_multi.py.
CONSTANTS
    Outputs <- MCOutputs
    PlotTypeOrder <- MCPlotTypeOrder
    MaxRuns = 3
INIT BenchInit
NEXT BenchNext
INVARIANT
    CommonToAllLoaded
CHECK_DEADLOCK FALSE
