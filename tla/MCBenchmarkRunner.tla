-------------------------- MODULE MCBenchmarkRunner --------------------------
(***************************************************************************)
(* Four outputs go test may print, over the Parse/small and DSLQueries/q   *)
(* benchmarks: both parsed; the same with the DSLQueries case named with a *)
(* '-' (dropped by the parser); DSLQueries alone, allocating nothing       *)
(* ("0 B/op"); and only a Parse line the parser drops.                     *)
(***************************************************************************)
EXTENDS BenchmarkRunner

Line(t, c, s, m) == [type |-> t, case |-> c, shape |-> s, mem |-> m]

MCPlotTypeOrder == <<"Parse", "DSLQueries">>

MCOutputs ==
    { {Line("Parse", "small", "plain", 1), Line("DSLQueries", "q", "plain", 1)},
      {Line("Parse", "small", "plain", 1), Line("DSLQueries", "q-x", "dashed", 1)},
      {Line("DSLQueries", "q", "plain", 0)},
      {Line("Parse", "small", "dashed", 1)} }

=============================================================================
