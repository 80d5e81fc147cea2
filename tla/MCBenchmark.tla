----------------------------- MODULE MCBenchmark -----------------------------
(* Two workers; the constants are model values and small sets, given in the
   configuration. *)
EXTENDS Benchmark
=============================================================================
