------------------------ MODULE MCBenchmarkPipeline ------------------------
(* An instance of BenchmarkPipeline for TLC.  Evaluators are                *)
(* interchangeable.                                                         *)
EXTENDS BenchmarkPipeline, TLC

Symmetry == Permutations(Evaluators)
=============================================================================
