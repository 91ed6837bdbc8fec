------------------------- MODULE MCLegacyBenchmark -------------------------
(* An instance of LegacyBenchmark for TLC: one terminal that builds, two    *)
(* that evaluate and one that publishes.                                    *)
EXTENDS LegacyBenchmark, TLC

CONSTANTS e1, e2, c1, c2

Symmetry == Permutations(Evaluators) \cup Permutations(Configs)
=============================================================================
