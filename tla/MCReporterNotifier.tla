-------------------------- MODULE MCReporterNotifier --------------------------
(* Small instances of ReporterNotifier for TLC.                            *)
EXTENDS ReporterNotifier, TLC

CONSTANTS f1, f2, c1, c2

MCFp == {f1, f2}
MCCaller == {c1, c2}

Symmetry == Permutations(MCFp) \union Permutations(MCCaller)
=============================================================================
