------------------------------ MODULE MCReporter ------------------------------
(***************************************************************************)
(* Small instances of Reporter for TLC.                                    *)
(***************************************************************************)
EXTENDS Reporter, TLC

CONSTANTS f1, f2, c1, c2

MCFp == {f1, f2}
MCCaller == {c1, c2}

\* Fingerprints and threads are interchangeable; for safety only.
Symmetry == Permutations(MCFp) \union Permutations(MCCaller)
=============================================================================
