----------------------------- MODULE MCHarness -----------------------------
(* Bounded instances of Harness, see the README's table of runs. *)
EXTENDS Harness, TLC

\* Processors and connections are interchangeable in the safety runs.
Interchangeable == Permutations(Procs) \cup Permutations(Conns)
=============================================================================
