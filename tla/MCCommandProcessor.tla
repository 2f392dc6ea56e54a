------------------------- MODULE MCCommandProcessor -------------------------
(* Bounded instances of CommandProcessor, see the README's table of runs. *)
EXTENDS CommandProcessor, TLC

\* Connections and channels are interchangeable in the safety runs.
Interchangeable == Permutations(Conns) \cup Permutations(Channels)
=============================================================================
