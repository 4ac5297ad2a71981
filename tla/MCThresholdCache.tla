--------------------------- MODULE MCThresholdCache ---------------------------
(***************************************************************************)
(* Small instances of ThresholdCache: threads, types and values are model   *)
(* values or numbers of the .cfg, and threads and types are alike.          *)
(***************************************************************************)
EXTENDS ThresholdCache, TLC

Symmetry == Permutations(Threads) \cup Permutations(Types)
=============================================================================
