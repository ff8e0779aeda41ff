--------------------------- MODULE MCScanning ---------------------------
(* Two request threads beside the scan button. *)
EXTENDS ButtonListener, TLC

Symmetry == Permutations(Threads)
========================================================================
