------------------------- MODULE MCLoginThrottle -------------------------
(* Two addresses, two request threads. *)
EXTENDS LoginThrottle, TLC

Symmetry == Permutations(Clients) \cup Permutations(Threads)
==========================================================================
