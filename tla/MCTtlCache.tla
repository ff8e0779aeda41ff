------------------------------- MODULE MCTtlCache -------------------------------
(* Model-checking instances of TtlCache: interchangeable threads. *)
EXTENDS TtlCache, TLC

\* Threads differ in nothing but their name.
Symmetry == Permutations(Threads)
=============================================================================
