------------------------------ MODULE MCStateFile -------------------------------
(* Model-checking instances of StateFile: a file that lists endpoints.     *)
EXTENDS StateFile, TLC

CONSTANT Endpoints

\* A document is a set of endpoints; an edit adds or deletes one.
EndpointSets == {S : S \in SUBSET Endpoints}
AddsAndDeletes ==
  {[S \in EndpointSets |-> S \cup {e}] : e \in Endpoints}
    \cup {[S \in EndpointSets |-> S \ {e}] : e \in Endpoints}

\* Threads differ in nothing but their name, and so do inodes and endpoints.
Symmetry == Permutations(Savers) \cup Permutations(Inodes) \cup Permutations(Endpoints)
=============================================================================
