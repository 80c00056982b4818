--------------------------- MODULE MCEmmaKeyStore ---------------------------
(* Instances of EmmaKeyStore and of its refinement for TLC. *)
EXTENDS KeyStoreRefinement, TLC

\* Programs, aliases and passwords are only ever compared with each other.
Symmetry == Permutations(Proc) \cup Permutations(Alias) \cup Permutations(Password)
=============================================================================
