--------------------------- MODULE MCCatalogMerge ---------------------------
(* Model checking of CatalogMerge. *)
EXTENDS CatalogMerge, TLC

Symmetry == Permutations(Runs) \cup Permutations(PRs)

=============================================================================
