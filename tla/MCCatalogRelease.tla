-------------------------- MODULE MCCatalogRelease --------------------------
(* Model checking of CatalogRelease: runs and corpora are interchangeable. *)
EXTENDS CatalogRelease, TLC

Symmetry == Permutations(Runs) \cup Permutations(Corpora)

=============================================================================
