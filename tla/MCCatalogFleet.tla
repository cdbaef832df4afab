--------------------------- MODULE MCCatalogFleet ---------------------------
(* Model checking of CatalogFleet: one cluster per channel. *)
EXTENDS CatalogFleet

MCChannelOf == [c \in Clusters |-> c]

=============================================================================
