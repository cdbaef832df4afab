--------------------------- MODULE MCLegacyBridge ---------------------------
(* Model checking of LegacyBridge for the two tiles that have a bridge. *)
EXTENDS LegacyBridge

\* root@localhost, root@% (the one a TCP client logs in as), romm@%.
Romm == [alter |-> <<"root@localhost", "root", "romm">>,
         app |-> "romm", admin |-> "root"]

Immich == [alter |-> <<"immich">>, app |-> "immich", admin |-> "immich"]

MCTiles == {Romm, Immich}

=============================================================================
