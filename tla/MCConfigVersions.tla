--------------------------- MODULE MCConfigVersions ---------------------------
(* The instance of ConfigVersions that the MCConfigVersions*.cfg files      *)
(* complete.                                                                *)
EXTENDS ConfigVersions

MCKeeps == {0, 1}
=============================================================================
