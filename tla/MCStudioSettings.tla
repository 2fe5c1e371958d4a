-------------------------- MODULE MCStudioSettings --------------------------
(* Instantiates StudioSettings with two environments and one other user.   *)
EXTENDS StudioSettings

CONSTANTS staging, prod, ann

MCEnvs == {staging, prod}
MCPeople == {ann}

=============================================================================
