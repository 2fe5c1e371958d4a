-------------------------- MODULE MCStudioPublish ---------------------------
(* Instantiates StudioPublish with two environments.  In the first instance *)
(* one draft does not validate and one environment has a history to roll    *)
(* back in; in the second the drafts of the two environments differ.        *)
EXTENDS StudioPublish

CONSTANTS staging, prod, d1, d2, bad

MCEnvs == {staging, prod}
BadDocs == {d1, bad}
BadValid == {d1}
BadDrafts == [e \in MCEnvs |-> IF e = staging THEN d1 ELSE bad]
BadLog == [e \in MCEnvs |-> IF e = staging THEN <<>> ELSE <<d1, d1>>]

MCDocs == {d1, d2}
MCDrafts == [e \in MCEnvs |-> IF e = staging THEN d1 ELSE d2]
MCLog == [e \in MCEnvs |-> IF e = staging THEN <<d2>> ELSE <<>>]

=============================================================================
