----------------------------- MODULE MCVersions -----------------------------
(* Instantiates Versions: three publishers in one environment, where a     *)
(* request can lose all three attempts.                                    *)
EXTENDS Versions

=============================================================================
