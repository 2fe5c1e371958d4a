---------------------------- MODULE MCResilience ----------------------------
(* Instantiates Resilience with two calls.  The status codes stand for a   *)
(* success, one that is retried, a failure that is not, and a failure that *)
(* drop_on takes out of the retried ones.                                  *)
EXTENDS Resilience

=============================================================================
