---------------------------- MODULE MCStudioShell ---------------------------
(* Two environments, a page for everybody and one for owners in each.      *)
EXTENDS StudioShell
CONSTANTS prod, staging

MCEnvList == <<prod, staging>>
MCNavItems == <<[to |-> "environments", min |-> "viewer"], [to |-> "users", min |-> "owner"]>>
MCEnvPages == <<[to |-> "overview", min |-> "viewer"], [to |-> "tokens", min |-> "owner"]>>

MCKeys == Labels \X {prod, staging, NoEnv}
\* The words "staging" and "token".
MCScores == {
  [k \in MCKeys |-> IF k[2] = staging THEN (IF k[1] = "overview" THEN 3 ELSE 2)
                 ELSE IF k[2] = prod THEN 1 ELSE 0],
  [k \in MCKeys |-> IF k[1] = "tokens" THEN 3 ELSE IF k[1] \in {"new", "resource"} THEN 1 ELSE 0]}
=============================================================================
