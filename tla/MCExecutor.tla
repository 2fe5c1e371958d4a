----------------------------- MODULE MCExecutor -----------------------------
(* Instantiates Executor over every graph on three steps, cyclic ones and  *)
(* ones that name a missing step included.  A graph that can run has its   *)
(* steps numbered so that a step depends on smaller ones only, which picks *)
(* a representative of every such graph up to renaming; what Execute reads *)
(* makes no difference to one that is rejected.                            *)
EXTENDS Executor

MCInit ==
  /\ Init
  /\ IF Acyclic THEN \A s \in Steps : deps[s] \subseteq 1..(s - 1)
     ELSE optional = {} /\ statusRef = NoStep /\ bodyIsObject

MCSpec == MCInit /\ [][Next]_vars /\ Fairness

=============================================================================
