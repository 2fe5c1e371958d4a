--------------------------- MODULE MCStudioEditor ---------------------------
(* The editor on compositions of three steps.                              *)
EXTENDS StudioEditor
CONSTANTS stepA, stepB, stepC

MCNames == {stepA, stepB, stepC}
MCBodies == {
  [steps |-> MCNames, deps |-> {<<stepB, stepA>>}, refs |-> {<<stepC, stepB>>}],
  [steps |-> {stepA, stepB}, deps |-> {<<stepB, stepC>>}, refs |-> {<<stepA, stepB>>}]}
MCFields == {<<stepA, {stepC}>>}
=============================================================================
