SPECIFICATION Spec
CONSTANTS
  stepA = stepA
  stepB = stepB
  stepC = stepC
  Names <- MCNames
  Bodies <- MCBodies
  MaxChanges = 3
  Fields <- MCFields
  MaxAsked = 2
INVARIANTS WavesShowExecution
PROPERTIES NoBlindOverwrite DrawsNoCycle LintCatchesUp
