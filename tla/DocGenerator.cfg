CONSTANTS
  f1 = f1
  f2 = f2
  w1 = w1
  w2 = w2
  Files <- MC_Files
  Paths <- MC_Paths
  Inputs <- MC_Inputs
  WsOrder <- MC_WsOrder
  MaxRuns <- MC_MaxRuns
SPECIFICATION Spec
\* The script stops after its last run.
CHECK_DEADLOCK FALSE
INVARIANT TypeOK
INVARIANT DocumentedAsReference
