CONSTANTS
  f1 = f1
  f2 = f2
  Files <- MC_Files
  Paths <- MC_Paths
  Targets <- MC_Targets
  Inputs <- MC_TestInputs
  Scripts <- MC_RUOnly
  MaxRuns <- MC_OneRun
SPECIFICATION Spec
\* The user stops after the last script run.
CHECK_DEADLOCK FALSE
INVARIANT TestCodeKeepsUnwrap
