CONSTANTS
  f1 = f1
  f2 = f2
  Files <- MC_Files
  Paths <- MC_Paths
  Targets <- MC_Targets
  Inputs <- MC_Inputs
  Scripts <- MC_Scripts
  MaxRuns <- MC_MaxRuns
SPECIFICATION Spec
\* The user stops after the last script run.
CHECK_DEADLOCK FALSE
INVARIANT TypeOK
INVARIANT NoUnwrapAfterFinalRemoval
INVARIANT FinalCountsMatch
INVARIANT AppErrorImported
INVARIANT SafeUnwrapImported
