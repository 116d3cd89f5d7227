CONSTANTS
  TOTAL_PLAYERS <- MC_TOTAL_PLAYERS
  ELAPSED <- MC_ELAPSED
  SentStart <- MC_SentStart
  ErrorsStart <- MC_ErrorsStart
  ConnStart <- MC_ConnStart
  LatencyValues <- MC_LatencyValues
  MaxEvents <- MC_MaxEvents
SPECIFICATION Spec
INVARIANT TypeOK
PROPERTY GradeFollowsOutcomes
