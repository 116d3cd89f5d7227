CONSTANTS
  NUM_ROOMS <- MC_NUM_ROOMS
  PLAYERS_PER_ROOM <- MC_PLAYERS_PER_ROOM
  BATCH_SIZE <- MC_BATCH_SIZE
  MaxTicks <- MC_MaxTicks
SPECIFICATION FairSpec
INVARIANT TypeOK
INVARIANT SocketsClosedAtEnd
PROPERTY ProgramEnds
PROPERTY LifecycleRefined
