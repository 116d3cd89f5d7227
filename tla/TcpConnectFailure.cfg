CONSTANTS
  NUM_ROOMS <- MC_NUM_ROOMS
  PLAYERS_PER_ROOM <- MC_PLAYERS_PER_ROOM
  BATCH_SIZE <- MC_BATCH_SIZE
  MaxTicks <- MC_MaxTicks
  MaxFrames <- MC_MaxFrames
  InterruptAt <- MC_InterruptAt
  Idle = Idle

SPECIFICATION Spec

INVARIANT FailedConnectNeverActive
