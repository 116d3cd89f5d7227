CONSTANTS
  NUM_ROOMS <- MC1_NUM_ROOMS
  PLAYERS_PER_ROOM <- MC_PLAYERS_PER_ROOM
  BATCH_SIZE <- MC_BATCH_SIZE
  MaxTicks <- MC_MaxTicks
  MaxFrames <- MC_MaxFrames
  InterruptAt <- MC_InterruptAnywhere
  Idle = Idle

SPECIFICATION FairSpec

PROPERTY ReportProduced
