---------------------------- MODULE MC_RudpLoadTest ---------------------------
\* Small instance of RudpLoadTest for TLC: 3 players in 3 rooms started in
\* batches of 2, so the ramp has a partial last batch.
EXTENDS RudpLoadTest

MC_NUM_ROOMS == 3
MC_PLAYERS_PER_ROOM == 1
MC_BATCH_SIZE == 2
MC_MaxTicks == 2
=============================================================================
