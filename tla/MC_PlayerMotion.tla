---------------------------- MODULE MC_PlayerMotion ---------------------------
\* Unit: 0.1.  A 2.0-wide world (the code's 100.0 only lengthens the walk
\* between walls) and velocity samples -1.0, -0.1, 0, 0.1 and 1.0, so a
\* step can overshoot a wall by a full unit or land exactly on it.
EXTENDS PlayerMotion

MC_WORLD_SIZE == 20
MC_Velocities == {-10, -1, 0, 1, 10}
=============================================================================
