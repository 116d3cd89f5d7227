--------------------------- MODULE MC_TcpLoadTest ---------------------------
(* Model-checking instance of TcpLoadTest: 2 rooms of 1 player started in *)
(* batches of 1, so the second batch is created while the first player is  *)
(* already connecting, and each player can tick twice and receive a frame. *)
EXTENDS TcpLoadTest

MC_NUM_ROOMS == 2
MC_PLAYERS_PER_ROOM == 1
MC_BATCH_SIZE == 1
MC_MaxTicks == 2
MC_MaxFrames == 1

\* Ctrl-C during gather(), when the players are already in their
\* `finally: disconnect()`, so the runner's cancel is their second one.
MC_InterruptAt == {"gather"}

\* Ctrl-C at any of the three awaits of run_test().
MC_InterruptAnywhere == {"ramp", "duration", "gather"}

\* One player only: the global metrics are that player's own.
MC1_NUM_ROOMS == 1
=============================================================================
