------------------------------- MODULE MC_Scorer ------------------------------
\* Snapshots of a 10 s run of 10 players that start one record below each
\* tier boundary: 1999.9, 4999.9 and 9999.9 msg/s; an error rate just
\* under 0.1% and 1% at 99999 sends; 6 and 8 connections (0.7 and 0.9 of
\* the players are one connection away).  Latency samples straddle the 50
\* and 100 ms bounds.
EXTENDS Scorer

MC_TOTAL_PLAYERS == 10
MC_ELAPSED == 10
MC_SentStart == {0, 19999, 49999, 99999}
MC_ErrorsStart == {0, 99, 999}
MC_ConnStart == {0, 6, 8}
MC_LatencyValues == {10, 50, 51, 100, 101}
MC_MaxEvents == 2
=============================================================================
