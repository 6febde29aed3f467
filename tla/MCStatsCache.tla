---------------------------- MODULE MCStatsCache ----------------------------
EXTENDS StatsCache, TLC

CONSTANTS n1, n2, r1
=============================================================================
