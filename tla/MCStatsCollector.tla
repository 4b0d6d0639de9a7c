--------------------------- MODULE MCStatsCollector ---------------------------
(* Four events, the ticker and one overview request, restarts at any time.    *)
EXTENDS StatsCollector

CONSTANTS ticker, overview, main, a, b, c, d

===============================================================================
