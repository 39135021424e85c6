---------------------------- MODULE MCStatistics ----------------------------
\* Statistics for TLC.
EXTENDS Statistics

MCReadings == {NaN, 1, 6}
=============================================================================
