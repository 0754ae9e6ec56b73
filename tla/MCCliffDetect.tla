--------------------------- MODULE MCCliffDetect ---------------------------
\* CliffDetect with a few seconds of healthy, failing and rate-limited load.
EXTENDS CliffDetect, TLC

MCLoads == [pass : {0, 36, 40}, fail : {0, 4}, limited : {0, 4}]
=============================================================================
