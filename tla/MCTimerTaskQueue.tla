------------------------- MODULE MCTimerTaskQueue -------------------------
EXTENDS TimerTaskQueue

CONSTANTS p1, g1, g2

MCOneWriter == {p1}
MCGoroutines == {g1, g2}
===========================================================================
