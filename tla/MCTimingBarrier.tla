--------------------------- MODULE MCTimingBarrier ---------------------------
EXTENDS TimingBarrier
=============================================================================
