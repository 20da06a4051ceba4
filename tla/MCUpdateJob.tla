---------------------------- MODULE MCUpdateJob ----------------------------
\* Two ticks per day, the hourly look-back is one day and the --full one is
\* three, two orders at most.
EXTENDS UpdateJob

MCWindows == {2, 6}
MCOrderTicks == {0, 2}
=============================================================================
