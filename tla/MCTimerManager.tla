---- MODULE MCTimerManager ----
\* Small instances of TimerManager for TLC.
EXTENDS TimerManager, TLC
CONSTANTS t1, t2
MCSymmetry == Permutations(Thread)
====
