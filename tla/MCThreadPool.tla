---- MODULE MCThreadPool ----
\* Small instances of ThreadPool for TLC.
EXTENDS ThreadPool, TLC
CONSTANTS t1, t2, t3
MCSymmetry == Permutations(Thread)
====
