---- MODULE MCRWAutoLock ----
\* A small instance of RWAutoLock for TLC.
EXTENDS RWAutoLock
CONSTANTS t1, t2, t3, t4
====
