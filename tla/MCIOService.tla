---- MODULE MCIOService ----
\* A small instance of IOService for TLC.
EXTENDS IOService
CONSTANT u1
====
