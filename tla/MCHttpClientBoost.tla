---- MODULE MCHttpClientBoost ----
\* A small instance of HttpClientBoost for TLC.
EXTENDS HttpClientBoost, TLC
CONSTANTS r1, r2, r3, r4

\* The constructor's loop against what it is for: the least power of two that
\* is large enough.
ASSUME SizesRounded ==
    \A n \in 1 .. 80 : \E k \in 0 .. 7 :
        Rounded(n) = 2 ^ k /\ n <= 2 ^ k /\ \A j \in 0 .. k - 1 : 2 ^ j < n
====
