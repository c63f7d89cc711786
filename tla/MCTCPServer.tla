---- MODULE MCTCPServer ----
\* Small instances of TCPServer for TLC.
EXTENDS TCPServer, TLC

CONSTANTS h1, h2, a1, a2, w1, w2, s1, s2, c1, c2, c3, c4

\* Every command has the length of a TestNetCmd.
MCEqualLength == [c \in Cmd |-> 2]

\* c1 has the length of a TestNetCmd, c2 is longer, c3 longer still.
MCMixedLength == [c \in Cmd |-> CASE c = c1 -> 2 [] c = c2 -> 3 [] OTHER -> 5]

\* A buffer of 4 holds one of c1, c2, c3 (a second has to wait) and never c4.
MCOvertaken == [c \in Cmd |-> CASE c \in {c1, c2} -> 2 [] c = c3 -> 3 [] OTHER -> 4]

MCSymmetry == Permutations(Handle) \cup Permutations(Addr) \cup Permutations(Worker)
                \cup Permutations(Sender)
====
