---- MODULE MCP1Service ----
\* A small instance of P1Service for TLC.
EXTENDS P1Service, TLC
CONSTANTS l1, l2, l3

MCLength == (l1 :> 1) @@ (l2 :> 2) @@ (l3 :> 1)

Config(parsed, found, tcpServer) ==
    [parsed |-> parsed, found |-> found, tcpServer |-> tcpServer]
At(ip, port) == [ip |-> ip, uProt |-> port]

\* No file, a file without the server, no server, one; and two with a port each, with
\* the same port at two addresses, with ports that are the same in 16 bits, with a
\* port and one that is zero in 16 bits, and with two that are.
MCConfigs ==
    {Config(FALSE, FALSE, <<>>), Config(TRUE, FALSE, <<>>)} \cup
    {Config(TRUE, TRUE, t) :
        t \in {<<>>, <<At(1, 1)>>, <<At(1, 1), At(1, 2)>>, <<At(1, 1), At(2, 1)>>,
               <<At(1, 1), At(1, 5)>>, <<At(1, 2), At(1, 4)>>, <<At(1, 4), At(1, 8)>>}}
====
