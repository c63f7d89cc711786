SPECIFICATION Spec
CONSTANTS
    h1 = h1  h2 = h2  a1 = a1  a2 = a2  w1 = w1  w2 = w2  s1 = s1  s2 = s2  c1 = c1  c2 = c2  c3 = c3  c4 = c4
    Handle = {h1, h2}
    Addr = {a1, a2}
    Cmd = {}
    Length <- MCEqualLength
    TestLength = 2
    acceptor = acceptor
    Worker = {w1, w2}
    Sender = {}
    Heart = {timer}
    SOCKET_BUFFER_SIZE = 5
    FRAME_NUMBER_SEND_DATA = 2
    QueueSize = 2
    MaxPerRecv = 0
    MaxIo = 1
    NULL = NULL
SYMMETRY MCSymmetry
INVARIANTS
    TypeOK
    TablesAgree
    NeverDeaf
PROPERTIES
    RegistrySpec
