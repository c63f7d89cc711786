SPECIFICATION Spec
CONSTANTS
    h1 = h1  h2 = h2  a1 = a1  a2 = a2  w1 = w1  w2 = w2  s1 = s1  s2 = s2  c1 = c1  c2 = c2  c3 = c3  c4 = c4
    Handle = {h1}
    Addr = {a1}
    Cmd = {c1,c2,c3}
    Length <- MCMixedLength
    TestLength = 2
    acceptor = acceptor
    Worker = {w1}
    Sender = {s1,s2}
    Heart = {}
    SOCKET_BUFFER_SIZE = 5
    FRAME_NUMBER_SEND_DATA = 2
    QueueSize = 2
    MaxPerRecv = 1
    MaxIo = 2
    NULL = NULL
SYMMETRY MCSymmetry
INVARIANTS
    NeverDeaf OneOwnerPerCommand PassFitsBuffer
