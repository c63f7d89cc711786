SPECIFICATION FairSpec
CONSTANTS
    l1 = l1  l2 = l2  l3 = l3
    Line = {l1, l2, l3}
    Length <- MCLength
    OffsetSize = 4
    Torn = Torn
    Configs <- MCConfigs
    PortSize = 4
    Ephemeral = {2, 3}
INVARIANTS
    TypeOK
    ReadyBeforeUse
    JobsOwnLiveServers
    
    LinesInPlace
PROPERTY
    EveryLineSettles
CHECK_DEADLOCK FALSE
