SPECIFICATION FairSpec
CONSTANTS
    f = f
    g = g
    h = h
    d = d
    e = e
    b = b
    x = x
    o = o
    cut = cut
    none = none
    s1 = s1
    s2 = s2
    c1 = c1
    c2 = c2
    c3 = c3
    Names <- MCNames
    Blocks <- MCBlocks
    Cut <- cut
    NoData <- none
    Window = 2
    MaxCommands = 2
    Home <- h
    Files <- MCFiles
    FILE_NUM = 2
    Commands <- MCCommands
    ClientFiles <- MCClientFiles
    ServerFiles <- MCServerFiles
INVARIANTS
    TypeOK
    PromptInStep
PROPERTIES
    NoStrayPacket
    GetDelivers
    PutDelivers
    CdMoves
    CommandsEnd
    SessionEnds
CHECK_DEADLOCK FALSE
