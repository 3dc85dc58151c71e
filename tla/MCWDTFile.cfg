CONSTANTS
    SizeMod <- MCSizeMod
    ByteMod <- MCByteMod
    Side <- MCSide
    MAIN <- MCMAIN
    Files <- MCFiles
    StaleSizes <- MCStaleSizes
    JunkMaps <- MCJunkMaps
    MaxOpens <- MCMaxOpens
SPECIFICATION Spec
CHECK_DEADLOCK FALSE
INVARIANTS
    TypeOK
    CursorInBounds
    TableIsOfFile
    ListIsOfFile
PROPERTY
    LoadEnds
