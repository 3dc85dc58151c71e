CONSTANTS
    SizeMod <- MCSizeMod
    ByteMod <- MCByteMod
    FieldMod <- MCFieldMod
    Files <- MCFiles
    StaleSizes <- MCStaleSizes
    MaxOpens <- MCMaxOpens
SPECIFICATION Spec
INVARIANTS
    TypeOK
    CursorInBounds
    TableInBounds
    OpenAcceptsTables
    ObjectIsFresh
    OutputsAreTables
