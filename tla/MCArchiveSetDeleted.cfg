CONSTANTS
    Archives <- MCArchives
    Names <- MCNames
    Worlds <- MCWorlds
    MaxCalls <- MCMaxCalls
SPECIFICATION Spec
CHECK_DEADLOCK FALSE
INVARIANT
    DeletedStaysDeleted
