CONSTANTS
    Archives <- MCArchives
    Names <- MCNames
    Worlds <- MCWorlds
    MaxCalls <- MCMaxCalls
SPECIFICATION Spec
CHECK_DEADLOCK FALSE
INVARIANTS
    TypeOK
    ReadReleasesAll
    ArchivesAccounted
    ListIsComplete
PROPERTY
    ImplementsStore
