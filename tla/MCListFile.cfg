CONSTANTS
    Texts <- MCTexts
    Sectors <- MCSectors
    CacheSize <- MCCacheSize
    MaxChars <- MCMaxChars
    Mask <- MCMask
SPECIFICATION Spec
CHECK_DEADLOCK FALSE
INVARIANTS
    TypeOK
    CacheShowsFile
    NamesInOnePiece
    ListsEveryName
PROPERTY
    SearchEnds
