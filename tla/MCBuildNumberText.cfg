CONSTANTS
    Executables <- MCExecutables
    SkipLength <- MCSkipLength
    JunkBytes <- MCJunkBytes
SPECIFICATION VersionSpec
CHECK_DEADLOCK FALSE
INVARIANT
    FindsText
