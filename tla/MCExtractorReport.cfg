CONSTANTS
    Names <- MCNames
    BaseOf <- MCBaseOf
    Worlds <- MCWorlds
    Executables <- MCExecutables
    SkipLength <- MCSkipLength
    JunkBytes <- MCJunkBytes
SPECIFICATION Spec
CHECK_DEADLOCK FALSE
INVARIANT
    ReportCountsFiles
