CONSTANTS
    Names <- MCNames
    BaseOf <- MCBaseOf
    Worlds <- ZeroWorlds
    Executables <- MCExecutables
    SkipLength <- MCSkipLength
    JunkBytes <- MCJunkBytes
SPECIFICATION Spec
CHECK_DEADLOCK FALSE
INVARIANT
    ZeroExtractsAll
