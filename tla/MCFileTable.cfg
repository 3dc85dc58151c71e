CONSTANTS
    Names <- MCNames
    ListName <- MCListName
    Locales <- MCLocales
    Neutral <- MCNeutral
    H <- MCH
    Homes <- MCHomes
SPECIFICATION Spec
CHECK_DEADLOCK FALSE
INVARIANTS
    TypeOK
    SlotsFindFiles
    FindsOnlyHeld
PROPERTY
    KeepsFiles
