CONSTANTS
    Locales <- MCLocales
    Disks <- MCDisks
    Cores <- MCCores
    Clients <- MCClients
SPECIFICATION Spec
CHECK_DEADLOCK FALSE
INVARIANTS
    TypeOK
    OneLocale
    PatchesComplete
    NewestByNumber
    UpdatesFollowArchive
