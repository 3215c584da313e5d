CONSTANTS
    r1 = r1
    r2 = r2
    Callers <- MCCallers
    Deps <- MCDeps
    HasFallback = TRUE
    Models <- MCModels
    Prefixed <- MCPrefixed
    Stock = "stock"
    Hosts <- MCHosts
    Local = "here"
    Files <- MCFiles
    ClientSlots <- MCSlots
    Features <- MCFeatures
    Strangers <- MCStrangers
    MaxHops = 2
SPECIFICATION MCSpec
INVARIANTS ContentStaysLocal OnlyOutagesTrip KeysGoHome PreSlotMeaningKept SentHome SoundIsServed
PROPERTY Recovers
CHECK_DEADLOCK FALSE
