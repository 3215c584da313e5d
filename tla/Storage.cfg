CONSTANTS
    w1 = w1
    w2 = w2
    Writers <- MCWriters2
    Threshold = 2
    MaxQuarantine = 1
    MaxTorn = 1
    MaxVersion = 5
    MaxCrashes = 2
    Items <- MCItems
    Questions <- MCQuestions
    LowerCase <- MCLowerCase
    DefaultUser <- MCUser
    Statuses <- MCStatuses
    Blank = "blank"
    ScanCap = 2
    MaxChanges = 2
SPECIFICATION MCSpec
INVARIANTS NothingDeleted OpensLastGood SingleFlight CompactedWhenQuiet PageIsTop
PROPERTY ClaimReleased
CHECK_DEADLOCK FALSE
