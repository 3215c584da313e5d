CONSTANTS
    i1 = i1
    i2 = i2
    i3 = i3
    p = p
    r1 = r1
    r2 = r2
    Ids <- MCIds
    Users <- MCUsers
    Initial <- MCInitial
    Texts <- MCTexts
    Chunks <- MCChunks
    Refs <- MCRefs
    Names <- MCNames
    Reqs <- MCReqs2
    Calls <- MCCalls
    Answers <- MCAnswers
    Distill = TRUE
    DeleteMayFail = TRUE
    Permits = 2
    MaxCrashes = 1
SPECIFICATION Spec
INVARIANTS IdentityKept BackOnlyByStaleWriter
PROPERTIES DedupStaysInScope NoSilentLoss
CHECK_DEADLOCK FALSE
