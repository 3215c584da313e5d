CONSTANTS
    i1 = i1
    i2 = i2
    i3 = i3
    p = p
    q = q
    r1 = r1
    r2 = r2
    Ids <- MCIds
    Existing <- MCExisting
    Initial <- MCInitial
    Refs <- MCRefs
    Names <- MCNames
    Shards <- MCShards
    ShardOf <- MCShardOf
    Reqs <- MCReqs2
    Calls <- MCCalls
    Titles <- MCTitles
    Stamps <- MCStamps
    DeleteMayFail = FALSE
    MaxCrashes = 1
SPECIFICATION FairSpec
INVARIANTS ReadIsCurrent NoResurrection
PROPERTIES ImplementsSpec KeepsEarlierStamp LossIsReported EveryRequestEnds
CHECK_DEADLOCK FALSE
