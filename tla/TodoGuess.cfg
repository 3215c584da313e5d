CONSTANTS
    i1 = i1
    i2 = i2
    i3 = i3
    p = p
    q = q
    r1 = r1
    r2 = r2
    Ids <- MCIds
    Existing <- MCExisting
    Initial <- MCInitial
    Refs <- MCRefs
    Names <- MCNames
    Shards <- MCShards
    ShardOf <- MCShardOf
    Reqs <- MCReqs2
    Calls <- MCLookups
    Titles <- MCTitles
    Stamps <- MCStamps
    DeleteMayFail = FALSE
    MaxCrashes = 0
SPECIFICATION FairSpec
PROPERTY RefusesToGuess
CHECK_DEADLOCK FALSE
