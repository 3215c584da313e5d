CONSTANTS
    b1 = b1
    b2 = b2
    x = x
    Ops <- MCOps
    PipelineOps <- MCPipeline
    MayPanic <- MCOps
    MaxPending = 1
    Permits = 1
    CacheCap = 2
    MaxRestarts = 1
    Batches <- MCBatches
    Pacing = 1
    MaxAttempts = 1
    Wait = TRUE
    Transcripts <- MCTranscripts
    Dirs <- MCDirs
    MaxChars = 5
    Separator = 1
    Names = {1, 2}
    Paths <- MCPaths
    Trees <- MCTrees
    BatchSize = 2
SPECIFICATION MCSpec
INVARIANTS NothingDropped WaitMeansDone TellsWhatIsLost BatchesCoverTree
PROPERTIES NoDoubleSubmission SubmissionEnds WaitReturnsUnlessLost
CHECK_DEADLOCK FALSE
