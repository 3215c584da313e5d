CONSTANTS
    b1 = b1
    b2 = b2
    x = x
    Ops <- MCOps
    PipelineOps <- MCPipeline
    MayPanic = {}
    MaxPending = 1
    Permits = 1
    CacheCap = 1
    MaxRestarts = 0
    Batches <- MCBatches
    Pacing = 1
    MaxAttempts = 1
    Wait = TRUE
SPECIFICATION CliServedSpec
PROPERTY WaitReturns
CHECK_DEADLOCK FALSE
