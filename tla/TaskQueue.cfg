CONSTANTS
    a = a
    b = b
    c = c
    Ops <- MCOps
    PipelineOps <- MCPipeline
    MayPanic <- MCOps
    MaxPending = 2
    Permits = 1
    CacheCap = 2
    MaxRestarts = 1
    Requests <- MCRequests
SPECIFICATION MCSpec
INVARIANTS AdmissionBound OwnFaultOnly
PROPERTIES OutcomeIsFinal PipelineOpsSettle QueueDrains
CHECK_DEADLOCK FALSE
