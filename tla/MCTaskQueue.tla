---------------------------- MODULE MCTaskQueue ----------------------------
(* TLC instance of the server's requests: the queue they go through        *)
(* (TaskQueue; a, b own a PipelineGuard, c does not), and the breakers     *)
(* they check and report to (ToolHealth).  The two share no variable: a    *)
(* behaviour is of one of them.                                            *)
EXTENDS TaskQueue, ToolHealth
CONSTANTS a, b, c
MCOps      == {a, b, c}
MCPipeline == {a, b}
MCRequests == {a, b}

VARIABLE side

MCInit == Init /\ HealthInit /\ side \in {"queue", "tools"}
MCNext ==
    /\ UNCHANGED side
    /\ \/ side = "queue" /\ Next /\ UNCHANGED tvars
       \/ side = "tools" /\ HealthNext /\ UNCHANGED vars
MCSpec == MCInit /\ [][MCNext]_<<vars, tvars, side>> /\ Fairness
=============================================================================
