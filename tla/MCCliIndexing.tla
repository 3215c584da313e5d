--------------------------- MODULE MCCliIndexing ---------------------------
(* TLC instances of CliIndexing: two batches b1, b2 and one add_memory of  *)
(* another client, x.                                                      *)
EXTENDS CliIndexing
CONSTANTS b1, b2, x
MCOps      == {b1, b2, x}
MCPipeline == {x}
MCBatches  == <<b1, b2>>
=============================================================================
