--------------------------- MODULE MCLlmFallback ---------------------------
(* TLC instances of LlmFallback: both backends, two callers.               *)
EXTENDS LlmFallback
CONSTANTS r1, r2
MCCallers == {r1, r2}
MCDeps    == {"primary", "fallback"}
=============================================================================
