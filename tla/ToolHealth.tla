---------------------------- MODULE ToolHealth ----------------------------
(***************************************************************************)
(* The tools of the server (serve.rs) and the circuit breakers of the      *)
(* embedder and of LanceDB: a handler checks the breakers of what it       *)
(* needs, works, and reports what came of it, for any number of requests   *)
(* at once.  Background tasks report and check nothing.                    *)
(***************************************************************************)
EXTENDS Sequences

CONSTANT Requests

VARIABLES
    hstate, hexpired, hnoted,   \* the breakers, as in CircuitBreaker
    hpc, hdep, hanswer, hfresh, \*   and the calls of their operations
    tool,       \* per request: the tool, until its work is done
    left,       \*   the breakers still to check, or to report to
    broke       \* history: the dependencies that ever failed

ToolDeps == {"embedding", "lancedb"}
Breaker == INSTANCE CircuitBreaker
    WITH Deps <- ToolDeps, Callers <- Requests, state <- hstate, expired <- hexpired,
         noted <- hnoted, pc <- hpc, dep <- hdep, answer <- hanswer, fresh <- hfresh

breakers == <<hstate, hexpired, hnoted, hfresh>>
tvars    == <<breakers, hpc, hdep, hanswer, tool, left, broke>>

Both == <<"embedding", "lancedb">>

\* What a tool checks, whose failure ends it, and whose success it reports.
Tool(checks, ends, reports) == [checks |-> checks, ends |-> ends, reports |-> reports]
AddTodo        == Tool(Both, ToolDeps, Both)
UpdateTodo     == Tool(Both, ToolDeps, Both)
CompleteTodo   == Tool(Both, ToolDeps, Both)
ListTodosTool  == Tool(<<"lancedb">>, {"lancedb"}, <<"lancedb">>)
GetTodo        == Tool(<<"lancedb">>, {"lancedb"}, <<"lancedb">>)
DeleteTodo     == Tool(<<"lancedb">>, {"lancedb"}, <<"lancedb">>)
\* A collection that cannot be searched is no error.
SearchTool     == Tool(Both, {"embedding"}, Both)
AddMemory      == Tool(<<>>, ToolDeps, Both)
UpdateMemory   == Tool(<<>>, ToolDeps, Both)
\* A chunk or symbol that cannot be embedded or stored is counted, no error.
IndexStandards == Tool(<<>>, {"lancedb"}, Both)
IndexCodeFiles == Tool(<<>>, {"lancedb"}, Both)
Tools == {AddTodo, UpdateTodo, CompleteTodo, ListTodosTool, GetTodo, DeleteTodo, SearchTool,
          AddMemory, UpdateMemory, IndexStandards, IndexCodeFiles}

\* The classes of the errors a dependency's failure, or a request, gives rise to.
ErrorsOf(d) ==
    CASE d = "embedding" -> {"Embedding"}
      [] d = "lancedb"   -> {"LanceDb", "VectorStore", "Arrow"}
RequestErrors == {"AmbiguousIdPrefix", "Other"}

-----------------------------------------------------------------------------
(* Faults.                                                                 *)

\* What is no error of the embedder is one of LanceDB.
BlamedElse(error) == IF error = "Embedding" THEN {"embedding"} ELSE {"lancedb"}

-----------------------------------------------------------------------------

\* report_error_to_health, by is_lancedb_error and is_embedding_error.
Blamed(error) ==
    CASE error = "LanceDb"   -> {"lancedb"}
      [] error = "Embedding" -> {"embedding"}
      [] OTHER               -> {}

HealthInit ==
    /\ Breaker!BreakerInit
    /\ hpc = [r \in Requests |-> "idle"]
    /\ hdep = [r \in Requests |-> "embedding"]
    /\ hanswer = [r \in Requests |-> "none"]
    /\ tool = [r \in Requests |-> AddTodo]
    /\ left = [r \in Requests |-> <<>>]
    /\ broke = {}

\* Goes on with the next breaker of deps, or else to end.
NextOf(r, deps, place, end) ==
    /\ left' = [left EXCEPT ![r] = IF deps = <<>> THEN <<>> ELSE Tail(deps)]
    /\ hdep' = [hdep EXCEPT ![r] = IF deps = <<>> THEN "embedding" ELSE Head(deps)]
    /\ hpc' = [hpc EXCEPT ![r] = IF deps = <<>> THEN end ELSE place]

CallTool(r) ==
    /\ hpc[r] = "idle"
    /\ \E t \in Tools :
          /\ tool' = [tool EXCEPT ![r] = t]
          /\ NextOf(r, t.checks, "check", "work")
    /\ UNCHANGED <<breakers, hanswer, broke>>

MayGoOn(r) ==
    /\ hpc[r] = "admitted"
    /\ NextOf(r, left[r], "check", "work")
    /\ UNCHANGED <<breakers, hanswer, tool, broke>>

Answered(r, a, reports) ==
    /\ hanswer' = [hanswer EXCEPT ![r] = IF reports = <<>> THEN "none" ELSE a]
    /\ tool' = [tool EXCEPT ![r] = AddTodo]
    /\ NextOf(r, reports, "store", "idle")
    /\ UNCHANGED breakers

\* A breaker is open: the tool fails at once, and reports nothing.
TurnedAway(r) ==
    /\ hpc[r] = "refused"
    /\ Answered(r, "none", <<>>)
    /\ UNCHANGED broke

\* An error, of the classes a dependency or the request itself may cause.
FailWith(r, error) ==
    LET blamed == Blamed(error) IN
    Answered(r, "unavailable", IF blamed = {} THEN <<>> ELSE <<CHOOSE d \in blamed : TRUE>>)

\* The tool does its work.
Work(r) ==
    /\ hpc[r] = "work"
    /\ \/ Answered(r, "ok", tool[r].reports) /\ UNCHANGED broke
       \/ /\ \E error \in RequestErrors : FailWith(r, error)
          /\ UNCHANGED broke
       \/ \E d \in tool[r].ends : \E error \in ErrorsOf(d) :
             /\ FailWith(r, error)
             /\ broke' = broke \cup {d}

NextReport(r) ==
    /\ hpc[r] = "reported"
    /\ Answered(r, hanswer[r], left[r])
    /\ UNCHANGED broke

ToolStep(r) ==
    \/ CallTool(r) \/ MayGoOn(r) \/ TurnedAway(r) \/ Work(r) \/ NextReport(r)
    \/ Breaker!BreakerStep(r) /\ UNCHANGED <<tool, left, broke>>

HealthNext ==
    \/ \E r \in Requests : ToolStep(r)
    \/ \E d \in ToolDeps : Breaker!Elapse(d) /\ UNCHANGED <<tool, left, broke>>

HealthSpec == HealthInit /\ [][HealthNext]_tvars

-----------------------------------------------------------------------------
(* Properties.                                                             *)

\* "Classify storage or embedding errors and report the dependency as failed": a
\* breaker is open, and /health has an error of its dependency, only if that very
\* dependency has failed; a request that is refused for its content, or the
\* failure of the other one, never closes a tool to everybody.
OwnFaultOnly ==
    \A d \in ToolDeps : hstate[d] # "healthy" \/ hnoted[d] => d \in broke

=============================================================================
