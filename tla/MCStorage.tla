----------------------------- MODULE MCStorage -----------------------------
(* TLC instance of one table's storage (Storage) and of the reads of all   *)
(* tables (Queries).  The two share no variable: a behaviour is of one of  *)
(* them.                                                                   *)
EXTENDS Storage, Queries
CONSTANTS w1, w2
MCWriters2 == {w1, w2}

VARIABLE side

MCUser == <<"user", "me">>
Row(t, tags, s) == [table |-> t, tags |-> tags, score |-> s]
MCStatuses == {"pending", "in_progress", "done", "cancelled"}
MCItems ==
    {Row("memories", {<<"user_id", MCUser>>}, 3), Row("memories", {<<"user_id", MCUser>>}, 1),
     Row("memories", {<<"user_id", <<"project", "App">>>>}, 2),
     Row("standards", {<<"standard_id", "cwe">>, <<"ref_ids", "79">>}, 2),
     Row("code", {<<"project", "App">>, <<"tech_stack", "rust">>}, 3),
     Row("code", {<<"project", "app">>, <<"tech_stack", "rust">>}, 2),
     Row("todos", {<<"project", "App">>, <<"status", "pending">>, <<"owner", "me">>}, 3),
     Row("todos", {<<"project", "App">>, <<"status", "done">>}, 2)}
MCLowerCase == [v \in {"App", "app", "rust", "cwe"} |-> IF v = "App" THEN "app" ELSE v]

Asks(tool, tables, given, limit) == [tool |-> tool, tables |-> tables, given |-> given, limit |-> limit]
G(name, value) == [n \in {name} |-> value]
MCQuestions ==
    {Asks("search", {"memories", "standards", "code"}, <<>>, 1), Asks("search", {"code", "todos"}, G("project", "App"), 2),
     Asks("search", {}, <<>>, 1), Asks("search", {"memories", "todos"}, G("user_id", MCUser), 1),
     Asks("search_memories", {"memories"}, <<>>, 1), Asks("get_memories", {"memories"}, <<>>, 1),
     Asks("count_memories", {"memories"}, <<>>, 1), Asks("list_collections", Collections, <<>>, 1),
     Asks("search_standards", {"standards"}, G("ref_id", "79"), 1),
     Asks("search_standards", {"standards"}, G("standard_id", "cwe"), 1),
     Asks("search_code", {"code"}, G("project", "app"), 1),
     Asks("search_code", {"code"}, G("project", "App"), 1),
     Asks("search_code", {"code"}, G("tech_stack", "rust"), 1),
     Asks("list_todos", {"todos"}, G("project", "App"), 1),
     Asks("list_todos", {"todos"}, [project |-> "App", owner |-> "blank"], 2),
     Asks("list_todos", {"todos"}, [project |-> "App", status |-> "finished"], 1),
     Asks("list_todos", {"todos"}, [project |-> "App", status |-> "pending"], 1)}
    \cup {Asks("tasks", {"todos"}, FilterState(pairs), 1) : pairs \in
            {{}, {<<"project", "">>, <<"status_filter_present", "1">>},
             {<<"status", "done">>, <<"status", "finished">>},
             {<<"project", "App">>, <<"status", "pending">>, <<"status", "done">>},
             {<<"project", "App">>, <<"project", "app">>}}}

MCInit ==
    /\ Init
    /\ \/ side = "storage" /\ there = {} /\ question = Asks("search", {}, <<>>, 1)
          /\ qpc = "idle" /\ changes = 0 /\ waiting = {} /\ pool = {} /\ failed = {}
          /\ capped = FALSE /\ page = {} /\ more = FALSE /\ steady = {}
       \/ side = "queries" /\ QueryInit
MCNext ==
    /\ UNCHANGED side
    /\ \/ side = "storage" /\ Next /\ UNCHANGED qvars
       \/ side = "queries" /\ QueryNext /\ UNCHANGED vars
MCSpec == MCInit /\ [][MCNext]_<<vars, qvars, side>> /\ Fairness
=============================================================================
