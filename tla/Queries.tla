------------------------------ MODULE Queries ------------------------------
(***************************************************************************)
(* The tools that read: search and the searches of one table (search.rs,   *)
(* serve.rs), lists and counts, and the task page of the web UI.           *)
(*                                                                         *)
(* A request turns what the caller gave into a filter per table, embeds    *)
(* the query if it has one, reads one row more than it may show, and says  *)
(* whether there was more.  search reads its tables side by side and goes  *)
(* on without a table that fails.  Nothing keeps writers away between two  *)
(* reads, and an upsert takes its row away before it puts it back.         *)
(*                                                                         *)
(* A row is [table, tags, score]: tags holds the columns and payload       *)
(* fields a filter can name, as pairs of a name and a value; score is its  *)
(* place in the order of the answer, by similarity or the display order of *)
(* todos.                                                                  *)
(***************************************************************************)
EXTENDS Integers, FiniteSets, FiniteSetsExt

CONSTANTS
    Items,          \* the rows there may be
    Questions,      \* the requests: [tool, tables, given, limit]
    LowerCase,      \* str::to_lowercase, a function on the values
    DefaultUser,    \* default_user_id of the configuration
    Statuses,       \* of todos
    Blank,          \* an owner of white space only
    ScanCap,        \* MAX_LIST_TODOS_SCAN, MAX_LIST_ALL_TODOS_SCAN
    MaxChanges      \* bound on the rows written while one request runs

KnownTables == <<"memories", "standards", "code", "todos">>
Collections == {KnownTables[i] : i \in 1..4}
ASSUME ItemsAssumption ==
    IsFiniteSet(Items) /\ \A r \in Items : r.table \in Collections /\ r.score \in Nat
ASSUME CapsAssumption  == ScanCap \in Nat \ {0} /\ MaxChanges \in Nat
ASSUME QuestionsAssumption ==
    \A q \in Questions : q.tables \subseteq Collections /\ q.limit \in Nat \ {0}

VARIABLES
    there,      \* the rows in the tables
    changes,    \* writes so far
    question,   \* the request being served
    qpc,        \* "idle", "embed", "projects", "read", "pick", "answered", "failed"
    waiting,    \* the tables still to read
    pool,       \* the rows read
    failed,     \* the tables whose read failed
    capped,     \* did the list reach its scan cap?
    page, more, \* the answer: its rows, has_more
    steady      \* history: the rows that were there ever since the request began

answer == <<page, more>>
qvars  == <<there, changes, question, qpc, waiting, pool, failed, capped, answer, steady>>

Least(m, n)    == IF m < n THEN m ELSE n
Some(rows, n)  == kSubset(Least(n, Cardinality(rows)), rows)

\* The n best of rows; among equals, any.  The nearest rows have the best scores.
Best(rows, n) == {s \in Some(rows, n) : \A r \in s, other \in rows \ s : r.score >= other.score}

Lists    == {"get_memories", "list_todos", "tasks"}
Counters == {"count_memories", "list_collections"}

-----------------------------------------------------------------------------
(* Faults.                                                                 *)

\* One row is fetched for every row shown.
FetchLimitExact(q) == q.limit

-----------------------------------------------------------------------------
(* Filters: the tags a row must have.                                      *)

As(q, names)      == {<<c, q.given[c]>> : c \in names \cap DOMAIN q.given}
Lowered(q, names) == {<<c, LowerCase[q.given[c]]>> : c \in names \cap DOMAIN q.given}

\* resolve_user_id: a user, else the one named after the project, else the default.
Owner(q) ==
    CASE "user_id" \in DOMAIN q.given -> q.given["user_id"]
      [] "user_id" \notin DOMAIN q.given /\ "project" \in DOMAIN q.given -> <<"project", q.given["project"]>>
      [] OTHER -> DefaultUser

MemoriesFilter(q)  == {<<"user_id", Owner(q)>>}
\* ref_id is looked for as a field of that name in the payload.
StandardsFilter(q) ==
    Lowered(q, {"standard_type", "standard_id"}) \cup As(q, {"tech_stack", "lang", "ref_id"})
CodeFilter(q)  == Lowered(q, {"project", "tech_stack"}) \cup As(q, {"file_path"})
TodosFilter(q) ==
    As(q, {"project", "status"}) \cup {tag \in As(q, {"owner"}) : tag[2] # Blank}
PageFilter(q)  == As(q, {"project"})

\* build_*_filter of search.rs.
UnifiedFilter(q, t) ==
    CASE t = "memories"  -> MemoriesFilter(q)
      [] t = "standards" -> As(q, {"standard_type", "standard_id"})
      [] t = "code"      -> As(q, {"project", "tech_stack", "file_path"})
      [] t = "todos"     -> As(q, {"project"})

Filter(q, t) ==
    CASE q.tool = "search"           -> UnifiedFilter(q, t)
      [] q.tool = "search_standards" -> StandardsFilter(q)
      [] q.tool = "search_code"      -> CodeFilter(q)
      [] q.tool = "list_todos"       -> TodosFilter(q)
      [] q.tool = "tasks"            -> PageFilter(q)
      [] q.tool = "list_collections" -> {}
      [] OTHER                       -> MemoriesFilter(q)

Matching(t) == {r \in there : r.table = t /\ Filter(question, t) \subseteq r.tags}

\* FilterState::from_pairs: what the query string of the task page asks for.  All
\* of it is ignored if a project or an order is given twice.
FilterState(pairs) ==
    LET values(name) == {p[2] : p \in {p \in pairs : p[1] = name}}
        kept     == \A name \in {"project", "sort"} : Cardinality(values(name)) < 2
        chosen   == values("status") \cap Statuses
        explicit == kept /\ (chosen # {} \/ "1" \in values("status_filter_present"))
        project  == IF kept THEN values("project") \ {""} ELSE {}
    IN  [c \in (IF explicit THEN {"statuses"} ELSE {}) \cup {"project" : v \in project} |->
            IF c = "statuses" THEN chosen ELSE CHOOSE v \in project : TRUE]

\* The task page sifts the statuses out of what it read; unless some were
\* chosen, done and cancelled todos are left out.
StatusesShown(q) ==
    IF "statuses" \in DOMAIN q.given THEN q.given["statuses"] ELSE Statuses \ {"done", "cancelled"}
Shown(q, rows) ==
    IF q.tool # "tasks" THEN rows
    ELSE {r \in rows : \E s \in StatusesShown(q) : <<"status", s>> \in r.tags}

FetchLimit(q) == q.limit + 1

-----------------------------------------------------------------------------
(* The request.                                                            *)

\* The rows of tables nobody asks about play no part.
QueryInit ==
    /\ question \in Questions
    /\ there \in SUBSET {r \in Items : r.table \in question.tables}
    /\ qpc = "idle" /\ changes = 0
    /\ waiting = {} /\ pool = {} /\ failed = {} /\ capped = FALSE
    /\ page = {} /\ more = FALSE /\ steady = {}

Misspelt(q) == q.tool = "list_todos" /\ "status" \in DOMAIN q.given /\ q.given["status"] \notin Statuses

\* The task page of one project.
OfProject(q) == q.tool = "tasks" /\ "project" \in DOMAIN q.given

\* A search of unknown collections only is answered without asking anybody.
Ask ==
    /\ qpc = "idle"
    /\ steady' = there
    /\ waiting' = question.tables
    /\ qpc' = IF question.tables = {} THEN "answered"
              ELSE IF Misspelt(question) THEN "failed"
              ELSE IF OfProject(question) THEN "projects"
              ELSE IF question.tool \in Lists \cup Counters THEN "read" ELSE "embed"
    /\ UNCHANGED <<there, changes, question, pool, failed, capped, answer>>

Embed ==
    /\ qpc = "embed"
    /\ qpc' \in {"read", "failed"}
    /\ UNCHANGED <<there, changes, question, waiting, pool, failed, capped, answer, steady>>

\* It first scans the todos of all projects, for the names of these.
ListProjects ==
    /\ qpc = "projects"
    /\ qpc' \in {"read", "failed"}
    /\ UNCHANGED <<there, changes, question, waiting, pool, failed, capped, answer, steady>>

Reading(t) ==
    /\ qpc = "read"
    /\ t \in waiting
    /\ waiting' = waiting \ {t}
    /\ qpc' = IF waiting' = {} THEN "pick" ELSE "read"
    /\ UNCHANGED <<there, changes, question, answer, steady>>

\* VectorStore::search: the nearest rows.
Nearest(t) ==
    /\ Reading(t)
    /\ \E rows \in Best(Matching(t), FetchLimit(question)) : pool' = pool \cup rows
    /\ UNCHANGED <<failed, capped>>

\* VectorStore::scroll: any rows up to n, in the order of the store.
Scroll(t, n) ==
    /\ Reading(t)
    /\ pool' \in Some(Matching(t), n)
    /\ UNCHANGED failed

SearchMemories  == question.tool = "search_memories" /\ Nearest("memories")
SearchStandards == question.tool = "search_standards" /\ Nearest("standards")
SearchCode      == question.tool = "search_code" /\ Nearest("code")
UnifiedSearch   == question.tool = "search" /\ \E t \in waiting : Nearest(t)

GetMemories ==
    /\ question.tool = "get_memories"
    /\ Scroll("memories", FetchLimit(question))
    /\ UNCHANGED capped

\* list_collections goes from table to table.
InTurn(t) ==
    question.tool = "list_collections" =>
        \A i, j \in 1..4 : KnownTables[i] = t /\ KnownTables[j] \in waiting => i <= j

\* count_memories, and list_collections table by table.
Count ==
    /\ question.tool \in Counters
    /\ \E t \in waiting : InTurn(t) /\ Reading(t) /\ pool' = pool \cup Matching(t)
    /\ UNCHANGED <<failed, capped>>

\* todo::list_todos: a scan up to the cap; then the todos are ordered.
ListTodos ==
    /\ question.tool = "list_todos" \/ OfProject(question)
    /\ Scroll("todos", ScanCap)
    /\ capped' = (Cardinality(Matching("todos")) >= ScanCap)

\* todo::list_all_todos: the same of every project.
ListAllTodos ==
    /\ question.tool = "tasks" /\ ~OfProject(question)
    /\ Scroll("todos", ScanCap)
    /\ capped' = (Cardinality(Matching("todos")) >= ScanCap)

\* A collection that fails is left out of a search over several, and of the
\* list of collections; it is the end of any other request.
ReadFails(t) ==
    /\ InTurn(t)
    /\ IF question.tool \in {"search", "list_collections"}
       THEN Reading(t)
       ELSE /\ qpc = "read" /\ t \in waiting
            /\ qpc' = "failed"
            /\ UNCHANGED <<there, changes, question, waiting, answer, steady>>
    /\ failed' = failed \cup {t}
    /\ UNCHANGED <<pool, capped>>

\* What was read is merged, ordered and cut to the limit; get_memories shows it
\* in the order of the store.
Pick ==
    LET rows == Shown(question, pool) IN
    /\ qpc = "pick"
    /\ page' \in CASE question.tool \in Counters -> {rows}
                   [] question.tool = "get_memories" -> Some(rows, question.limit)
                   [] OTHER -> Best(rows, question.limit)
    /\ more' = (question.tool \notin Counters \cup {"tasks"} /\ Cardinality(rows) > question.limit)
    /\ qpc' = "answered"
    /\ UNCHANGED <<there, changes, question, waiting, pool, failed, capped, steady>>

Query ==
    \/ Ask \/ Embed \/ ListProjects \/ Pick
    \/ SearchMemories \/ SearchStandards \/ SearchCode \/ UnifiedSearch
    \/ GetMemories \/ Count \/ ListTodos \/ ListAllTodos
    \/ \E t \in Collections : ReadFails(t)

-----------------------------------------------------------------------------
(* Everybody else.  An upsert is a Remove and a Put.                       *)

Serving == qpc \in {"embed", "projects", "read", "pick"}

Put(r) ==
    /\ Serving /\ changes < MaxChanges
    /\ r \notin there /\ r.table \in question.tables
    /\ there' = there \cup {r}
    /\ changes' = changes + 1
    /\ UNCHANGED <<question, qpc, waiting, pool, failed, capped, answer, steady>>

Remove(r) ==
    /\ Serving /\ changes < MaxChanges
    /\ r \in there
    /\ there' = there \ {r}
    /\ steady' = steady \ {r}
    /\ changes' = changes + 1
    /\ UNCHANGED <<question, qpc, waiting, pool, failed, capped, answer>>

QueryNext == Query \/ \E r \in Items : Put(r) \/ Remove(r)
QuerySpec == QueryInit /\ [][QueryNext]_qvars

-----------------------------------------------------------------------------
(* Properties.                                                             *)

AskedFor(r) ==
    /\ r.table \in question.tables \ failed
    /\ Filter(question, r.table) \subseteq r.tags
    /\ r \in Shown(question, {r})

\* "A globally ranked page and its candidate-pool continuation indicator": a row
\* that was there all along, that the filters ask for and whose table was read,
\* is on the page; or the page is full, the caller is told that there is more,
\* and nothing on a ranked page ranks below that row.  Writers come and go
\* between the reads.  A count misses no such row.  Only a list that reached its
\* scan cap "can silently omit" one.
PageIsTop ==
    qpc = "answered" /\ ~capped =>
        \A r \in steady \ page :
            AskedFor(r) =>
                /\ question.tool \notin Counters
                /\ Cardinality(page) = question.limit
                /\ question.tool # "tasks" => more
                /\ question.tool # "get_memories" => \A s \in page : s.score >= r.score

\* "Search indexed code snippets with project/file/stack filters", "Search indexed
\* standards (CWE, OWASP, etc.) with advanced filters": what was indexed under the
\* very values the caller filters by is found.
FoundByItsNames ==
    qpc = "answered" /\ question.tool \in {"search_code", "search_standards"} =>
        \A r \in steady \ page :
            (\A c \in DOMAIN question.given :
                <<c, question.given[c]>> \in r.tags
                    \/ (c = "ref_id" /\ <<"ref_ids", question.given[c]>> \in r.tags))
            => more
=============================================================================
