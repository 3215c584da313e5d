------------------------------- MODULE Memory -------------------------------
(***************************************************************************)
(* The memory tools (serve.rs) and the memory pipeline (pipeline.rs) on    *)
(* one LanceDB table.                                                      *)
(*                                                                         *)
(* add_memory has the LLM extract facts from a text, chunk by chunk, looks *)
(* for the user's similar memories, asks the LLM what to do with each fact *)
(* and carries that out.  update_memory resolves an ID and reads the old   *)
(* row in its handler, and writes the new one in a task that may start     *)
(* much later.  delete_memory resolves and deletes in its handler.         *)
(* Nothing locks a memory; the tasks only share the permits of             *)
(* llm_semaphore.  VectorStore::upsert deletes and then adds.              *)
(***************************************************************************)
EXTENDS Naturals, FiniteSets

CONSTANTS
    Ids,            \* the IDs UUIDs are drawn from
    Users,          \* the scopes: user_id or project:<name>
    Initial,        \* the rows there at the start, one under each of their IDs
    Texts,          \* contents and facts
    Chunks,         \* Chunks[t]: the chunks a content is split into
    Refs, Names,    \* what callers pass as memory_id; Names[ref]: the IDs it begins
    Reqs, Calls,    \* the requests and what they may ask
    Answers,        \* what the deduplicating LLM may answer
    Distill,        \* config.distill_memories
    DeleteMayFail,  \* may the delete in an upsert fail?  Its error is ignored
    Permits,        \* llm_semaphore
    MaxCrashes      \* bound on the process crashes explored

Anyone == "any scope"
Before == "before"
NoId   == "no id"
NoText == "no text"
Row    == [owner : Users, born : Reqs \cup {Before}, text : Texts]
Birth  == [owner : Users, born : Reqs \cup {Before}]
BirthOf(row) == [owner |-> row.owner, born |-> row.born]
Call   == [op : {"add"}, user : Users, text : Texts]
          \cup [op : {"update"}, ref : Refs, scope : Users \cup {Anyone}, text : Texts]
          \cup [op : {"delete"}, ref : Refs, scope : Users \cup {Anyone}]
\* What the LLM may want done with a fact; it may make IDs up.
Event  == [type : {"ADD", "NONE"}] \cup [type : {"UPDATE", "DELETE"}, id : Ids]

ASSUME MemoryAssumption ==
    /\ NoId \notin Ids /\ Before \notin Reqs
    /\ Ids \subseteq Refs /\ Names \in [Refs -> SUBSET Ids]
    /\ \A id \in Ids : Names[id] = {id}
    /\ DOMAIN Initial \subseteq Ids
    /\ Initial \in [DOMAIN Initial -> {row \in Row : row.born = Before}]
    /\ Chunks \in [Texts -> Nat \ {0}]
    /\ Calls \subseteq Call /\ Answers \subseteq SUBSET Event
    /\ Distill \in BOOLEAN /\ DeleteMayFail \in BOOLEAN
    /\ Permits \in Nat \ {0} /\ MaxCrashes \in Nat

VARIABLES
    rows,       \* the table: the rows stored under each ID
    birth,      \* history: the owner and created_at each ID was given, if any
    gone,       \* history: the IDs a delete_memory removed
    pc, call,   \* per request: where it is, what it asks
    target,     \*   the ID it acts on
    seen,       \*   the rows it read: the user's, or the one it updates
    chunk,      \*   chunks still to extract
    facts,      \*   facts still to deduplicate
    fact,       \*   the text it is storing
    events,     \*   what the LLM answered and is still to be done
    warned,     \*   a warning was recorded
    outcome,    \*   its reply, or what its status says
    stale,      \* history: the IDs deleted since it read them
    crashes

table   == <<rows, birth, gone>>
plan    == <<chunk, facts, fact, events>>
vars    == <<table, pc, call, target, seen, plan, warned, outcome, stale, crashes>>

Nothing == [id \in Ids |-> {}]
NoCall  == [op |-> "none"]

Init ==
    /\ rows = [id \in Ids |-> IF id \in DOMAIN Initial THEN {Initial[id]} ELSE {}]
    /\ birth = [id \in Ids |-> IF id \in DOMAIN Initial THEN {BirthOf(Initial[id])} ELSE {}]
    /\ gone = {}
    /\ pc = [r \in Reqs |-> "idle"]
    /\ call = [r \in Reqs |-> NoCall]
    /\ target = [r \in Reqs |-> NoId]
    /\ seen = [r \in Reqs |-> Nothing]
    /\ chunk = [r \in Reqs |-> 0]
    /\ facts = [r \in Reqs |-> {}]
    /\ fact = [r \in Reqs |-> NoText]
    /\ events = [r \in Reqs |-> {}]
    /\ warned = [r \in Reqs |-> FALSE]
    /\ outcome = [r \in Reqs |-> "none"]
    /\ stale = [r \in Reqs |-> {}]
    /\ crashes = 0

-----------------------------------------------------------------------------

Created == {id \in Ids : birth[id] # {}}
Running == {r \in Reqs : pc[r] \in {"extract", "raw", "search", "decide", "apply", "gap"}}

\* The request is over, its locals are gone.
End(r, how) ==
    /\ outcome' = [outcome EXCEPT ![r] = how]
    /\ pc' = [pc EXCEPT ![r] = "done"]
    /\ seen' = [seen EXCEPT ![r] = Nothing]
    /\ facts' = [facts EXCEPT ![r] = {}]
    /\ events' = [events EXCEPT ![r] = {}]
    /\ UNCHANGED <<chunk, fact>>

Go(r, where) == pc' = [pc EXCEPT ![r] = where]
Stays == UNCHANGED <<seen, facts, events, chunk, fact, outcome>>

\* A fresh ID and its row.
NewRow(r, owner, text) ==
    \E id \in Ids \ Created :
        /\ rows' = [rows EXCEPT ![id] = @ \cup {[owner |-> owner, born |-> r, text |-> text]}]
        /\ birth' = [birth EXCEPT ![id] = {[owner |-> owner, born |-> r]}]
        /\ UNCHANGED gone

Several(r) == Chunks[call[r].text] > 1
Completed(r) == IF warned[r] THEN "completed_degraded" ELSE "completed"
Drop(r, e) == events' = [events EXCEPT ![r] = @ \ {e}]

-----------------------------------------------------------------------------
(* Faults.                                                                 *)

\* The search without its user filter.
SearchAnyScope(r) ==
    /\ pc[r] = "search"
    /\ \E f \in facts[r] :
          /\ fact' = [fact EXCEPT ![r] = f]
          /\ facts' = [facts EXCEPT ![r] = @ \ {f}]
    /\ seen' = [seen EXCEPT ![r] = rows]
    /\ Go(r, "decide")
    /\ UNCHANGED <<table, call, target, chunk, events, warned, outcome, stale, crashes>>

\* update_memory without the early return for a memory that is gone: an empty
\* payload, and with it the default user.
GetUnchecked(r) ==
    LET id == target[r]
        default == [owner |-> CHOOSE u \in Users : TRUE, born |-> Before, text |-> call[r].text]
    IN
    /\ pc[r] = "get"
    /\ \E row \in rows[id] \cup {default} :
          /\ row \in rows[id] \/ rows[id] = {}
          /\ seen' = [seen EXCEPT ![r] = [Nothing EXCEPT ![id] = {row}]]
    /\ Go(r, "queued")
    /\ UNCHANGED <<plan, outcome, table, call, target, warned, stale, crashes>>

\* created_at is set anew, as in an ADD.
UpsertAddRestamps(r) ==
    LET id == target[r] IN
    /\ pc[r] = "gap"
    /\ \E row \in seen[r][id] :
          rows' = [rows EXCEPT ![id] = @ \cup
                     {[owner |-> row.owner, born |-> r, text |-> fact[r]]}]
    /\ Drop(r, [type |-> "UPDATE", id |-> id])
    /\ Go(r, "apply")
    /\ UNCHANGED <<birth, gone, call, target, seen, chunk, facts, fact, warned, outcome, stale, crashes>>

\* An error that is logged and not reported.
FailUnreported(r) ==
    /\ pc[r] \notin {"idle", "done", "queued"}
    /\ End(r, Completed(r))
    /\ UNCHANGED <<table, call, target, warned, stale, crashes>>

-----------------------------------------------------------------------------
(* The handlers.                                                           *)

\* A call arrives.  (That its slot in the queue may be refused is TaskQueue's.)
Start(r) ==
    /\ pc[r] = "idle"
    /\ \E c \in Calls :
          /\ call' = [call EXCEPT ![r] = c]
          /\ Go(r, IF c.op = "add" THEN "queued" ELSE "exact")
    /\ UNCHANGED <<table, target, warned, stale, crashes>> /\ Stays

Resolved(r, id) ==
    /\ target' = [target EXCEPT ![r] = id]
    /\ Go(r, IF call[r].op = "update" THEN "get" ELSE "delete")
    /\ Stays

\* resolve_id: an exact ID matches in any scope ...
Exact(r) ==
    /\ pc[r] = "exact"
    /\ \/ call[r].ref \in Ids /\ rows[call[r].ref] # {} /\ Resolved(r, call[r].ref)
       \/ /\ ~(call[r].ref \in Ids /\ rows[call[r].ref] # {})
          /\ Go(r, "prefix") /\ UNCHANGED target /\ Stays
    /\ UNCHANGED <<table, call, warned, stale, crashes>>

\* ... a prefix only in the scope that was given, and only if one ID has it.
Prefix(r) ==
    LET ids == {id \in Ids \cap Names[call[r].ref] :
                   \E row \in rows[id] : call[r].scope \in {Anyone, row.owner}}
    IN
    /\ pc[r] = "prefix"
    /\ \/ \E id \in ids : ids = {id} /\ Resolved(r, id)
       \/ Cardinality(ids) # 1 /\ End(r, "refused") /\ UNCHANGED target
    /\ UNCHANGED <<table, call, warned, stale, crashes>>

\* update_memory reads the row, which may be gone by now, and queues its task.
Get(r) ==
    LET id == target[r] IN
    /\ pc[r] = "get"
    /\ \/ /\ \E row \in rows[id] : seen' = [seen EXCEPT ![r] = [Nothing EXCEPT ![id] = {row}]]
          /\ Go(r, "queued")
          /\ UNCHANGED <<plan, outcome>>
       \/ rows[id] = {} /\ End(r, "refused")
    /\ UNCHANGED <<table, call, target, warned, stale, crashes>>

\* delete_memory deletes what it resolved, there or not, and answers "deleted".
Delete(r) ==
    LET id == target[r] IN
    /\ pc[r] = "delete"
    /\ rows' = [rows EXCEPT ![id] = {}]
    /\ gone' = gone \cup {id}
    /\ stale' = [w \in Reqs |-> IF seen[w][id] # {} THEN stale[w] \cup {id} ELSE stale[w]]
    /\ End(r, "deleted")
    /\ UNCHANGED <<birth, call, target, warned, crashes>>

-----------------------------------------------------------------------------
(* The tasks.                                                              *)

\* sem.acquire().  An update goes straight to its write.
Acquire(r) ==
    /\ pc[r] = "queued"
    /\ Cardinality(Running) < Permits
    /\ \/ /\ call[r].op = "update"
          /\ Go(r, "apply")
          /\ events' = [events EXCEPT ![r] = {[type |-> "UPDATE", id |-> target[r]]}]
          /\ fact' = [fact EXCEPT ![r] = call[r].text]
          /\ UNCHANGED chunk
       \/ /\ call[r].op = "add"
          /\ Go(r, IF Distill THEN "extract" ELSE "raw")
          /\ chunk' = [chunk EXCEPT ![r] = Chunks[call[r].text]]
          /\ UNCHANGED <<events, fact>>
    /\ UNCHANGED <<table, call, target, seen, facts, warned, outcome, stale, crashes>>

\* After the last chunk: no fact at all is an answer for a single chunk and a
\* failure for several.
AfterChunk(r, found) ==
    /\ facts' = [facts EXCEPT ![r] = found]
    /\ chunk' = [chunk EXCEPT ![r] = @ - 1]
    /\ Go(r, IF chunk[r] > 1 THEN "extract"
             ELSE IF found = {} /\ Several(r) THEN "raw" ELSE "search")
    /\ warned' = [warned EXCEPT ![r] = @ \/ (chunk[r] = 1 /\ found = {} /\ Several(r))]
    /\ UNCHANGED <<seen, fact, events, outcome>>

\* extract_facts for one chunk: facts; or an unparseable reply or an LLM error,
\* which costs one of several chunks and sends a single one to the raw store.
Extract(r) ==
    /\ pc[r] = "extract"
    /\ \/ \E found \in SUBSET Texts : AfterChunk(r, facts[r] \cup found)
       \/ Several(r) /\ AfterChunk(r, facts[r])
       \/ /\ ~Several(r)
          /\ warned' = [warned EXCEPT ![r] = TRUE]
          /\ Go(r, "raw") /\ Stays
    /\ UNCHANGED <<table, call, target, stale, crashes>>

\* store_raw: the text as it is.
StoreRaw(r) ==
    /\ pc[r] = "raw"
    /\ NewRow(r, call[r].user, call[r].text)
    /\ End(r, Completed(r))
    /\ UNCHANGED <<call, target, warned, stale, crashes>>

\* The next fact: the user's memories that are most like it.
Search(r) ==
    /\ pc[r] = "search"
    /\ \E f \in facts[r] :
          /\ fact' = [fact EXCEPT ![r] = f]
          /\ facts' = [facts EXCEPT ![r] = @ \ {f}]
    /\ seen' = [seen EXCEPT ![r] =
                  [id \in Ids |-> {row \in rows[id] : row.owner = call[r].user}]]
    /\ Go(r, "decide")
    /\ UNCHANGED <<table, call, target, chunk, events, warned, outcome, stale, crashes>>

\* run_dedup_llm; when it fails the fact is added.
Decide(r) ==
    /\ pc[r] = "decide"
    /\ \/ /\ \E es \in Answers : events' = [events EXCEPT ![r] = es]
          /\ UNCHANGED warned
       \/ /\ events' = [events EXCEPT ![r] = {[type |-> "ADD"]}]
          /\ warned' = [warned EXCEPT ![r] = TRUE]
    /\ Go(r, "apply")
    /\ UNCHANGED <<table, call, target, seen, chunk, facts, fact, outcome, stale, crashes>>

\* "memory_id not in search results, skipping"
Known(r, e) == e.type \in {"UPDATE", "DELETE"} /\ seen[r][e.id] # {}

ApplyAdd(r) ==
    /\ pc[r] = "apply"
    /\ \E e \in events[r] : e.type = "ADD" /\ Drop(r, e)
    /\ NewRow(r, call[r].user, fact[r])
    /\ UNCHANGED <<pc, call, target, seen, chunk, facts, fact, warned, outcome, stale, crashes>>

\* upsert's delete, after which it adds even if this failed; the event stays until
\* the add.
ApplyUpdate(r) ==
    /\ pc[r] = "apply"
    /\ \E e \in events[r] :
          /\ e.type = "UPDATE" /\ Known(r, e)
          /\ \/ rows' = [rows EXCEPT ![e.id] = {}]
             \/ DeleteMayFail /\ UNCHANGED rows
          /\ target' = [target EXCEPT ![r] = e.id]
    /\ Go(r, "gap")
    /\ UNCHANGED <<birth, gone, call, warned, stale, crashes>> /\ Stays

\* upsert's add: the owner is the caller's for a fact and the old row's for
\* update_memory; created_at is the old row's for both.
UpsertAdd(r) ==
    LET id == target[r] IN
    /\ pc[r] = "gap"
    /\ \E row \in seen[r][id] :
          rows' = [rows EXCEPT ![id] = @ \cup
                     {[owner |-> IF call[r].op = "add" THEN call[r].user ELSE row.owner,
                       born |-> row.born, text |-> fact[r]]}]
    /\ Drop(r, [type |-> "UPDATE", id |-> id])
    /\ Go(r, "apply")
    /\ UNCHANGED <<birth, gone, call, target, seen, chunk, facts, fact, warned, outcome, stale, crashes>>

ApplyDelete(r) ==
    /\ pc[r] = "apply"
    /\ \E e \in events[r] :
          /\ e.type = "DELETE" /\ Known(r, e)
          /\ rows' = [rows EXCEPT ![e.id] = {}]
          /\ Drop(r, e)
    /\ UNCHANGED <<birth, gone, pc, call, target, seen, chunk, facts, fact, warned, outcome, stale, crashes>>

ApplyNothing(r) ==
    /\ pc[r] = "apply"
    /\ \E e \in events[r] :
          /\ e.type = "NONE" \/ (e.type \in {"UPDATE", "DELETE"} /\ ~Known(r, e))
          /\ Drop(r, e)
    /\ UNCHANGED <<table, pc, call, target, seen, chunk, facts, fact, warned, outcome, stale, crashes>>

\* All events are done: the next fact, or complete().
NextFact(r) ==
    /\ pc[r] = "apply" /\ events[r] = {} /\ facts[r] # {}
    /\ Go(r, "search")
    /\ UNCHANGED <<table, call, target, warned, stale, crashes>> /\ Stays

Complete(r) ==
    /\ pc[r] \in {"apply", "search"} /\ events[r] = {} /\ facts[r] = {}
    /\ End(r, Completed(r))
    /\ UNCHANGED <<table, call, target, warned, stale, crashes>>

\* A call to the store, the embedder or, other than in an LLM error, the LLM
\* fails: the handler answers an error or the task reports "failed".
Fail(r) ==
    /\ pc[r] \notin {"idle", "done", "queued"}
    /\ End(r, "failed")
    /\ UNCHANGED <<table, call, target, warned, stale, crashes>>

\* The process dies: requests and tasks are gone, the table stays.
Crash ==
    /\ crashes < MaxCrashes
    /\ crashes' = crashes + 1
    /\ pc' = [r \in Reqs |-> IF pc[r] = "idle" THEN "idle" ELSE "done"]
    /\ seen' = [r \in Reqs |-> Nothing]
    /\ facts' = [r \in Reqs |-> {}]
    /\ events' = [r \in Reqs |-> {}]
    /\ UNCHANGED <<table, call, target, chunk, fact, warned, outcome, stale>>

-----------------------------------------------------------------------------

Step(r) ==
    \/ Exact(r) \/ Prefix(r) \/ Get(r) \/ Delete(r)
    \/ Acquire(r) \/ Extract(r) \/ StoreRaw(r) \/ Search(r) \/ Decide(r)
    \/ ApplyAdd(r) \/ ApplyUpdate(r) \/ UpsertAdd(r) \/ ApplyDelete(r) \/ ApplyNothing(r)
    \/ NextFact(r) \/ Complete(r)
    \/ Fail(r)

Next == Crash \/ \E r \in Reqs : Start(r) \/ Step(r)
Spec == Init /\ [][Next]_vars

-----------------------------------------------------------------------------
(* Properties.                                                             *)

Phases == {"idle", "exact", "prefix", "get", "delete", "queued", "extract", "raw",
           "search", "decide", "apply", "gap", "done"}
Outcomes == {"none", "refused", "deleted", "failed", "completed", "completed_degraded"}

TypeOK ==
    /\ rows \in [Ids -> SUBSET Row]
    /\ birth \in [Ids -> SUBSET Birth]
    /\ gone \subseteq Ids
    /\ pc \in [Reqs -> Phases]
    /\ call \in [Reqs -> Calls \cup {NoCall}]
    /\ target \in [Reqs -> Ids \cup {NoId}]
    /\ seen \in [Reqs -> [Ids -> SUBSET Row]]
    /\ chunk \in [Reqs -> Nat]
    /\ facts \in [Reqs -> SUBSET Texts]
    /\ fact \in [Reqs -> Texts \cup {NoText}]
    /\ events \in [Reqs -> SUBSET Event]
    /\ warned \in [Reqs -> BOOLEAN]
    /\ outcome \in [Reqs -> Outcomes]
    /\ stale \in [Reqs -> SUBSET Ids]
    /\ crashes \in 0..MaxCrashes

\* A memory never changes hands and never forgets when it was created, whoever
\* updates it, with whatever IDs the LLM makes up, and however updates, deletes
\* and deduplication overlap.
IdentityKept ==
    \A id \in Ids : \A row \in rows[id] : birth[id] = {BirthOf(row)}

\* "in search results": what an add_memory changes belongs to its own user.
DedupStaysInScope ==
    [][\A r \in Reqs : (ApplyAdd(r) \/ ApplyUpdate(r) \/ UpsertAdd(r) \/ ApplyDelete(r))
          /\ call[r].op = "add" =>
             \A id \in Ids : rows'[id] # rows[id] => \A b \in birth'[id] : b.owner = call[r].user]_vars

\* The memory as its owner knows it: between the halves of an upsert, the row
\* that will be written again.
Pending(id) == {r \in Reqs : pc[r] = "gap" /\ target[r] = id}
Logical(id) == rows[id] \cup UNION {seen[r][id] : r \in Pending(id)}

\* A memory disappears only in a delete_memory, by a decision of the LLM for its
\* own user, in an update reported as failed, or when the process dies.
NoSilentLoss ==
    [][\A id \in Ids : Logical(id) # {} /\ Logical(id)' = {} =>
          \/ crashes' # crashes
          \/ \E r \in Reqs : \/ outcome[r] = "none" /\ outcome'[r] \in {"deleted", "failed"}
                                /\ target[r] = id
                             \/ call[r].op = "add" /\ (\A b \in birth[id] : b.owner = call[r].user)
                                /\ [type |-> "DELETE", id |-> id] \in events[r] \ events'[r]]_vars

\* A deleted memory comes back only through a request that had read it before.
BackOnlyByStaleWriter ==
    \A id \in gone : rows[id] # {} => \E r \in Reqs : id \in stale[r]

\* "Existing IDs are overwritten."
OneRowPerId == \A id \in Ids : Cardinality(rows[id]) <= 1

=============================================================================
