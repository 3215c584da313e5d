----------------------------- MODULE TodoStore -----------------------------
(***************************************************************************)
(* The todo tools of memcan-core (todo.rs) on a LanceDB table.             *)
(*                                                                         *)
(* add_todo, update_todo (and complete_todo, an update to "done"),         *)
(* delete_todo and get_todo run concurrently, one request of Reqs each.    *)
(* Writers serialize on sharded locks, first on the shard of the reference *)
(* the caller gave, then, when that is a short-ID prefix, on the shard of  *)
(* the ID it resolved to; at most one lock is held at a time.  Readers and *)
(* prefix resolution take no lock.  VectorStore::upsert is not atomic: it  *)
(* deletes the row and then adds the new one.                              *)
(*                                                                         *)
(* A reference that is no ID with this exact spelling is a prefix to the    *)
(* code: a short ID, or a full one in upper case.                          *)
(***************************************************************************)
EXTENDS TodoData, Integers, Sequences, FiniteSets

CONSTANTS
    Ids,            \* the IDs UUIDs are drawn from
    Existing,       \* the todos there at the start
    Initial,        \* the rows they may have then
    Refs,           \* what callers pass as todo_id: IDs and prefixes of IDs
    Names,          \* Names[ref]: the IDs that start with ref
    Shards,         \* the shards of TodoWriteLocks
    ShardOf,        \* the shard a reference hashes to
    Reqs,           \* the requests
    Calls,          \* what they may ask
    DeleteMayFail,  \* may the delete in an upsert fail?  Its error is ignored
    MaxCrashes      \* bound on the process crashes explored

NoChange == "no change"
NoId     == "no id"
Call == [op : {"update"}, ref : Refs, change : Change]
        \cup [op : {"delete", "get"}, ref : Refs, change : {NoChange}]
        \cup [op : {"add"}, ref : {NoId}, change : [field : {"title"}, to : Titles]]

ASSUME RefsAssumption ==
    /\ Existing \subseteq Ids /\ Ids \subseteq Refs
    /\ Names \in [Refs -> SUBSET Ids]
    /\ \A id \in Ids : Names[id] = {id}
    /\ ShardOf \in [Refs -> Shards]
ASSUME RowsAssumption ==
    /\ Initial \subseteq {row \in Row : StampMatchesStatus(row)}
    /\ Reqs \subseteq Stamps
ASSUME CallsAssumption ==
    /\ Calls \subseteq Call
    /\ DeleteMayFail \in BOOLEAN
    /\ MaxCrashes \in Nat

VARIABLES
    rows,       \* the table: the rows stored under each ID
    created,    \* the IDs ever given out
    queue,      \* per shard: the requests holding (first) or awaiting its lock
    pc, call,   \* per request: where it is, what it asks
    target,     \*   the ID it acts on
    snap,       \*   the row it read: {} or {row}
    reply,      \*   how it was answered
    crashes

request == <<call, target, snap, reply>>
vars    == <<rows, created, queue, pc, request, crashes>>

NoCall == [op |-> "none", ref |-> NoId, change |-> NoChange]

Init ==
    /\ rows \in [Ids -> {{}} \cup {{row} : row \in Initial}]
    /\ \A id \in Ids : rows[id] # {} <=> id \in Existing
    /\ created = Existing
    /\ queue = [s \in Shards |-> <<>>]
    /\ pc = [r \in Reqs |-> "idle"]
    /\ call = [r \in Reqs |-> NoCall]
    /\ target = [r \in Reqs |-> NoId]
    /\ snap = [r \in Reqs |-> {}]
    /\ reply = [r \in Reqs |-> "none"]
    /\ crashes = 0

-----------------------------------------------------------------------------
(* Locks: tokio mutexes, first come first served.                          *)

Enqueue(q, r, ref) == [q EXCEPT ![ShardOf[ref]] = Append(@, r)]
First(r, q)        == q # <<>> /\ Head(q) = r
Holds(r, ref)      == First(r, queue[ShardOf[ref]])
\* The guard r holds is dropped: the next in line gets the lock.
Release(q, r)      == [s \in Shards |-> IF First(r, q[s]) THEN Tail(q[s]) ELSE q[s]]

\* The IDs a lookup by prefix finds in the table now.
Found(ref) == {id \in Names[ref] : rows[id] # {}}

\* The request is over and its locals are gone.
Answer(r, what) ==
    /\ reply' = [reply EXCEPT ![r] = what]
    /\ snap' = [snap EXCEPT ![r] = {}]
    /\ pc' = [pc EXCEPT ![r] = "done"]

Fresh(title) == [title |-> title, status |-> "pending", done |-> NoStamp]

-----------------------------------------------------------------------------
(* Faults.                                                                 *)

\* exact_guard is kept while the prefix is resolved and the second lock awaited.
ExactKeepsGuard(r) ==
    LET ref == call[r].ref IN
    /\ pc[r] = "exact"
    /\ Holds(r, ref)
    /\ IF ref \in Ids /\ rows[ref] # {}
       THEN /\ \E row \in rows[ref] : snap' = [snap EXCEPT ![r] = {row}]
            /\ target' = [target EXCEPT ![r] = ref]
            /\ pc' = [pc EXCEPT ![r] = "apply"]
       ELSE pc' = [pc EXCEPT ![r] = "resolve"] /\ UNCHANGED <<target, snap>>
    /\ UNCHANGED <<rows, created, queue, call, reply, crashes>>

\* "let _ = lock(..)" for "let _write_guard = lock(..)": released at once.
AgainDropsGuard(r) ==
    LET id == target[r] IN
    /\ pc[r] = "again"
    /\ Holds(r, id)
    /\ \E row \in rows[id] : snap' = [snap EXCEPT ![r] = {row}]
    /\ pc' = [pc EXCEPT ![r] = "apply"]
    /\ queue' = Release(queue, r)
    /\ UNCHANGED <<rows, created, call, target, reply, crashes>>

\* The error of the upsert's add is swallowed like that of its delete.
FailSwallowed(r) ==
    /\ pc[r] \notin {"idle", "done"}
    /\ pc[r] = "exact" => Holds(r, call[r].ref)
    /\ pc[r] = "again" => Holds(r, target[r])
    /\ Answer(r, IF pc[r] = "gap" THEN "ok" ELSE "error")
    /\ queue' = Release(queue, r)
    /\ UNCHANGED <<rows, created, call, target, crashes>>

-----------------------------------------------------------------------------
(* Requests.                                                               *)

\* A request arrives.  Writers of an existing todo queue for the lock of the
\* reference as given.
Start(r) ==
    /\ pc[r] = "idle"
    /\ \E c \in Calls :
          /\ call' = [call EXCEPT ![r] = c]
          /\ \/ /\ c.op \in {"update", "delete"}
                /\ queue' = Enqueue(queue, r, c.ref)
                /\ pc' = [pc EXCEPT ![r] = "exact"]
             \/ /\ c.op = "get"
                /\ pc' = [pc EXCEPT ![r] = "read_exact"]
                /\ UNCHANGED queue
             \/ /\ c.op = "add"
                /\ pc' = [pc EXCEPT ![r] = "insert"]
                /\ UNCHANGED queue
    /\ UNCHANGED <<rows, created, target, snap, reply, crashes>>

\* Under the lock of the reference: a todo with exactly this ID is acted on,
\* otherwise exact_guard is dropped and the reference taken for a prefix.
Exact(r) ==
    LET ref == call[r].ref IN
    /\ pc[r] = "exact"
    /\ Holds(r, ref)
    /\ \/ /\ ref \in Ids /\ rows[ref] # {}
          /\ \E row \in rows[ref] : snap' = [snap EXCEPT ![r] = {row}]
          /\ target' = [target EXCEPT ![r] = ref]
          /\ pc' = [pc EXCEPT ![r] = "apply"]
          /\ UNCHANGED queue
       \/ /\ ~(ref \in Ids /\ rows[ref] # {})
          /\ queue' = Release(queue, r)
          /\ pc' = [pc EXCEPT ![r] = "resolve"]
          /\ UNCHANGED <<target, snap>>
    /\ UNCHANGED <<rows, created, call, reply, crashes>>

\* resolve_todo_prefix, without a lock; on a match queue for the lock of the ID.
Resolve(r) ==
    LET ids == Found(call[r].ref) IN
    /\ pc[r] = "resolve"
    /\ \/ /\ ids = {}
          /\ Answer(r, "not_found")
          /\ UNCHANGED <<queue, target>>
       \/ /\ Cardinality(ids) > 1
          /\ Answer(r, "ambiguous")
          /\ UNCHANGED <<queue, target>>
       \/ \E id \in ids :
             /\ ids = {id}
             /\ target' = [target EXCEPT ![r] = id]
             /\ queue' = Enqueue(queue, r, id)
             /\ pc' = [pc EXCEPT ![r] = "again"]
             /\ UNCHANGED <<snap, reply>>
    /\ UNCHANGED <<rows, created, call, crashes>>

\* Under the lock of the ID: the todo is read again, it may be gone by now.
Again(r) ==
    LET id == target[r] IN
    /\ pc[r] = "again"
    /\ Holds(r, id)
    /\ \/ /\ rows[id] = {}
          /\ Answer(r, "not_found")
          /\ queue' = Release(queue, r)
       \/ /\ \E row \in rows[id] : snap' = [snap EXCEPT ![r] = {row}]
          /\ pc' = [pc EXCEPT ![r] = "apply"]
          /\ UNCHANGED <<queue, reply>>
    /\ UNCHANGED <<rows, created, call, target, crashes>>

\* A call to the store or the embedder fails, or blocked_by does not resolve: the
\* error is returned and the guard dropped.  In the gap the row is gone for good.
Fail(r) ==
    /\ pc[r] \notin {"idle", "done"}
    /\ pc[r] = "exact" => Holds(r, call[r].ref)
    /\ pc[r] = "again" => Holds(r, target[r])
    /\ Answer(r, "error")
    /\ queue' = Release(queue, r)
    /\ UNCHANGED <<rows, created, call, target, crashes>>

\* delete_todo's delete.
Delete(r) ==
    /\ pc[r] = "apply"
    /\ call[r].op = "delete"
    /\ rows' = [rows EXCEPT ![target[r]] = {}]
    /\ Answer(r, "ok")
    /\ queue' = Release(queue, r)
    /\ UNCHANGED <<created, call, target, crashes>>

\* upsert, first half: the old row goes, or stays when the delete fails.
UpsertDelete(r) ==
    /\ pc[r] = "apply"
    /\ call[r].op = "update"
    /\ \/ rows' = [rows EXCEPT ![target[r]] = {}]
       \/ DeleteMayFail /\ UNCHANGED rows
    /\ pc' = [pc EXCEPT ![r] = "gap"]
    /\ UNCHANGED <<created, queue, request, crashes>>

\* upsert, second half: the row made from the snapshot comes.
UpsertAdd(r) ==
    /\ pc[r] = "gap"
    /\ \E row \in snap[r] :
          rows' = [rows EXCEPT ![target[r]] = @ \cup {ApplyChange(row, call[r].change, r)}]
    /\ Answer(r, "ok")
    /\ queue' = Release(queue, r)
    /\ UNCHANGED <<created, call, target, crashes>>

\* get_todo: the same lookup, without locks; its last read may find nothing.
ReadExact(r) ==
    LET ref == call[r].ref IN
    /\ pc[r] = "read_exact"
    /\ \/ /\ ref \in Ids /\ rows[ref] # {}
          /\ Answer(r, "ok")
       \/ /\ ~(ref \in Ids /\ rows[ref] # {})
          /\ pc' = [pc EXCEPT ![r] = "read_prefix"]
          /\ UNCHANGED <<snap, reply>>
    /\ UNCHANGED <<rows, created, queue, call, target, crashes>>

ReadPrefix(r) ==
    LET ids == Found(call[r].ref) IN
    /\ pc[r] = "read_prefix"
    /\ \/ ids = {} /\ Answer(r, "not_found") /\ UNCHANGED target
       \/ Cardinality(ids) > 1 /\ Answer(r, "ambiguous") /\ UNCHANGED target
       \/ \E id \in ids :
             /\ ids = {id}
             /\ target' = [target EXCEPT ![r] = id]
             /\ pc' = [pc EXCEPT ![r] = "read_again"]
             /\ UNCHANGED <<snap, reply>>
    /\ UNCHANGED <<rows, created, queue, call, crashes>>

ReadAgain(r) ==
    /\ pc[r] = "read_again"
    /\ Answer(r, IF rows[target[r]] = {} THEN "not_found" ELSE "ok")
    /\ UNCHANGED <<rows, created, queue, call, target, crashes>>

\* add_todo: a fresh ID, no lock.  The upsert's delete finds no row.
Insert(r) ==
    /\ pc[r] = "insert"
    /\ \E id \in Ids \ created :
          /\ rows' = [rows EXCEPT ![id] = @ \cup {Fresh(call[r].change.to)}]
          /\ created' = created \cup {id}
    /\ Answer(r, "ok")
    /\ UNCHANGED <<queue, call, target, crashes>>

\* The process dies: locks and requests are gone, the table stays as it is.
Crash ==
    /\ crashes < MaxCrashes
    /\ crashes' = crashes + 1
    /\ queue' = [s \in Shards |-> <<>>]
    /\ pc' = [r \in Reqs |-> IF pc[r] = "idle" THEN "idle" ELSE "done"]
    /\ snap' = [r \in Reqs |-> {}]
    /\ UNCHANGED <<rows, created, call, target, reply>>

-----------------------------------------------------------------------------

Step(r) ==
    \/ Exact(r) \/ Resolve(r) \/ Again(r)
    \/ Delete(r) \/ UpsertDelete(r) \/ UpsertAdd(r)
    \/ ReadExact(r) \/ ReadPrefix(r) \/ ReadAgain(r)
    \/ Insert(r)
    \/ Fail(r)

Next == Crash \/ \E r \in Reqs : Start(r) \/ Step(r)

Spec == Init /\ [][Next]_vars
\* The runtime polls every request and the store and embedder answer.
FairSpec == Spec /\ \A r \in Reqs : WF_vars(Step(r))

-----------------------------------------------------------------------------
(* Properties.                                                             *)

Phases == {"idle", "exact", "resolve", "again", "apply", "gap", "done",
           "read_exact", "read_prefix", "read_again", "insert"}
Replies == {"none", "ok", "not_found", "ambiguous", "error"}

TypeOK ==
    /\ rows \in [Ids -> SUBSET Row]
    /\ created \subseteq Ids
    /\ queue \in [Shards -> Seq(Reqs)]
    /\ pc \in [Reqs -> Phases]
    /\ call \in [Reqs -> Calls \cup {NoCall}]
    /\ target \in [Reqs -> Ids \cup {NoId}]
    /\ snap \in [Reqs -> SUBSET Row]
    /\ reply \in [Reqs -> Replies]
    /\ crashes \in 0..MaxCrashes

Writing(r) == pc[r] \in {"apply", "gap"}

\* "Process-local sharded locks for TODO read-modify-write operations": a
\* request that read a todo to change it holds the lock of that todo until it
\* has written, whatever reference it was given.
LockDiscipline == \A r \in Reqs : Writing(r) => Holds(r, target[r])

\* No lost update and no write to a todo gone meanwhile: what a writer read is still what the table holds when it
\* writes; nothing came in between.
ReadIsCurrent == \A r \in Reqs : pc[r] = "apply" => rows[target[r]] = snap[r]

\* No ID ever names two rows, and completed_at is set exactly on the terminal
\* ones: also when several updates of one todo overlap.
Consistent ==
    \A id \in Ids : /\ Cardinality(rows[id]) <= 1
                    /\ \A row \in rows[id] : StampMatchesStatus(row)

\* What delete_todo reported deleted never comes back.
NoResurrection ==
    \A r \in Reqs : pc[r] = "done" /\ call[r].op = "delete" /\ reply[r] = "ok"
                      => rows[target[r]] = {}

\* The todo as the callers know it: while an upsert is between its two halves,
\* the row it read.
InGap(id) == {r \in Reqs : pc[r] = "gap" /\ target[r] = id}
Known(id) == rows[id] \cup UNION {snap[r] : r \in InGap(id)}
Logical   == [id \in Ids |-> Known(id)]
Abstract  == INSTANCE TodoSpec WITH todos <- Logical

\* However requests overlap, die, or fail anywhere but in the delete of an upsert
\* (~DeleteMayFail), every change of the collection is one atomic create, update or
\* removal.
ImplementsSpec == Abstract!TodoSpecification

\* "A terminal-to-terminal change keeps the earlier timestamp."
KeepsEarlierStamp ==
    [][\A id \in Ids : \A row \in Logical[id], new \in Logical'[id] :
          row.status \in TerminalStatuses /\ new.status \in TerminalStatuses
            => new.done = row.done]_vars

\* A todo goes only because somebody's delete succeeded, or somebody's update is
\* answered with an error, or the process died in the middle of an upsert.
LossIsReported ==
    [][\A id \in Ids : Logical[id] # {} /\ Logical'[id] = {} =>
          \/ crashes' # crashes
          \/ \E r \in Reqs : /\ target[r] = id /\ pc[r] # "done"
                             /\ \/ call[r].op = "delete" /\ reply'[r] = "ok"
                                \/ call[r].op = "update" /\ reply'[r] = "error"]_vars

\* Every request is answered: no order of locks makes requests wait for each
\* other, unless the process dies.
EveryRequestEnds == \A r \in Reqs : pc[r] # "idle" ~> pc[r] = "done"

\* "both refuse to guess when a prefix is ambiguous": a prefix is resolved only
\* when it names one todo.
RefusesToGuess ==
    [][\A r \in Reqs : pc[r] \in {"resolve", "read_prefix"} /\ target'[r] # target[r]
          => {id \in Names[call[r].ref] : Logical[id] # {}} = {target'[r]}]_vars

=============================================================================
