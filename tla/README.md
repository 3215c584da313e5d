# A TLA+ verification of memcan

memcan is a memory server for coding agents: an MCP server (`memcan-server`)
over a LanceDB store, an embedder and one or two LLM backends, the library it
is built from (`memcan-core`) and a command line client (`memcan`). This
directory models the parts of it in which several actors share state, checks
the models on small instances with TLC, and proves what matters most for every
instance with TLAPS.

All paths below are under `rs/` of the repository.

## 1. Inventory

| component | state | operations | what is hard | what makes it correct |
|---|---|---|---|---|
| operation queue (`memcan-server/src/serve.rs`, `pipeline.rs`) | counter `pending_tasks`, semaphore `llm_semaphore`, LRU cache `queue_status`, spawned tasks with their guards | `add_memory`, `update_memory`, `index_standards`, `index_code_files`, `get_queue_status`, restart | races on the counter, panicking tasks, order of destructors, evicted records, restarts | the cap holds; no slot or permit leaks; every record tells the truth and, for pipeline tasks, an outcome; outcomes are final |
| CLI batch indexing (`memcan/src/main.rs`, `walk.rs`) | the tree being walked, the batch under way, the operations to poll | walk, detect the stack, cut into batches; pace, submit, retry, abort, poll | a tree that changes; stale counts, lost replies, a busy, wedged or restarted server | the batches are the tree; none dropped, none submitted twice; the command ends |
| CLI commands and the hook (`extract.rs`, `client.rs`, `main.rs`) | the chunks to send | filter, chunk and send what an assistant said; one call; index standards and poll | a failure in the middle of the chunks, exit codes, silence | what ends without an error lost nothing |
| todo tools (`memcan-core/src/todo.rs`, `record_id.rs`) | the table, 64 sharded locks | add, update, complete, delete, get, list | two-phase lookup with two locks, readers without locks, non-atomic upsert, crashes | no lost update, no resurrection, one row per ID, completion time agrees with status, no deadlock |
| LanceDB store (`lancedb_store.rs`, `typed_table.rs`) | tables, versions, `compacting` set | open, ensure_table, upsert, search, scroll, delete, count, compact | upsert is delete + add; compaction races writers and other compactions | at most one automatic compaction per table; the claim is always released |
| manifest guard (`manifest_guard.rs`) | manifest files of each table | quarantine at start | crash half way, cap on quarantined manifests, all manifests corrupt | never empties a table's manifests; the newest valid one becomes the latest |
| circuit breakers (`health.rs`) | per dependency: state, error, last-checked time, in separate atomics | check, report_failure, report_success, status | three stores that are not one step, racing probes, stale times, four dependencies and their reporters | a breaker opens for its own dependency only; a recovered dependency is used again |
| LLM fallback (`llm_fallback.rs`) | two backends and their breakers | chat, context_window, init | which errors fall back and trip a breaker, both backends down | a content fault is never sent to the second backend; a call fails only when no backend could answer |
| LLM configuration (`config.rs`, `init.rs`) | the environment, two files | layering, deprecated variables, resolution, checks, creation of the provider | old variables with a new meaning; who set what; a key and the URL it may go to | keys go to the endpoint configured with them; old files keep their meaning |
| LLM clients (`llm.rs`, `llm_ollama_rs.rs`, `ollama.rs`) | client of a slot | make the client, init, chat, context_window | five backends and two libraries, redirects, parameters a backend rejects | requests and keys go home; a sound backend answers |
| memory pipeline and tools (`pipeline.rs`, `serve.rs`) | memory rows, the rows read | add (distil, embed, deduplicate, store), update, resolve, delete | LLM decisions about rows read earlier; the row is read before the task is queued and written much later; partial failures | a memory keeps its owner and birth; only rows of the same user are touched; nothing disappears in silence |
| search and lists (`search.rs`, `query.rs`, `serve.rs`, `ui/list.rs`) | - | unified search, searches of one table, lists, counts | several tables read one after the other, failures of some, scan caps, names normalised or not | the page is the top of what was there, or says there is more |
| indexing (`indexing/*.rs`) | indexed points, hashes | scan a code directory, index uploaded files, index and drop standards | replacement of old points, failures of single chunks, two runs over one project | after a clean scan the index is the sources; failures are counted |
| export, import, purge (`export.rs`, `import.rs`, `purge_memories.rs`, CLI) | - | paged export, batched import, filtered delete | paging while others write | every record that stays is exported once; totals are honest |
| embedding, schema, text, prompts, UI rendering, body timeout, migrations | none shared | sequential I/O, parsing, rendering | - | see section 8 |

Interactions: the tools of `serve.rs` call the store, the embedder and the LLM
wrapper directly (todo and search tools) or in a spawned task behind the
operation queue (memory writes and indexing). The LLM wrapper consults and
feeds the circuit breakers; so do the handlers. The CLI talks to the server
over MCP only, and the two string-match each other's messages ("Server busy").
Every component writes through the LanceDB store, whose upsert is not atomic.

## 2. Modules

    TaskQueue ----------- TaskQueueProofs        TodoData
      |    \                                     |      \
      |     MCTaskQueue --- ToolHealth           |       TodoSpec
      |                        | INSTANCE        |          | refinement
    CliIndexing             CircuitBreaker       TodoStore -+- TodoStoreProofs
      |                        |                   |
    MCCliIndexing           LlmFallback          MCTodoStore
      |                        |     \
    MCCli                      |      LlmProofs
      |    \                MCLlmFallback    |  \
    CliWalk CliCommands        |             |   \
        \    /               MCLlm ---- LlmConfig, LlmClient
       Selection --- Transfer

    Memory --- MCMemory      CodeIndex, StandardsIndex, Transfer --- MCBulkJobs
    Storage, Queries --- MCStorage

    TaskQueueProofs: TaskQueue, ToolHealth       CliProofs: CliIndexing, CliCommands, CliWalk
    LlmProofs: LlmFallback, LlmConfig, LlmClient StorageProofs: Storage, Queries
    BulkProofs: CodeIndex, StandardsIndex, Transfer
    TodoStoreProofs: TodoStore                   MemoryProofs: Memory
    CommonFacts: Selection; BulkProofs and CliProofs use it

An MC module with several components runs them side by side: they share no
variable and `side` says which of them a behaviour is of. A component keeps its
own initial states and next-state relation, the others stand still. The theorems are
about the components' own specifications, which a behaviour of an MC module
satisfies while its side is theirs.

**TaskQueue** is the operation queue. One element of `Ops` is one tool call;
`pc` says where it is. `Claim`/`UndoClaim` are the `fetch_add` and the
compensating `fetch_sub` of `try_enqueue`, two steps because other handlers run
in between. `Register` puts the record into `queue_status` and spawns the task.
`Acquire` joins the FIFO semaphore, `StartStep`, `Finish` and `Panic` are the
body, and `ReleasePermit`, `DropTaskGuard`, `DropPipelineGuard` are the
destructors in Rust's order: locals in reverse order of declaration, then what
the task captured. Tasks of `add_memory` and `update_memory` (`PipelineOps`) own
a `PipelineGuard`; the index tasks write `PipelineProgress` themselves.
`GetStatus` is the keyed form of `get_queue_status`, which promotes the record in
the LRU cache; the listing form changes nothing. `Restart` loses everything.

**CliIndexing** extends TaskQueue, which is the server to it, with one
`memcan index-code` command. Pacing, submission and polling are the loops
`wait_for_capacity`, `submit_batch_with_retry` and `poll_until_done`; a submitted
batch travels in `flight` until the server claims a slot for it. Replies can be
lost (`ReplyError`), the count unreadable (`Pace`), the server restarted. A retry is
a new call with the same files and reuses the same element of `Ops`.

**CliWalk** is where those batches come from: `OpenDirectory` and `Visit` are the
two loops of `walk_directory` over a tree in which anything may `Vanish` meanwhile,
and `Pack` is what `main` does with the files. A directory that cannot be read ends
the command; a file that cannot be read is left out.

**CliCommands** is the rest of the command line. `Extract` is the hook up to its
first call (`ToSend`: filter and chunks, with lengths for texts), `Sent`,
`SendFailed` and `AllSent` its loop over the chunks; `CallOnce` the commands of one
call; `Submit`, `PollOutcome` and `PollFailed` are `index-standards`, whose poll loop
differs from `index-code`'s in its exit codes. `Progress` is the server.

**TodoData** is a todo and what an update does to it, completion time included.
**TodoSpec** is what the collection promises: items created once, changed by
atomic read-modify-writes, removed. **TodoStore** is the code: every await
is a step boundary. `Exact` runs under the lock of the reference as the caller
wrote it, `Resolve` without a lock, `Again` under the lock of the resolved ID.
`UpsertDelete` and `UpsertAdd` are the halves of `VectorStore::upsert`. `Fail` is any
store or embedder call that returns an error, with the guards dropped. Shards
are explicit, so two references can collide or cross.

**CircuitBreaker** has the steps of `DependencyHealth`: `LoadState`, `LoadStamp` and
`TryHalfOpen` are the three accesses of `check`, `StoreState`, `StoreStamp` and
`StoreNote` those of a report. Time is kept per dependency: `expired` says whether
the recovery timeout has passed since `last_checked_nanos`, and `Elapse` is when it
does. Reading the clock and storing it is one step: a thread suspended for a whole
timeout between two adjacent instructions is not modelled. `fresh` and `outage` are
history variables. **LlmFallback** extends it with `FallbackLlmProvider`: a caller is
an endless sequence of chats and `context_window` queries, each of which asks the
primary's breaker, perhaps the primary, and perhaps goes on to the fallback
(`FallsBack`, `Leave`). A backend answers well, rejects the content, or is unavailable
(`Chat`). `InitPrimary` and `InitFallback` are the start of the server, skipped without
distillation. **ToolHealth** instantiates the same breakers for the embedder and
LanceDB: a table (`Tool`) says what each tool checks first, which dependency's errors
end it and which successes it reports, and `Blamed` is `report_error_to_health`.

**LlmConfig** loads the settings of the two slots step by step: `LoadCwd` and the
file of the config directory fill the environment, `MapLegacy` maps the deprecated
variables, resolution builds the slots, the checks refuse what would send a key to
the wrong place, and the provider is made or not. Values carry the variable and the
layer they came from, which is what the checks, and the properties, are about.
**LlmClient** is one slot's client from `build_backend` on: what it puts on the wire
(destination, protocol, key, parameters), what it makes of each status, and the
redirects it follows. `Rejected` is what a backend rejects by what the code says of it;
`BreaksJsonMode` and `LacksVersion` are the two settings of which the server only warns.

**Memory** is the life of a memory: `add_memory`'s pipeline (extraction by chunk, search,
decision, `ApplyAdd`, `ApplyUpdate`, `ApplyDelete`), `update_memory` with the old row read
in the handler and written in the task, and `delete_memory`. The LLM's decisions are
any of `Answers`, IDs it made up included. An update is an upsert in two halves, of which the
delete may fail and is ignored (`DeleteMayFail`). `birth` and `gone` are history.

**CodeIndex** has the scan of a directory and the upload of files as runs over one
table, step by step per file, batch and half of an upsert, with edits of the
files between any two steps, failures and deaths. A scan reads no more than `MaxScan` rows
of its project, any that many of them. **StandardsIndex** asks the LLM for
metadata per chunk, embeds and upserts, beside a second task and drops.
**Transfer** has the jobs that page over a table while others write: the client's
export, the server's, both halves of an import and the purge. An ID may have several rows,
of several sources. What the client has written is in `file` or still in the buffer `held`,
which is emptied when it is full, and at the end as far as it can be (`DropWriter`).

**Storage** is one table at the level of its manifests: commits that a crash can
tear, the guard that runs before the store opens, `maybe_auto_compact` with its
claim and its guard object, and the start-up compaction. LanceDB is external: a
commit is serial, and a compaction rebases on what was written meanwhile.
**Queries** is every tool that reads: `Filter` is what a tool makes of the caller's
arguments, `FetchLimit` the one row too many by which it knows there is more, `Nearest`
and `Scroll` the reads of a table, `Pick` the merge. `ListProjects` is the read of all todos that the
task page of a project makes before it reads the project's. Rows are put and removed between
the reads of one request.

**Selection** has the two loops over sequences that the command line and the transfers
share, a filter and the cutting into chunks. A set says what is kept, or what fits in
a chunk, where the code has a closure or a comparison; that makes them provable.

The sections headed "Faults" in the modules, and the definitions marked "a fault",
are copies of a definition with one plausible mistake each. No specification uses
them: they are there to check that each property notices such a mistake.

## 3. Runs

| run | question | instance |
|---|---|---|
| `task_queue` | does the cap hold, does every accepted pipeline operation report one final outcome, does the queue drain? Does a breaker of the tools open for its own dependency only? | three calls, cap 2, one permit, cache of 2, panics, one restart, fair; two tool requests with both breakers, any tools |
| `cli_indexing` | is a batch ever dropped or submitted twice; does the submission end, and `--wait` mean done and return? Are the batches the tree? Does silence mean success? | two batches and a rival, cap 1, cache of 2, panics, one restart, one retry, no fairness for the server's tasks; trees of five paths, three levels; transcripts of up to three messages, chunks of 5 |
| `cli_wait` (violated) | does a waiting command return? | cache of 1 |
| `todo_store` | is the store a set of items changed atomically; does every request end? | two requests of any kind, three IDs, two prefixes, two crossed shards, one crash |
| `todo_guess` (violated) | does a prefix ever resolve to one of several todos? | two requests |
| `llm_fallback` | does content stay local unless there is an outage, is a healthy backend ever tripped, is a recovered one used again? Do keys and requests go where they belong, do old files keep their meaning? | two callers with endless requests, both backends; about 14000 environments and files; every slot they yield in every build |
| `memory` | do memories keep their owner and birth, does one disappear or come back by accident? | two requests of any of nine calls, two users, three IDs, failing deletes, one crash, two permits |
| `memory_rows` (violated) | one row per ID? | two updates |
| `bulk_jobs` | does a clean scan heal the index, is every chunk of a standard accounted for, are exports complete, imports honest, purges exact? | two files of two symbols, one scan and one upload, one edit, three starts; documents of one and three chunks, two tasks; scans that read two rows; tables of three rows, of two IDs as well, files that repeat an ID, pages of 2 and 4, clamp 2, two foreign writes |
| `index_errors` (violated) | does a run that lost points report errors? | same code side |
| `storage` | does the table open with all that was acknowledged, is anything deleted, does compaction run alone, when due, and give back its claim? Is a page the top? | two writers, threshold 2, one quarantine a start, one torn manifest a power loss, five versions, two crashes; eight rows, two writes during a request, scan cap 2 |
| `search_names` (violated) | is what was indexed found by the values it was indexed with? | same query side |

Why the bounds are enough to be interesting. *Queue*: with three calls and a cap of
two, a claim can be refused, be undone late, and make another claim be refused
although a slot is free; with one permit a waiter exists whenever two tasks do;
a cache of two evicts live records. The code's numbers (20 slots, 2 permits, 10000
records) change none of these cases, and the safety properties are proved for all
of them. *Tools*: two requests put any report between any two steps of a check; time
passes freely. *CLI*: cap 1 with a rival makes both batches meet "busy"; `MaxAttempts`
stands for the time budget of 900 s: what matters is that a retry may happen and
that the budget may run out. A tree of three levels has a directory that waits while
its sibling is read, and one found in it; messages of 1, 3 and 6 characters fit together,
fill a chunk, or exceed it. *Todo*: `p` names `i1` and `i2`, `q` names `i2` and
the next ID, `p` hashes with `i2` and `q` with `i1`, so that exact and prefix
requests for one todo meet on different shards and lock in opposite orders: two
requests deadlock if any order of locks lets them. *LLM*: the state of the callers is
finite without a bound, so requests go on for ever. Two callers are enough
for a report of one to fall between any two steps of the other's check or report, and the
safety properties are proved for any number. The environments are each variable that
can shadow another, in each place it can come from. *Memory*: two requests overlap in
every way two writers can; a third would only repeat one. A memory of the other user
and a free ID are what an LLM can confuse. *Indexing*: a batch of two is full, partly
full or empty at the end of a file; the second start of a scan meets what the first
left behind. With `MaxScan` at two
a scan reads all rows of one file's two symbols, and not those of two files. *Transfer*: a page
can be short, full, and clamped; the two rows of one ID stand on different pages, one of the
purged source; the lines of one ID are in one chunk, in two, and in two batches. *Storage*: two crashes let
the guard be cut short and run again over what it left; with a cap of one it also gives up.
Deadlock is not checked because calls, jobs and commands are finite: after the last
one nothing happens. Liveness properties take its place.

## 4. What the violated runs show

- `cli_wait`: `get_queue_status` answers a call for an evicted record with an
  `error` field and no `status`; `poll_until_done` (main.rs:421) polls on for ever. It
  also does when an index task panics: index tasks have no `PipelineGuard`, and
  `validate_metadata` (`indexing/standards.rs:157`) truncates strings at byte 200, which
  panics inside a multi-byte character. `WaitReturnsUnlessLost`, checked in
  `cli_indexing`, is what the code does provide.
- `todo_guess`: prefix resolution takes no lock and sees the gap between the delete and
  the add of another request's upsert. An ambiguous prefix then names only the other todo.
- `memory_rows`: two updates of one memory interleave their upserts as delete, delete, add,
  add, and leave two rows with one ID ("Existing IDs are overwritten").
- `index_errors`: `flush_batch` drains its batch before it upserts it, and its caller counts
  the emptied batch as the number of errors: a run that lost points reports none.
- `search_names`: `search_code` and `search_standards` normalise what the caller filters by
  and not what the indexer stored, or filter another field than the one stored.

More observations from the models, for which no run is kept. `report_failure` stores the
state before the time: a check in between sees "down" with the time of an earlier
report, makes the breaker half-open and lets its call through, and half-open lets through
everybody until the next report; `TimeoutHonoured`, proved, is what the code does provide.
A reader in the gap of an upsert is told "not found" of a todo that exists. `upsert`
ignores the error of its delete, which leaves two rows with one ID as well (the models of
memories and of the code index have that; `IdentityKept`, `NoSilentLoss` and `ScanHeals` hold
nevertheless). The client's export prints "Exported N records" (main.rs:597) before its buffer is
dropped (main.rs:543), and a write that fails then is told to nobody. A `--page-size` over the
server's clamp of 10000 ends that export after the first page. The purge deletes by ID what it found
by source: where a dedup UPDATE has rewritten the source (pipeline.rs:704) and the ID has two rows, the row of
the other source goes as well. JSON mode at Anthropic's endpoint for OpenAI clients, and an Anthropic
URL without `/v1`, fail every such call; the server starts and warns (config.rs:878, 896). An `LLM_MODEL`
equal to `OPENROUTER_MODEL` is taken for the primary's model (config.rs:1191) before the format
of the file is asked for: an Ollama fallback, whose model it is by `.env.example:73`, is left with
the stock model. `PreSlotMeaningKept` is `OldMeaningKept` without that case (`OneModel`).

## 5. Fairness

- Handlers that claimed a slot, spawned tasks, and requests are polled by the tokio
  runtime: weak fairness per call. `Finish` within that fairness says that every
  awaited embedder, LLM or store call returns, with a result or an error. This is
  an assumption about the environment: only the cloud LLM client has a timeout
  (`llm.rs:98`), and a call to a hung Ollama server holds its permit and slot for
  ever. `cli_indexing` does without the assumption: there the tasks may hang.
- tokio's semaphore and mutex are FIFO, so waiting is a queue and weak fairness suffices.
- The CLI acts on replies and its sleeps end. A call to a server that lost it fails.
- Requests to the LLM wrapper are polled and their backends answer or time out (weak
  fairness of `Step(r)`), and time passes (`Time(d)`). `Recovers` has two premises: from
  some time on the backend is not found unavailable, and chats keep reaching its
  breaker. Nothing is assumed about which requests those are.
- A running compaction returns, with success, an error or a panic (weak fairness of
  `OptimizeStep`); nothing is assumed of the writers.
- Nothing is assumed of clients, panics, errors, restarts and crashes: they may
  happen or not. Restarts and crashes are bounded by constants.

## 6. Proofs

**TaskQueueProofs**, for all `Ops`, `MaxPending`, `Permits`, `CacheCap`, assuming only that
`Ops` is finite and the limits are positive (`OpsAssumption`, `LimitsAssumption`):

- `TypeCorrect`: `TypeOK`.
- `AdmissionSafe`: `AdmissionBound` and `CounterAccounts`. The bound is not inductive, nor is it with the
  counter alone. The argument: the counter is exactly the slots held plus the
  refused claims not undone (`CounterAccounts`), so a claim that sees less than the
  cap sees fewer slots than the cap.
- `PermitsSafe`: `PermitsConserved`, inductive with typing: each handover of a permit
  to the oldest waiter moves one task from the queue to the holders.
- `OutcomeKept`: `OutcomeIsFinal`. Only three actions write `status`, each in a phase
  in which no outcome exists yet or leaves it alone.
- `RecordsHonest`: `NoPhantomRecord`. A record enters the cache when its task is
  spawned, and a pipeline task leaves `uncounted` with a terminal status.
- `OwnFault`, of ToolHealth, for all calls in progress and any errors the tools may meet:
  `OwnFaultOnly`. The property is about the breakers alone and needs what is on its way
  to them: whoever is about to report a failure of a dependency is a witness that this
  dependency broke.

**TodoStoreProofs**, for all IDs, prefixes, shards, hash functions and requests
(`RefsAssumption`, `RowsAssumption`, `CallsAssumption`, `StampsAssumption`):

- `TodoTypeCorrect`, and `LocksHeld`: `LockDiscipline`, also when deletes fail. Being
  first in the queue of a shard is stable: others append, only the holder leaves.
- If the delete of an upsert never fails (`~DeleteMayFail`: a failed delete leaves two
  rows, and the second writer's read is then one of them), the inductive invariant `Safe` is `LockDiscipline` with:
  what a writer read is what is stored, the row of an ID in the gap is absent and
  no other writer is at that ID, and an answered delete leaves its ID empty and
  out of the fresh ones for good. From it `ReadsCurrent`, `RowsConsistent`, `DeletedForGood`.
- `TodoImplements`: TodoStore implements TodoSpec under the mapping that shows a todo
  in the gap as the row its writer read. `UpsertDelete` is then a stutter, `UpsertAdd`
  the atomic update, `Fail` in the gap and `Crash` are removals.
- `EarlierStampKept`: `KeepsEarlierStamp`, and `LossReported`: `LossIsReported`, both about what a todo
  looks like to its owner (`Logical`), with deletes that do not fail. Most steps do not
  change it (`QuietChange`); of the others, an update writes what it computed from the row that is
  still there (`Safe`), and only a delete, a failed second half and a crash take it away.

**LlmProofs**, for all callers, with a fallback or without (`FallbackAssumption`), for
all slots and builds (`SlotsAssumption`: a cloud slot has a URL, which LlmConfig's checks see
to), and for all environments and files (`ConfigAssumption`, `ValuesAssumption`: what a variable
holds is of its kind and was written where it was written):

- `FallbackTypeCorrect`, together with `Shape`: only chats report, and an idle caller
  is at the primary.
- `ContentKeptLocal`: `ContentStaysLocal`, and `NoFalseTrip`: `OnlyOutagesTrip`. Neither is
  inductive alone: a chat falls back because its caller saw an open breaker a few
  steps earlier. `Witnessed` carries the reason: whoever is past an open breaker, or
  holds an outage to report, deals with a backend that had an outage.
- `TimeoutSafe`: `TimeoutHonoured` (a check that lets a call through soon after a failure can
  only fall between the two stores of that report), one case per step; what a step must not do is take
  away the caller between its two stores while the time is expired.
- `SentHomeThm`: `SentHome`, and `SoundIsServedThm`: `SoundIsServed`. The invariant says of a client what
  it was made for (`Proper`) and of a request on its way where it goes and what the backend
  makes of it (`Sound`), after redirects too; a request in order is answered, unless the slot is one of those the server warned
of (`Answered`).
- `KeysGoHomeThm`: `KeysGoHome`, and `PreSlotMeaningKeptThm`: `PreSlotMeaningKept`. The invariant follows each
  value: which layer the environment has it from (`EnvFrom`), which variable the settings
  have it from (`SettingsFrom`), and what the checks left of that (`ProviderFrom`). For a
  pre-slot file the slots are computed for each kind of primary.

**MemoryProofs**, for all users, requests, initial rows, answers of the LLM and permits
(`MemoryAssumption`). One inductive invariant, `IInv`, gives the first three:

- `Identity`: `IdentityKept`. What is written back is what was read, possibly long ago and
  possibly of a memory that is gone, so the invariant says of every row a request
  has *seen* that it is the memory as it was born (`SeenBorn`).
- `Scope`: `DedupStaysInScope`. An `add_memory` has seen only its own user's rows (`SeenOwn`),
  and touches only what it has seen.
- `Resurrection`: `BackOnlyByStaleWriter`. A deleted memory that is stored, or in the hands
  of anyone, has a stale reader (`GoneFor`): a later reader can only see it because a
  stale one put it back.
- `MemoryTypeCorrect`: `TypeOK`. It is not inductive without `Where`: which calls are at
  which step, and that facts and decisions are in hand of `add_memory` calls only.
- `LossNotSilent`: `NoSilentLoss`, from `Typed` and `IInv`. A decision to delete names a row of the
  decider's own user because that is all it has seen.

**StorageProofs**, for all writers, thresholds and bounds (`StorageAssumption`,
`WritersAssumption`), and for all rows, questions and caps of the queries (`ItemsAssumption`,
`CapsAssumption`, `QuestionsAssumption`):

- `OneCompaction`: `SingleFlight`. The claim on the table is taken exactly while one
  compaction runs (`ClaimHeld`): a claim is only given while there is none, each way a
  compaction ends gives it back, and a crash clears both.
- `StorageTypes`, `NothingDeletedThm`, `OpensLastGoodThm`, `CompactedWhenQuietThm`: one inductive invariant,
  `StorageInv`. None of the properties is inductive alone: they need who is writing
  the newest manifest (`Authors`), that the torn ones are the newest (`TornOnTop`), and that the
  last whole one has all that was acknowledged and the one being written as well (`Kept`).
  A compaction subtracts no more fragments than there are (`Merges`); and of a table at the
  threshold, somebody is about to see to it (`NoneLeft`).
- `PageIsTopThm`: `PageIsTop`. Of every row that stays and whose table was read, the rows read
  so far have it, or have better ones, or more than can be shown (`AllCovered`); the merge
  keeps that.

**BulkProofs**, for all files, symbols, contents, documents, tables, batch and page sizes
(`CodeAssumption`, `StandardsAssumption`, `TransferAssumption`):

- `ScanHealsThm`: `ScanHeals`. The invariant follows an undisturbed scan: a symbol of the
  project is in the table, or in hand, or in a file to come (`Reached`), and a file that is
  gone has no points, or is still to be cleaned, if the scan has read all rows (`whole`).
- `ChunksAccountedThm`: `ChunksAccounted`. Of a task that is alone with its standard, the chunks
  behind it are stored or reported (`BehindIt`), and steps of others leave that alone (`Beside`).
- `ExportCompleteThm`: `ExportComplete`. What an export has written and what its buffer holds are
  the beginning of the table, as long as its offset (`Written`); that the client's offset moves by the
  size it asked for, and the server answers with less, is why the clamp is an exception.
- `ImportHonestThm`: `ImportHonest`. As long as nothing was reported, of each line that was imported and
  has no later line of its ID among those imported the record is stored, and the rows of the
  file's IDs are of the lines imported so far (`Stored`).
- `PurgeExactThm`: `PurgeExact`, for IDs with any number of rows and sources. What
  is on its list has an ID that is to go (`Marked`), or one that is new; when the scan is over, a
  marked row is gone or its ID is on the list (`Purging`).

**CliProofs**, for all batches, limits, rivals, transcripts and trees (`BatchesAssumption`, `CliAssumption`,
`CommandsAssumption`, `WalkAssumption`), over TaskQueue's own invariants:

- `NothingDroppedThm`, `WaitMeansDoneThm`, `NoDoubleSubmissionThm`. The invariant says how far the command is:
  all batches before the one under way were accepted, all operations before the
  one it polls have an outcome, and a call the server has not accepted has none.
- `TellsWhatIsLostThm`: `TellsWhatIsLost`. What the hook has handed over is the first n of its
  chunks and what it holds is the rest; the chunks have each message once and stay
  within the budget (`SendsAll`), which is `KeepFacts` and `InChunksFacts`.
- `BatchesCoverTreeThm`: `BatchesCoverTree`, for any paths, trees and batch size
  (`WalkAssumption`: what is walked is a directory, and what is above a path is one too).
  A file that was there all the time is found, or is an entry still to be looked at, or a directory above
  it waits (`Covered`); that survives whatever vanishes because what is below a thing that is
  gone is gone as well. Nothing is found twice because nothing above a path that waits or
  was found still waits (`MetOnce`). The rest is data: `InOrderKeeps`, `ChunksJoined`, `InChunksFacts`.

**CommonFacts** has what a filter, a sort and a cutting into chunks return, and what the chunks
make when joined again, for every sequence, by induction over its length. The library's induction theorems take an operator as a
parameter, which the provers cannot instantiate; `SetInduction` takes a set of naturals
instead (proved from the library's well-founded minimum), and `Recursion` the step of a recursive
function as a function. With both, facts about recursive functions are provable.

`CounterAccounts`, `PermitsConserved`, `NoPhantomRecord`, `LockDiscipline`, `Consistent`,
`TimeoutHonoured` and the `TypeOK`s of Memory and Storage are stated by theorems only; no run checks
them separately.

Every safety property of the passing runs is stated by a theorem. Only
model-checked: all liveness (`PipelineOpsSettle`, `QueueDrains`,
`WaitReturnsUnlessLost`, `SubmissionEnds`, `EveryRequestEnds`, `Recovers`, `ClaimReleased`), which is
beyond TLAPS.

## 7. Plan

1. The core with its proofs: queue, todos, breakers and fallback. *Done.*
2. The rest of the server and the command line: memory, indexing, transfer, storage,
   queries, configuration, clients, CLI. *Done.*
3. Proofs of the safety properties. *Done.*
4. To model: `ensure_table` (creation under `create_lock`, dimension checks, missing columns).

## 8. Not modelled, and why

Left for later:

- `ensure_table` and the schemas; `TypedTable`, which repeats the upsert of the store and
  whose `compact` claims nothing but is called by tests only.

Simplified inside a module:

- `blocked_by`: resolved under the todo's lock by reads that take no further
  lock, so it can only fail (`Fail`) or add data the properties do not see. A blocker that is
  deleted between its resolution and the write leaves a dangling reference.
- Cancellation of a request whose client went away, which is decided by the MCP library.
- `AcceptedUntracked` in the CLI: this server always returns an `operation_id`.
- The `Err` branch of `sem.acquire()`: the semaphore is never closed.
- Transfer's upsert is one step, and a write is one commit in Storage (an upsert makes two).
- Symbols removed from a file that stays are not cleaned up by scans; `ScanHeals` does not ask
  for it.
- Several processes on one data directory: the guard is run by the one server that starts.
- LanceDB's own clean-up of old versions, which the store configures (`ensure_auto_cleanup`).
- `ToolHealth` reports a tool's success as the code does, and that may be without evidence: a
  search whose every collection failed, an index task whose every chunk failed, an
  `add_memory` with nothing to store all close a breaker. `OwnFaultOnly` is about opening.
- An Ollama slot that is given a model of another namespace: genai goes by the namespace.

Outside the scope of a model checker: settings other than the LLM slots (one variable and
a default each), embedding (one call into an ONNX runtime), parsing of Markdown and of
source code, prompts, rendering of pages and results, token accounting, the request body
timeout (a wrapper around one stream), the one-shot migrations, the triage import and the
classification test. Their code is sequential; unit tests reach it.
