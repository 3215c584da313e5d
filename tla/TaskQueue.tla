------------------------------ MODULE TaskQueue ------------------------------
(***************************************************************************)
(* The asynchronous-operation queue of memcan-server (serve.rs).           *)
(*                                                                         *)
(* add_memory, update_memory, index_standards and index_code_files answer  *)
(* "queued" at once and do their work in a spawned task.  Three shared     *)
(* objects hold the queue together: the atomic counter pending_tasks       *)
(* (admission), the semaphore llm_semaphore (how many bodies run at once)  *)
(* and the LRU cache queue_status (what get_queue_status reports).         *)
(*                                                                         *)
(* An element of Ops is one tool call.  Handlers and tasks run on a        *)
(* multi-threaded runtime, so every access to a shared object is a step of *)
(* its own: in particular a refused claim increments the counter and       *)
(* decrements it in a second atomic operation, and a finished task gives   *)
(* back its permit, its slot and its pipeline guard one after the other.   *)
(***************************************************************************)
EXTENDS Integers, Sequences, FiniteSets

CONSTANTS
    Ops,            \* the tool calls that want to run in the background
    PipelineOps,    \* those whose task owns a PipelineGuard (add/update_memory)
    MayPanic,       \* those whose body may panic
    MaxPending,     \* MAX_PENDING_TASKS
    Permits,        \* permits of llm_semaphore
    CacheCap,       \* capacity of queue_status
    MaxRestarts     \* bound on the process restarts explored

ASSUME OpsAssumption     == /\ IsFiniteSet(Ops)
                            /\ PipelineOps \subseteq Ops
                            /\ MayPanic \subseteq Ops
ASSUME LimitsAssumption  == /\ MaxPending \in Nat \ {0}
                            /\ Permits \in Nat \ {0}
                            /\ CacheCap \in Nat \ {0}
                            /\ MaxRestarts \in Nat

VARIABLES
    pc,         \* where each call is
    counter,    \* pending_tasks
    permits,    \* permits of the semaphore that nobody holds
    waiters,    \* tasks queued on the semaphore, first come first
    status,     \* PipelineProgress.step, as the properties tell it apart
    cache,      \* keys of queue_status, most recently used first
    restarts

vars == <<pc, counter, permits, waiters, status, cache, restarts>>

-----------------------------------------------------------------------------
(* Phases of a call.                                                       *)

Handler == {"overfull", "admitted"}
Task    == {"spawned", "waiting", "running", "exiting", "released", "uncounted"}
Phases  == {"idle", "busy", "done", "lost"} \cup Handler \cup Task

\* The phases in which a PendingTaskGuard exists, and those holding a permit.
SlotPhases   == {"admitted", "spawned", "waiting", "running", "exiting", "released"}
PermitPhases == {"running", "exiting"}

Terminal == {"completed", "completed_degraded", "failed"}
Steps    == {"none", "queued", "working"} \cup Terminal

In(P)    == {o \in Ops : pc[o] \in P}
Guarded  == In(SlotPhases)
Overfull == In({"overfull"})
Holders  == In(PermitPhases)
Recorded == {cache[i] : i \in DOMAIN cache}

Init ==
    /\ pc = [o \in Ops |-> "idle"]
    /\ counter = 0
    /\ permits = Permits
    /\ waiters = <<>>
    /\ status = [o \in Ops |-> "none"]
    /\ cache = <<>>
    /\ restarts = 0

-----------------------------------------------------------------------------
(* Faults: each is an action below with one plausible mistake in it.  No    *)
(* specification uses them; the properties are checked to tell them apart.  *)

\* prev > MAX_PENDING_TASKS in try_enqueue.
ClaimOffByOne(o) ==
    /\ pc[o] = "idle"
    /\ counter' = counter + 1
    /\ pc' = [pc EXCEPT ![o] = IF counter > MaxPending THEN "overfull" ELSE "admitted"]
    /\ UNCHANGED <<permits, waiters, status, cache, restarts>>

\* A refusal without the compensating fetch_sub.
UndoClaimForgotten(o) ==
    /\ pc[o] = "overfull"
    /\ pc' = [pc EXCEPT ![o] = "busy"]
    /\ UNCHANGED <<counter, permits, waiters, status, cache, restarts>>

\* A PipelineGuard without its Drop, and one whose Drop ignores `finalized`.
DropGuardSilent(o) ==
    /\ pc[o] = "uncounted"
    /\ pc' = [pc EXCEPT ![o] = "done"]
    /\ UNCHANGED <<counter, permits, waiters, status, cache, restarts>>
DropGuardAlways(o) ==
    /\ pc[o] = "uncounted"
    /\ pc' = [pc EXCEPT ![o] = "done"]
    /\ status' = IF o \in PipelineOps THEN [status EXCEPT ![o] = "failed"] ELSE status
    /\ UNCHANGED <<counter, permits, waiters, cache, restarts>>

-----------------------------------------------------------------------------
(* The handler: claim a slot, record the operation, spawn its task.        *)

\* try_enqueue: one fetch_add decides.
Claim(o) ==
    /\ pc[o] = "idle"
    /\ counter' = counter + 1
    /\ pc' = [pc EXCEPT ![o] = IF counter >= MaxPending THEN "overfull" ELSE "admitted"]
    /\ UNCHANGED <<permits, waiters, status, cache, restarts>>

\* try_enqueue: the fetch_sub of a refused claim, then "Server busy".
UndoClaim(o) ==
    /\ pc[o] = "overfull"
    /\ counter' = counter - 1
    /\ pc' = [pc EXCEPT ![o] = "busy"]
    /\ UNCHANGED <<permits, waiters, status, cache, restarts>>

\* LruCache::put of a new key: first place, the least recently used one goes.
Put(o)     == <<o>> \o IF Len(cache) < CacheCap THEN cache
                        ELSE SubSeq(cache, 1, CacheCap - 1)
\* LruCache::get of the key at place i moves it to first place.
Promote(i) == <<cache[i]>> \o SubSeq(cache, 1, i - 1) \o SubSeq(cache, i + 1, Len(cache))

\* The record enters queue_status with step Queued, the task is spawned and
\* the caller is answered "queued".
Register(o) ==
    /\ pc[o] = "admitted"
    /\ status' = [status EXCEPT ![o] = "queued"]
    /\ cache' = Put(o)
    /\ pc' = [pc EXCEPT ![o] = "spawned"]
    /\ UNCHANGED <<counter, permits, waiters, restarts>>

-----------------------------------------------------------------------------
(* The spawned task.                                                       *)

\* The first poll of sem.acquire(): take a free permit or join the queue.
Acquire(o) ==
    /\ pc[o] = "spawned"
    /\ \/ /\ permits > 0
          /\ permits' = permits - 1
          /\ pc' = [pc EXCEPT ![o] = "running"]
          /\ UNCHANGED waiters
       \/ /\ permits = 0
          /\ waiters' = Append(waiters, o)
          /\ pc' = [pc EXCEPT ![o] = "waiting"]
          /\ UNCHANGED permits
    /\ UNCHANGED <<counter, status, cache, restarts>>

\* start_step, or "p.step = Storing" of the index tasks.
StartStep(o) ==
    /\ pc[o] = "running"
    /\ status[o] = "queued"
    /\ status' = [status EXCEPT ![o] = "working"]
    /\ UNCHANGED <<pc, counter, permits, waiters, cache, restarts>>

\* The body returns: guard.complete() / guard.fail(), or the index tasks'
\* assignments to p.step.  An index task always set Storing first.
Finish(o) ==
    /\ pc[o] = "running"
    /\ o \in PipelineOps \/ status[o] = "working"
    /\ \E t \in Terminal : status' = [status EXCEPT ![o] = t]
    /\ pc' = [pc EXCEPT ![o] = "exiting"]
    /\ UNCHANGED <<counter, permits, waiters, cache, restarts>>

\* The body panics: the task unwinds and writes no outcome.
Panic(o) ==
    /\ o \in MayPanic
    /\ pc[o] = "running"
    /\ o \in PipelineOps \/ status[o] = "working"
    /\ pc' = [pc EXCEPT ![o] = "exiting"]
    /\ UNCHANGED <<counter, permits, waiters, status, cache, restarts>>

\* _permit is dropped first; the semaphore hands it to the oldest waiter.
ReleasePermit(o) ==
    /\ pc[o] = "exiting"
    /\ \/ /\ waiters = <<>>
          /\ permits' = permits + 1
          /\ pc' = [pc EXCEPT ![o] = "released"]
          /\ UNCHANGED waiters
       \/ /\ waiters # <<>>
          /\ pc' = [pc EXCEPT ![o] = "released", ![Head(waiters)] = "running"]
          /\ waiters' = Tail(waiters)
          /\ UNCHANGED permits
    /\ UNCHANGED <<counter, status, cache, restarts>>

\* Then _task_guard: PendingTaskGuard::drop.
DropTaskGuard(o) ==
    /\ pc[o] = "released"
    /\ counter' = counter - 1
    /\ pc' = [pc EXCEPT ![o] = "uncounted"]
    /\ UNCHANGED <<permits, waiters, status, cache, restarts>>

\* Last what the task captured: PipelineGuard::drop fails an operation that
\* was not finalized.  Index tasks capture the bare progress handle.
DropPipelineGuard(o) ==
    /\ pc[o] = "uncounted"
    /\ status' = IF o \in PipelineOps /\ status[o] \notin Terminal
                 THEN [status EXCEPT ![o] = "failed"] ELSE status
    /\ pc' = [pc EXCEPT ![o] = "done"]
    /\ UNCHANGED <<counter, permits, waiters, cache, restarts>>

-----------------------------------------------------------------------------
(* Clients and the process.                                                *)

\* get_queue_status by operation_id reads the record and promotes its key.
\* (The listing form reads without promoting: no state changes.)
GetStatus(o) ==
    /\ \E i \in DOMAIN cache : cache[i] = o /\ cache' = Promote(i)
    /\ UNCHANGED <<pc, counter, permits, waiters, status, restarts>>

\* The process dies and is started again.  Nothing of the queue is persisted,
\* and shutdown does not wait for spawned tasks.
Restart ==
    /\ restarts < MaxRestarts
    /\ restarts' = restarts + 1
    /\ pc' = [o \in Ops |-> IF pc[o] \in Handler \cup Task THEN "lost" ELSE pc[o]]
    /\ counter' = 0
    /\ permits' = Permits
    /\ waiters' = <<>>
    /\ status' = [o \in Ops |-> "none"]
    /\ cache' = <<>>

-----------------------------------------------------------------------------

HandlerStep(o) == UndoClaim(o) \/ Register(o)
TaskStep(o) ==
    \/ Acquire(o)
    \/ StartStep(o)
    \/ Finish(o)
    \/ Panic(o)
    \/ ReleasePermit(o)
    \/ DropTaskGuard(o)
    \/ DropPipelineGuard(o)

Next ==
    \/ \E o \in Ops : Claim(o) \/ HandlerStep(o) \/ TaskStep(o) \/ GetStatus(o)
    \/ Restart

Spec == Init /\ [][Next]_vars

\* A handler that claimed a slot returns, and the runtime polls every task.
\* That a body ends is the environment's part: every embedder, LLM and store
\* call it awaits is assumed to return, with a result or an error.
Fairness == \A o \in Ops : WF_vars(HandlerStep(o) \/ TaskStep(o))
FairSpec == Spec /\ Fairness

-----------------------------------------------------------------------------
(* Properties.                                                             *)

TypeOK ==
    /\ pc \in [Ops -> Phases]
    /\ counter \in Int
    /\ permits \in Nat
    /\ waiters \in Seq(Ops)
    /\ status \in [Ops -> Steps]
    /\ cache \in Seq(Ops)
    /\ restarts \in 0..MaxRestarts

\* "Cap on concurrent in-flight async operations": whatever the races on
\* the counter, never more than MAX_PENDING_TASKS operations hold a slot.
AdmissionBound == Cardinality(Guarded) <= MaxPending

\* pending_tasks, which the CLI paces itself by, is exactly the slots held plus
\* the refused claims not undone yet: no exit path (refusal, success, error,
\* panic) leaks a slot or gives one back twice.
CounterAccounts == counter = Cardinality(Guarded) + Cardinality(Overfull)

\* No permit is lost or duplicated, the wait queue holds exactly the waiting
\* tasks, each once, and nobody waits while a permit is free.
PermitsConserved ==
    /\ permits + Cardinality(Holders) = Permits
    /\ {waiters[i] : i \in DOMAIN waiters} = In({"waiting"})
    /\ \A i, j \in DOMAIN waiters : waiters[i] = waiters[j] => i = j
    /\ permits > 0 => waiters = <<>>

\* "a busy-rejection leaves no phantom never-completing status record", and
\* PipelineGuard keeps "progress from staying stuck in an intermediate state":
\* a record a client can see belongs to a task that still exists or is over,
\* and the record of a pipeline task that is over says how it ended.
NoPhantomRecord ==
    \A o \in Recorded :
        /\ pc[o] \in Task \cup {"done"}
        /\ pc[o] = "done" /\ o \in PipelineOps => status[o] \in Terminal

\* While a process lives, an outcome once reported never changes: the guards'
\* destructors run after complete()/fail() and must not overwrite it.
OutcomeIsFinal ==
    [][\A o \in Ops : status[o] \in Terminal /\ restarts' = restarts
                        => status'[o] = status[o]]_vars

\* Every accepted add_memory/update_memory eventually reports an outcome, also
\* when its task panics, unless the process died first.
PipelineOpsSettle ==
    \A o \in PipelineOps :
        pc[o] = "spawned" ~> (status[o] \in Terminal \/ pc[o] = "lost")

\* The queue drains: once no more calls arrive every slot and permit is back.
QueueDrains == <>[](counter = 0 /\ permits = Permits)

=============================================================================
