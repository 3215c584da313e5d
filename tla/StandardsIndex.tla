--------------------------- MODULE StandardsIndex ---------------------------
(***************************************************************************)
(* Indexing of standards documents: index_standards and drop_standards     *)
(* (indexing/standards.rs) as the server's tools run them (serve.rs).      *)
(*                                                                         *)
(* A document is split into chunks at its headings.  For each chunk the    *)
(* LLM is asked for metadata, at most twice, the text is embedded and      *)
(* upserted.  The ID of a point is made of the standard, the section the   *)
(* LLM named (none when it failed) and the position of the chunk: another  *)
(* answer gives another ID.  A chunk that cannot be stored becomes a       *)
(* warning of the operation.                                               *)
(*                                                                         *)
(* Two tasks run at once (llm_semaphore); a drop counts, then deletes.     *)
(***************************************************************************)
EXTENDS Naturals, Sequences

CONSTANTS
    Standards,      \* standard_ids
    Texts,          \* chunk texts; NoText is a chunk of white space
    NoText,
    Documents,      \* what may be indexed: sequences of chunk texts
    Sections,       \* section_ids the LLM may name
    NoSection,      \* the section_id of fallback_metadata
    Tasks,
    MaxAttempts,    \* 2
    MaxTasks        \* bound on the operations explored

ASSUME StandardsAssumption ==
    /\ Documents \subseteq Seq(Texts \cup {NoText}) /\ NoText \notin Texts
    /\ NoSection \notin Sections
    /\ MaxAttempts \in Nat \ {0} /\ MaxTasks \in Nat

Positions == UNION {DOMAIN d : d \in Documents}
PointIds       == Standards \X (Sections \cup {NoSection}) \X Positions

VARIABLES
    points,     \* the texts of the rows stored under each ID
    at,         \* per task: where it is
    std, doc,   \*   its standard and its chunks
    chunk,      \*   the position it works on
    attempt,    \*   metadata attempts made for it
    section,    \*   its section_id
    warnings,   \*   positions it reports
    step,       \*   the operation's step in the end
    alone,      \* history: nobody else wrote this standard since it began
    dropping,   \* standards that a drop has counted and will delete
    tasks

local == <<std, doc, chunk, attempt, section, warnings>>
svars == <<points, at, local, step, alone, dropping, tasks>>

StandardsInit ==
    /\ points = [i \in PointIds |-> {}]
    /\ at = [t \in Tasks |-> "idle"]
    /\ std = [t \in Tasks |-> CHOOSE s \in Standards : TRUE]
    /\ doc = [t \in Tasks |-> <<>>]
    /\ chunk = [t \in Tasks |-> 1] /\ attempt = [t \in Tasks |-> 0]
    /\ section = [t \in Tasks |-> NoSection]
    /\ warnings = [t \in Tasks |-> {}]
    /\ step = [t \in Tasks |-> "queued"]
    /\ alone = [t \in Tasks |-> FALSE]
    /\ dropping = {}
    /\ tasks = 0

-----------------------------------------------------------------------------

Busy(t)     == at[t] \notin {"idle", "end"}
Id(t)       == <<std[t], section[t], chunk[t]>>
Wrote(s, who) == alone' = [t \in Tasks |-> alone[t] /\ (t \in who \/ std[t] # s)]
Text(t)     == doc[t][chunk[t]]

IndexStandards(t) ==
    /\ ~Busy(t) /\ tasks < MaxTasks
    /\ tasks' = tasks + 1
    /\ \E s \in Standards, d \in Documents :
          /\ std' = [std EXCEPT ![t] = s]
          /\ doc' = [doc EXCEPT ![t] = d]
          /\ alone' = [alone EXCEPT ![t] = s \notin dropping /\ \A u \in Tasks : Busy(u) => std[u] # s]
    /\ chunk' = [chunk EXCEPT ![t] = 1]
    /\ attempt' = [attempt EXCEPT ![t] = 0]
    /\ warnings' = [warnings EXCEPT ![t] = {}]
    /\ at' = [at EXCEPT ![t] = "chunk"]
    /\ step' = [step EXCEPT ![t] = "storing"]
    /\ UNCHANGED <<points, section, dropping>>

\* On to the next chunk, with a warning for this one or without.
NextChunk(t, failed) ==
    /\ warnings' = [warnings EXCEPT ![t] = @ \cup failed]
    /\ chunk' = [chunk EXCEPT ![t] = @ + 1]
    /\ attempt' = [attempt EXCEPT ![t] = 0]
    /\ at' = [at EXCEPT ![t] = "chunk"]

More(t) == at[t] = "chunk" /\ chunk[t] <= Len(doc[t])

SkipEmpty(t) ==
    /\ More(t) /\ Text(t) = NoText
    /\ NextChunk(t, {})
    /\ UNCHANGED <<points, std, doc, section, step, alone, dropping, tasks>>

Metadata(t) ==
    /\ More(t) /\ Text(t) # NoText
    /\ \/ \E s \in Sections \cup {NoSection} :       \* an unsafe ID is dropped
             section' = [section EXCEPT ![t] = s] /\ at' = [at EXCEPT ![t] = "embed"]
       \/ /\ attempt[t] + 1 = MaxAttempts            \* fallback_metadata
          /\ section' = [section EXCEPT ![t] = NoSection] /\ at' = [at EXCEPT ![t] = "embed"]
       \/ /\ attempt[t] + 1 < MaxAttempts
          /\ UNCHANGED <<at, section>>
    /\ attempt' = [attempt EXCEPT ![t] = @ + 1]
    /\ UNCHANGED <<points, std, doc, chunk, warnings, step, alone, dropping, tasks>>

\* The store's upsert: its delete, whose error is ignored, then its add.
UpsertDelete(t) ==
    /\ at[t] = "embed"
    /\ \/ points' = [points EXCEPT ![Id(t)] = {}]
       \/ UNCHANGED points
    /\ Wrote(std[t], {t})
    /\ at' = [at EXCEPT ![t] = "add"]
    /\ UNCHANGED <<local, step, dropping, tasks>>

UpsertAdd(t) ==
    /\ at[t] = "add"
    /\ points' = [points EXCEPT ![Id(t)] = @ \cup {Text(t)}]
    /\ Wrote(std[t], {t})
    /\ NextChunk(t, {})
    /\ UNCHANGED <<std, doc, section, step, dropping, tasks>>

\* A fault: an upsert that fails is only logged.
ChunkFailsQuietly(t) ==
    /\ at[t] \in {"embed", "add"}
    /\ NextChunk(t, IF at[t] = "embed" THEN {chunk[t]} ELSE {})
    /\ UNCHANGED <<points, std, doc, section, step, alone, dropping, tasks>>

\* The embedding or the upsert fails.
ChunkFails(t) ==
    /\ at[t] \in {"embed", "add"}
    /\ NextChunk(t, {chunk[t]})
    /\ UNCHANGED <<points, std, doc, section, step, alone, dropping, tasks>>

EndIndex(t) ==
    /\ at[t] = "chunk" /\ chunk[t] > Len(doc[t])
    /\ at' = [at EXCEPT ![t] = "end"]
    /\ step' = [step EXCEPT ![t] = IF warnings[t] = {} THEN "completed" ELSE "completed_degraded"]
    /\ UNCHANGED <<points, local, alone, dropping, tasks>>

\* ensure_table fails, or the process dies.
IndexFails(t) ==
    /\ Busy(t)
    /\ at' = [at EXCEPT ![t] = "end"]
    /\ step' = [step EXCEPT ![t] = "failed"]
    /\ UNCHANGED <<points, local, alone, dropping, tasks>>

\* drop_standards: nothing to do when the count is zero.
CountBeforeDrop(s) ==
    /\ s \notin dropping
    /\ \E i \in PointIds : i[1] = s /\ points[i] # {}
    /\ dropping' = dropping \cup {s}
    /\ UNCHANGED <<points, at, local, step, alone, tasks>>

DropStandards(s) ==
    /\ s \in dropping
    /\ dropping' = dropping \ {s}
    /\ points' = [i \in PointIds |-> IF i[1] = s THEN {} ELSE points[i]]
    /\ Wrote(s, {})
    /\ UNCHANGED <<at, local, step, tasks>>

IndexStep(t) ==
    \/ IndexStandards(t) \/ SkipEmpty(t) \/ Metadata(t) \/ UpsertDelete(t) \/ UpsertAdd(t)
    \/ ChunkFails(t) \/ EndIndex(t) \/ IndexFails(t)

StandardsNext ==
    \/ \E t \in Tasks : IndexStep(t)
    \/ \E s \in Standards : CountBeforeDrop(s) \/ DropStandards(s)
StandardsSpec == StandardsInit /\ [][StandardsNext]_svars

-----------------------------------------------------------------------------
(* Properties.                                                             *)

\* An operation that ends without failing has stored every chunk it does not
\* report, under one ID or another, whatever the LLM answered and whatever
\* another task did to another standard: "completed" means all of them.
ChunksAccounted ==
    \A t \in Tasks : at[t] = "end" /\ step[t] # "failed" /\ alone[t] =>
        \A k \in DOMAIN doc[t] : doc[t][k] # NoText =>
            \/ k \in warnings[t] /\ step[t] = "completed_degraded"
            \/ \E s \in Sections \cup {NoSection} : doc[t][k] \in points[<<std[t], s, k>>]

=============================================================================
