------------------------------ MODULE CodeIndex ------------------------------
(***************************************************************************)
(* Indexing of source code: index_code, an incremental scan of a project   *)
(* directory (indexing/code.rs), and index_code_files, the server's task   *)
(* for files a client has read (indexing/code_files.rs), on one table.     *)
(*                                                                         *)
(* A run takes its files one after the other, splits each into symbols,    *)
(* collects them in a batch and flushes it when it is full: embed, then    *)
(* upsert, which deletes and adds.  The ID of a point is made of file,     *)
(* symbol and line; its payload has a hash of the text.  A scan skips the  *)
(* points whose hash is in the table, and at its end deletes the points of *)
(* files that are gone.  Runs overlap: two server tasks hold permits at    *)
(* once, and a scan is a process of its own.                               *)
(*                                                                         *)
(* A content is a function from its symbols (name and line) to the hashes  *)
(* of their texts; one that yields no symbol has an empty domain.  LLM     *)
(* descriptions go into the vector and the payload, failed or not, and are *)
(* left out.                                                               *)
(***************************************************************************)
EXTENDS Naturals, FiniteSets

CONSTANTS
    Files, Syms, Hashes,
    Contents,       \* what a file may hold
    Scans, Uploads, \* runs of index_code and of index_code_files
    BatchSize,      \* BATCH_SIZE
    MaxScan,        \* 100000: the rows a scan reads of its project
    DeleteMayFail,  \* may the delete in an upsert fail?  Its error is ignored
    MaxEdits,       \* bounds on the edits and drops and on the runs explored
    MaxStarts

Runs   == Scans \cup Uploads
Pids   == Files \X Syms

ASSUME CodeAssumption ==
    /\ Scans \cap Uploads = {}
    /\ \A c \in Contents : DOMAIN c \subseteq Syms /\ c \in [DOMAIN c -> Hashes]
    /\ {BatchSize, MaxScan} \subseteq Nat \ {0} /\ DeleteMayFail \in BOOLEAN
    /\ MaxEdits \in Nat /\ MaxStarts \in Nat

VARIABLES
    disk,       \* the project: a function from the files there are to contents
    table,      \* the hashes of the rows stored under each point ID
    pc,         \* per run: where it is
    given,      \*   what an upload was sent, in the shape of disk
    known,      \*   the points a scan found in the table at its start
    files,      \*   files still to take
    gone,       \*   indexed files that a scan no longer found
    todo,       \*   symbols of the current file, still to be put in the batch
    batch,      \*   points to be flushed
    errors,     \*   the errors it counts
    hurt,       \* history: a call of this run failed or the run died
    lost,       \* history: had this run points that it did not store?
    calm,       \* history: nobody else touched disk or table since it began
    whole,      \* history: did it read all the rows there were?
    edits,
    starts

run  == <<given, known, files, gone, todo, batch>>
note == <<errors, hurt, lost>>
past == <<whole, edits, starts>>
vars == <<disk, table, pc, run, note, calm, past>>

Init ==
    /\ disk \in {[f \in Files |-> c] : c \in Contents}
    /\ table = [p \in Pids |-> {}]
    /\ pc = [w \in Runs |-> "idle"]
    /\ given = [w \in Runs |-> <<>>]
    /\ known = [w \in Runs |-> {}]
    /\ files = [w \in Runs |-> {}]
    /\ gone = [w \in Runs |-> {}]
    /\ todo = [w \in Runs |-> {}]
    /\ batch = [w \in Runs |-> {}]
    /\ errors = [w \in Runs |-> FALSE]
    /\ hurt = [w \in Runs |-> FALSE]
    /\ lost = [w \in Runs |-> FALSE]
    /\ calm = [w \in Runs |-> FALSE]
    /\ whole = [w \in Runs |-> FALSE]
    /\ edits = 0 /\ starts = 0

-----------------------------------------------------------------------------

Active(w) == pc[w] \notin {"idle", "done"}
Touched(w) == calm' = [v \in Runs |-> calm[v] /\ v = w]
Go(w, where) == pc' = [pc EXCEPT ![w] = where]
Start(w) ==
    /\ ~Active(w) /\ starts < MaxStarts
    /\ starts' = starts + 1
    /\ Go(w, "file")
    /\ errors' = [errors EXCEPT ![w] = FALSE]
    /\ hurt' = [hurt EXCEPT ![w] = FALSE]
    /\ lost' = [lost EXCEPT ![w] = FALSE]

\* The points of file f with content c.
Points(f, c) == {[pid |-> <<f, s>>, hash |-> c[s]] : s \in DOMAIN c}
Ids(pts)    == {pt.pid : pt \in pts}
Rows        == UNION {{[pid |-> p, hash |-> h] : h \in table[p]} : p \in Pids}
FilesOf(pts) == {pt.pid[1] : pt \in pts}
Delete(pids) == table' = [p \in Pids |-> IF p \in pids THEN {} ELSE table[p]]

\* A fault: a point whose ID was there is skipped, whatever its hash.
FreshById(w, pts) == {pt \in pts : pt.pid \notin Ids(known[w])}

\* What a scan has to store: no point with this ID and this hash was there.
Fresh(w, pts) == pts \ known[w]

-----------------------------------------------------------------------------

\* A scan reads the rows of the project, up to so many of them, takes one of the
\* rows of an ID for its point and walks the directory.
StartScan(w) ==
    /\ w \in Scans /\ Start(w)
    /\ \E read \in SUBSET Rows : \E k \in SUBSET read :
          /\ IF Cardinality(Rows) <= MaxScan THEN read = Rows ELSE Cardinality(read) = MaxScan
          /\ whole' = [whole EXCEPT ![w] = (read = Rows)]
          /\ Ids(k) = Ids(read)
          /\ \A pt, q \in k : pt.pid = q.pid => pt = q
          /\ known' = [known EXCEPT ![w] = k]
          /\ gone' = [gone EXCEPT ![w] = FilesOf(k) \ DOMAIN disk]
    /\ files' = [files EXCEPT ![w] = DOMAIN disk]
    /\ calm' = [calm EXCEPT ![w] = \A v \in Runs : ~Active(v)]
    /\ UNCHANGED <<disk, table, given, todo, batch, edits>>

\* A client reads some of the files and sends them.
StartUpload(w) ==
    /\ w \in Uploads /\ Start(w)
    /\ \E some \in (SUBSET DOMAIN disk) \ {{}} :
          /\ given' = [given EXCEPT ![w] = [f \in some |-> disk[f]]]
          /\ files' = [files EXCEPT ![w] = some]
    /\ UNCHANGED <<disk, table, known, gone, todo, batch, calm, whole, edits>>

\* The next file; a scan may find it gone or unreadable.
TakeFile(w) ==
    /\ pc[w] = "file" /\ todo[w] = {}
    /\ \E f \in files[w] :
          /\ files' = [files EXCEPT ![w] = @ \ {f}]
          /\ \/ /\ w \in Uploads
                /\ todo' = [todo EXCEPT ![w] = Points(f, given[w][f])]
                /\ UNCHANGED note
             \/ /\ w \in Scans /\ f \in DOMAIN disk
                /\ todo' = [todo EXCEPT ![w] = Fresh(w, Points(f, disk[f]))]
                /\ UNCHANGED note
             \/ /\ w \in Scans
                /\ errors' = [errors EXCEPT ![w] = TRUE]
                /\ hurt' = [hurt EXCEPT ![w] = TRUE]
                /\ UNCHANGED <<todo, lost>>
    /\ UNCHANGED <<disk, table, pc, given, known, gone, batch, calm, past>>

\* The next symbol goes into the batch.
Push(w) ==
    /\ pc[w] = "file"
    /\ \E pt \in todo[w] :
          /\ todo' = [todo EXCEPT ![w] = @ \ {pt}]
          /\ batch' = [batch EXCEPT ![w] = @ \cup {pt}]
    /\ Go(w, IF Cardinality(batch[w]) + 1 >= BatchSize THEN "flush" ELSE "file")
    /\ UNCHANGED <<disk, table, given, known, files, gone, note, calm, past>>

\* After a flush: more files, or a scan's clean-up, or the end.
AfterFlush(w) ==
    /\ batch' = [batch EXCEPT ![w] = {}]
    /\ Go(w, IF todo[w] # {} \/ files[w] # {} THEN "file"
             ELSE IF w \in Scans THEN "clean" ELSE "done")

LastFlush(w) ==
    /\ pc[w] = "file" /\ todo[w] = {} /\ files[w] = {}
    /\ IF batch[w] = {} THEN AfterFlush(w) ELSE Go(w, "flush") /\ UNCHANGED batch
    /\ UNCHANGED <<disk, table, given, known, files, gone, todo, note, calm, past>>

\* flush_batch.  When embedding fails the batch is still there to be counted.
EmbedFails(w) ==
    /\ pc[w] = "flush"
    /\ errors' = [errors EXCEPT ![w] = TRUE]
    /\ hurt' = [hurt EXCEPT ![w] = TRUE]
    /\ lost' = [lost EXCEPT ![w] = TRUE]
    /\ AfterFlush(w)
    /\ UNCHANGED <<disk, table, given, known, files, gone, todo, calm, past>>

\* Embedded and drained; then upsert's delete.
FlushDelete(w) ==
    /\ pc[w] = "flush"
    /\ \/ Delete(Ids(batch[w])) /\ UNCHANGED hurt
       \/ /\ DeleteMayFail
          /\ hurt' = [hurt EXCEPT ![w] = TRUE]
          /\ UNCHANGED table
    /\ Touched(w)
    /\ Go(w, "add")
    /\ UNCHANGED <<disk, run, errors, lost, past>>

FlushAdd(w) ==
    /\ pc[w] = "add"
    /\ table' = [p \in Pids |-> table[p] \cup
                    {pt.hash : pt \in {q \in batch[w] : q.pid = p}}]
    /\ Touched(w)
    /\ AfterFlush(w)
    /\ UNCHANGED <<disk, given, known, files, gone, todo, note, past>>

\* A failed upsert: the batch was drained, there is nothing left to count.
UpsertFails(w) ==
    /\ pc[w] \in {"flush", "add"}
    /\ UNCHANGED errors
    /\ hurt' = [hurt EXCEPT ![w] = TRUE]
    /\ lost' = [lost EXCEPT ![w] = TRUE]
    /\ AfterFlush(w)
    /\ UNCHANGED <<disk, table, given, known, files, gone, todo, calm, past>>

\* delete_by_filter for a file that is gone; a failure is logged.
CleanFile(w) ==
    /\ pc[w] = "clean"
    /\ \E f \in gone[w] :
          /\ gone' = [gone EXCEPT ![w] = @ \ {f}]
          /\ \/ Delete({f} \X Syms) /\ Touched(w) /\ UNCHANGED hurt
             \/ hurt' = [hurt EXCEPT ![w] = TRUE] /\ UNCHANGED <<table, calm>>
    /\ UNCHANGED <<disk, pc, given, known, files, todo, batch, errors, lost, past>>

EndScan(w) ==
    /\ pc[w] = "clean" /\ gone[w] = {}
    /\ known' = [known EXCEPT ![w] = {}]
    /\ Go(w, "done")
    /\ UNCHANGED <<disk, table, given, files, gone, todo, batch, note, calm, past>>

\* The process that runs it dies.
Die(w) ==
    /\ Active(w)
    /\ Go(w, "done")
    /\ hurt' = [hurt EXCEPT ![w] = TRUE]
    /\ lost' = [lost EXCEPT ![w] = FALSE]
    /\ errors' = [errors EXCEPT ![w] = FALSE]
    /\ known' = [known EXCEPT ![w] = {}]
    /\ files' = [files EXCEPT ![w] = {}]
    /\ gone' = [gone EXCEPT ![w] = {}]
    /\ todo' = [todo EXCEPT ![w] = {}]
    /\ batch' = [batch EXCEPT ![w] = {}]
    /\ given' = [given EXCEPT ![w] = <<>>]
    /\ UNCHANGED <<disk, table, calm, past>>

\* drop_code, delete_code_records: a project, the files of an extension, or one.
Drop ==
    /\ edits < MaxEdits
    /\ edits' = edits + 1
    /\ \E some \in {Files} \cup {{f} : f \in Files} : Delete(some \X Syms)
    /\ calm' = [w \in Runs |-> FALSE]
    /\ UNCHANGED <<disk, pc, run, note, whole, starts>>

\* The user edits, adds or removes a file.
Edit ==
    /\ edits < MaxEdits
    /\ edits' = edits + 1
    /\ \E f \in Files :
          \/ \E c \in Contents : disk' = [g \in DOMAIN disk \cup {f} |-> IF g = f THEN c ELSE disk[g]]
          \/ disk' = [g \in DOMAIN disk \ {f} |-> disk[g]]
    /\ calm' = [w \in Runs |-> FALSE]
    /\ UNCHANGED <<table, pc, run, note, whole, starts>>

-----------------------------------------------------------------------------

RunStep(w) ==
    \/ StartScan(w) \/ StartUpload(w) \/ TakeFile(w) \/ Push(w) \/ LastFlush(w)
    \/ EmbedFails(w) \/ FlushDelete(w) \/ FlushAdd(w) \/ UpsertFails(w)
    \/ CleanFile(w) \/ EndScan(w) \/ Die(w)

CodeNext == Drop \/ Edit \/ \E w \in Runs : RunStep(w)
Spec == Init /\ [][CodeNext]_vars

-----------------------------------------------------------------------------
(* Properties.                                                             *)

\* "Performs incremental updates via content hashing and cleans up stale entries
\* for deleted files": whatever earlier runs left behind that failed, died or
\* overlapped, one scan that meets no failure and no rival brings every symbol of
\* the project into the table and, if the table's rows were within what a scan reads,
\* every deleted file out of it.
ScanHeals ==
    \A w \in Scans : pc[w] = "done" /\ calm[w] /\ ~hurt[w] =>
        /\ \A f \in DOMAIN disk : \A pt \in Points(f, disk[f]) :
              pt.hash \in table[pt.pid]
        /\ whole[w] => \A f \in Files \ DOMAIN disk, s \in Syms : table[<<f, s>>] = {}

\* A run that reports no error stored every point it had: "N symbols failed to
\* index" and CompletedDegraded otherwise.
ErrorsCounted == \A w \in Runs : pc[w] = "done" /\ lost[w] => errors[w]

=============================================================================
