------------------------------ MODULE Transfer ------------------------------
(***************************************************************************)
(* Whole-table jobs: export (the client's pages, memcan/src/main.rs, over  *)
(* the server's export_collection, and the admin command's loop in         *)
(* export.rs), import (main.rs, serve.rs, import.rs) and purge-memories,   *)
(* beside the requests of other clients.                                   *)
(*                                                                         *)
(* A scroll has no order of its own: a page is taken by position, and      *)
(* positions move when rows are deleted or rewritten.  An ID may have      *)
(* several rows (Memory).  The client's export writes through a buffer.    *)
(* One job runs at a time.  An upsert is one step here; Memory and         *)
(* CodeIndex open it.                                                      *)
(***************************************************************************)
EXTENDS Selection, Naturals, Sequences, SequencesExt, FiniteSets

CONSTANTS
    Records,        \* what may be stored: [id, source, data (has it any?)]
    Source,         \* the source a purge is asked for
    Broken,         \* a line that does not parse, or of an unknown collection
    Tables, Inputs,  \* initial tables; files that may be imported
    PageSizes,      \* --page-size
    MaxLimit,       \* 10000: the server's clamp
    ImportBatch,    \* --batch-size
    EmbedBatch,     \* EMBED_BATCH_SIZE
    ScanSize, DeleteSize,   \* of purge-memories: BATCH_SIZE and 500
    MaxJobs, MaxWrites  \* bounds on the jobs and on the writes of others explored

ASSUME TransferAssumption ==
    /\ Broken \notin Records
    /\ Tables \subseteq Seq(Records) /\ Inputs \subseteq Seq(Records \cup {Broken})
    /\ PageSizes \cup {MaxLimit, ImportBatch, EmbedBatch, ScanSize, DeleteSize} \subseteq Nat \ {0}
    /\ MaxJobs \in Nat /\ MaxWrites \in Nat

VARIABLES
    rows,      \* the rows, in the order a scroll returns them
    job, ended, \* the job and how it ended
    size,       \* page size of an export
    offset,
    file,       \* what is exported, or imported
    held,       \* what the exporting client's BufWriter has, or had when it was dropped
    left,       \* lines still to send, or IDs still to delete
    taken,      \* the records of a batch that the server has not taken yet
    sent, got, bad,     \*   its lines, and what it imported and reported so far
    imported, reported,   \* the totals of an import
    before,     \* history: the table when the job began
    steady,     \* history: since then others have added new rows and nothing else
    jobs, writes

count  == <<sent, got, bad, imported, reported>>
tvars  == <<rows, job, ended, size, offset, file, held, left, taken, count, before, steady, jobs, writes>>

TransferInit ==
    /\ rows \in Tables
    /\ job = "none" /\ ended = "no" /\ size = 1 /\ offset = 0
    /\ file \in Inputs /\ held = <<>>
    /\ left = <<>> /\ taken = <<>>
    /\ sent = 0 /\ got = 0 /\ bad = 0 /\ imported = 0 /\ reported = 0
    /\ before = <<>> /\ steady = FALSE
    /\ jobs = 0 /\ writes = 0

-----------------------------------------------------------------------------

First(n, seq) == SubSeq(seq, 1, IF n < Len(seq) THEN n ELSE Len(seq))
After(n, seq) == SubSeq(seq, n + 1, Len(seq))
RowIds(seq)   == {row.id : row \in ToSet(seq)}
Without(ids)  == Keep(rows, {row \in Records : row.id \notin ids})
Upsert(new)   == rows' = Without(RowIds(new)) \o new

Begin(what) ==
    /\ job = "none" /\ jobs < MaxJobs
    /\ jobs' = jobs + 1
    /\ job' = what /\ ended' = "no"
    /\ before' = rows /\ steady' = TRUE
    /\ offset' = 0 /\ held' = <<>>
    /\ UNCHANGED <<rows, writes>>

End(how) == job' = "none" /\ ended' = how

\* VectorStore::scroll.
Scroll(limit, from) == First(limit, After(from, rows))

-----------------------------------------------------------------------------
(* Export.                                                                 *)

\* An export asks for pages of this size; the file is created anew.
StartExport ==
    /\ \E kind \in {"export", "direct"} : Begin(kind)
    /\ size' \in PageSizes
    /\ file' = <<>>
    /\ UNCHANGED <<left, taken, count>>

Clamp(n) == IF n > MaxLimit THEN MaxLimit ELSE n

Page == Scroll(IF job = "export" THEN Clamp(size) ELSE size, offset)

\* Of the rows in the buffer and the new ones the first n reach the file.
Write(n, new) ==
    /\ file' = file \o First(n, held \o new)
    /\ held' = After(n, held \o new)

\* A fault: a full page is taken for the last one.
ExportPageOnce ==
    /\ job = "export"
    /\ \E n \in {0, Len(held), Len(held \o Page)} : Write(n, Page)
    /\ job' = IF Len(Page) <= size THEN "closing" ELSE job
    /\ offset' = offset + size
    /\ UNCHANGED <<rows, ended, size, left, taken, count, before, steady, jobs, writes>>

\* One call of the tool; a page that is not full is the last.  What does not fit
\* into the buffer sends it out, and goes after it if it never fits; stdout, where
\* no file is named, is not buffered.
ExportPage ==
    /\ job = "export"
    /\ \E n \in {0, Len(held), Len(held \o Page)} : Write(n, Page)
    /\ job' = IF Len(Page) < size THEN "closing" ELSE job
    /\ offset' = offset + size
    /\ UNCHANGED <<rows, ended, size, left, taken, count, before, steady, jobs, writes>>

\* "Exported N records" is printed before the buffer is dropped, which writes what
\* it can and tells nobody what it cannot; nor does a client that is killed.
DropWriter ==
    /\ job = "closing"
    /\ \E n \in 0..Len(held) : Write(n, <<>>)
    /\ End("export")
    /\ UNCHANGED <<rows, size, offset, left, taken, count, before, steady, jobs, writes>>

\* The admin command scrolls the store itself and has no buffer.
ExportDirect ==
    /\ job = "direct"
    /\ file' = file \o Page
    /\ offset' = offset + Len(Page)
    /\ IF Len(Page) < size THEN End("direct") ELSE UNCHANGED <<job, ended>>
    /\ UNCHANGED <<rows, size, held, left, taken, count, before, steady, jobs, writes>>

\* A scroll, a response that does not parse or a write, after any part of the page:
\* the program exits, and what is in the buffer is gone.
ExportFails ==
    /\ job \in {"export", "direct"}
    /\ \E n \in 0..Len(held \o Page) : Write(n, Page)
    /\ End("stopped")
    /\ UNCHANGED <<rows, size, offset, left, taken, count, before, steady, jobs, writes>>

-----------------------------------------------------------------------------
(* Import.                                                                 *)

StartImport ==
    /\ Begin("import")
    /\ left' = file /\ taken' = <<>>
    /\ sent' = 0 /\ got' = 0 /\ bad' = 0 /\ imported' = 0 /\ reported' = 0
    /\ UNCHANGED <<size, file>>

Readable(lines) == Keep(lines, Records)

\* A batch is sent; the server reads its lines and reports those it cannot.
SendBatch ==
    /\ job = "import" /\ sent = 0 /\ left # <<>>
    /\ LET lines == First(ImportBatch, left) IN
          /\ sent' = Len(lines)
          /\ taken' = Readable(lines)
          /\ bad' = Len(lines) - Len(Readable(lines))
    /\ got' = 0
    /\ left' = After(ImportBatch, left)
    /\ UNCHANGED <<rows, job, ended, size, offset, file, held, imported, reported, before, steady, jobs, writes>>

Chunk == First(EmbedBatch, taken)
Valid == Keep(Chunk, {record \in Records : record.data})

\* A fault: the chunks are embedded side by side and stored as they come.
ImportChunkUnordered ==
    /\ job = "import" /\ taken # <<>>
    /\ \E k \in {0, EmbedBatch} :
          LET next  == After(k, taken)
              chunk == First(EmbedBatch, next)
              valid == Keep(chunk, {record \in Records : record.data})
          IN  /\ next # <<>>
              /\ taken' = First(k, taken) \o After(EmbedBatch, next)
              /\ Upsert(valid)
              /\ got' = got + Len(valid)
              /\ bad' = bad + (Len(chunk) - Len(valid))
    /\ UNCHANGED <<job, ended, size, offset, file, held, left, sent, imported, reported, before, steady, jobs, writes>>

\* A chunk of the batch is embedded and upserted.  A record without data is an
\* error; an embedding that fails is one error for all the records it was for.
ImportChunk ==
    /\ job = "import" /\ taken # <<>>
    /\ \/ /\ Upsert(Valid)
          /\ got' = got + Len(Valid)
          /\ bad' = bad + (Len(Chunk) - Len(Valid))
       \/ /\ Valid # <<>>
          /\ bad' = bad + (Len(Chunk) - Len(Valid)) + 1
          /\ UNCHANGED <<rows, got>>
    /\ taken' = After(EmbedBatch, taken)
    /\ UNCHANGED <<job, ended, size, offset, file, held, left, sent, imported, reported, before, steady, jobs, writes>>

\* The tool answers.
BatchAnswered ==
    /\ job = "import" /\ sent > 0 /\ taken = <<>>
    /\ imported' = imported + got /\ reported' = reported + bad
    /\ sent' = 0 /\ got' = 0 /\ bad' = 0
    /\ UNCHANGED <<rows, job, ended, size, offset, file, held, left, taken, before, steady, jobs, writes>>

\* An upsert fails, or the call, or its answer is lost: the client counts every
\* line of the batch, the ones that were stored too.
BatchFails ==
    /\ job = "import" /\ sent > 0
    /\ reported' = reported + sent
    /\ taken' = <<>> /\ sent' = 0 /\ got' = 0 /\ bad' = 0
    /\ UNCHANGED <<rows, job, ended, size, offset, file, held, left, imported, before, steady, jobs, writes>>

EndImport ==
    /\ job = "import" /\ sent = 0 /\ left = <<>>
    /\ End("import")
    /\ UNCHANGED <<rows, size, offset, file, held, left, taken, count, before, steady, jobs, writes>>

-----------------------------------------------------------------------------
(* purge-memories.                                                         *)

OfSource == {row \in Records : row.source = Source}

StartPurge ==
    /\ Begin("purge")
    /\ left' = <<>>
    /\ UNCHANGED <<size, file, taken, count>>

\* A fault: the next page is taken after the rows that matched.
PurgeScanMatches ==
    /\ job = "purge"
    /\ LET page  == Scroll(ScanSize, offset)
           match == Keep(page, OfSource)
       IN  /\ left' = left \o match
           /\ offset' = offset + Len(match)
           /\ job' = IF Len(page) < ScanSize \/ match = <<>> THEN "purging" ELSE job
    /\ UNCHANGED <<rows, ended, size, file, held, taken, count, before, steady, jobs, writes>>

PurgeScan ==
    /\ job = "purge"
    /\ LET page == Scroll(ScanSize, offset) IN
          /\ left' = left \o Keep(page, OfSource)
          /\ job' = IF Len(page) < ScanSize THEN "purging" ELSE job
    /\ offset' = offset + ScanSize
    /\ UNCHANGED <<rows, ended, size, file, held, taken, count, before, steady, jobs, writes>>

PurgeDelete ==
    /\ job = "purging" /\ left # <<>>
    /\ rows' = Without(RowIds(First(DeleteSize, left)))
    /\ left' = After(DeleteSize, left)
    /\ UNCHANGED <<job, ended, size, offset, file, held, taken, count, before, steady, jobs, writes>>

EndPurge ==
    /\ job = "purging" /\ left = <<>>
    /\ End("purge")
    /\ UNCHANGED <<rows, size, offset, file, held, left, taken, count, before, steady, jobs, writes>>

\* The store fails: run returns the error.
PurgeFails ==
    /\ job \in {"purge", "purging"}
    /\ End("failed")
    /\ left' = <<>>
    /\ UNCHANGED <<rows, size, offset, file, held, taken, count, before, steady, jobs, writes>>

-----------------------------------------------------------------------------

\* Requests of other clients: a new row, an upsert that replaces the rows of an ID,
\* by one of another source even, and moves them to the end, the half of an upsert
\* that met another one and left the ID two rows, a delete.
Others ==
    /\ writes < MaxWrites
    /\ writes' = writes + 1
    /\ \E record \in {row \in Records : row.data} :
          \/ /\ record.id \notin RowIds(rows \o before)
             /\ rows' = Append(rows, record) /\ steady' = (steady /\ job # "none")
          \/ /\ record.id \in RowIds(rows) /\ steady' = FALSE
             /\ \/ Upsert(<<record>>)
                \/ rows' = Append(rows, record)
                \/ rows' = Without({record.id})
    /\ UNCHANGED <<job, ended, size, offset, file, held, left, taken, count, before, jobs>>

TransferNext ==
    \/ StartExport \/ ExportPage \/ DropWriter \/ ExportDirect \/ ExportFails
    \/ StartImport \/ SendBatch \/ ImportChunk \/ BatchAnswered \/ BatchFails \/ EndImport
    \/ StartPurge \/ PurgeScan \/ PurgeDelete \/ EndPurge \/ PurgeFails
    \/ Others
TransferSpec == TransferInit /\ [][TransferNext]_tvars

-----------------------------------------------------------------------------
(* Properties.                                                             *)

\* However an export ends, beside clients that only add rows, its file is the head
\* of the table, no row left out or twice.  One that ends well has every row the
\* table had at its start, with two exceptions: what the buffer could not write at
\* its end, and what is behind the first page of a client that asks for more than
\* the server's clamp.
ExportComplete ==
    steady =>
        /\ ended \in {"export", "direct", "stopped"} => IsPrefix(file, rows)
        /\ ended = "direct" => IsPrefix(before, file)
        /\ ended = "export" /\ size <= MaxLimit => IsPrefix(before, file \o held)

\* "Imported N records (0 errors)": N counts every line of the file; the last line of
\* each ID is in the table, and no row of one of its IDs is from anywhere else.
ImportHonest ==
    ended = "import" /\ reported = 0 /\ steady =>
        /\ imported = Len(file)
        /\ \A i \in DOMAIN file :
              (\A j \in DOMAIN file : j > i => file[j].id # file[i].id) => file[i] \in ToSet(rows)
        /\ \A row \in ToSet(rows) : row.id \in RowIds(file) => row \in ToSet(file)

\* A purge beside clients that only add rows deletes, of the rows that were there,
\* those of its source and those that share an ID with one of them, and no other.
PurgeExact ==
    ended = "purge" /\ steady =>
        \A row \in ToSet(before) :
            row \in ToSet(rows) <=> ~\E other \in ToSet(before) : other.id = row.id /\ other.source = Source

=============================================================================
