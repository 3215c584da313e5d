----------------------------- MODULE MCBulkJobs -----------------------------
(* TLC instances of CodeIndex, StandardsIndex and Transfer, the jobs over  *)
(* whole tables.  They share no table: a behaviour is of one of them.      *)
EXTENDS CodeIndex, StandardsIndex, Transfer
CONSTANTS f1, f2, s1, s2, w1, u1, a, b, x, y

VARIABLE side

MCFiles    == {f1, f2}
MCSyms     == {s1, s2}
\* A file with a symbol, and with it changed and another one.
MCContents == {[s \in {s1} |-> 1], [s \in {s1, s2} |-> 2]}
MCScans    == {w1}
MCUploads  == {u1}

MCDocuments == {<<a>>, <<b, "blank", a>>}

Row(id, source, data) == [id |-> id, source |-> source, data |-> data]
MCBroken  == Row(0, "", FALSE)
MCRecords == {Row(1, "auto", TRUE), Row(1, "user", TRUE), Row(2, "user", TRUE), Row(3, "auto", TRUE),
              Row(4, "user", FALSE)}
\* Of two rows of one ID, which stand apart, one is of the source to be purged.
MCTables  == {<<>>, <<Row(1, "auto", TRUE), Row(2, "user", TRUE), Row(3, "auto", TRUE)>>,
              <<Row(1, "user", TRUE), Row(2, "user", TRUE), Row(1, "auto", TRUE)>>}
\* With lines that fail, and with lines of one ID, in one chunk, in two and in two batches.
MCInputs  == {<<>>, <<Row(2, "user", TRUE), MCBroken, Row(1, "auto", TRUE), Row(4, "user", FALSE)>>,
              <<Row(2, "user", TRUE), Row(1, "auto", TRUE), Row(3, "auto", TRUE)>>,
              <<Row(1, "auto", TRUE), Row(1, "user", TRUE), Row(1, "auto", TRUE), Row(1, "user", TRUE)>>}

MCInit ==
    /\ Init /\ StandardsInit /\ TransferInit
    /\ side \in {"code", "standards", "transfer"}
    /\ side # "transfer" => rows = <<>> /\ file = <<>>
    /\ side # "code" => \A f \in MCFiles : DOMAIN disk[f] = {s1}
MCNext ==
    /\ UNCHANGED side
    /\ \/ side = "code" /\ CodeNext /\ UNCHANGED <<svars, tvars>>
       \/ side = "standards" /\ StandardsNext /\ UNCHANGED <<vars, tvars>>
       \/ side = "transfer" /\ TransferNext /\ UNCHANGED <<vars, svars>>
MCSpec == MCInit /\ [][MCNext]_<<vars, svars, tvars, side>>
=============================================================================
