CONSTANTS
    f1 = f1
    f2 = f2
    s1 = s1
    s2 = s2
    w1 = w1
    u1 = u1
    a = a
    b = b
    x = x
    y = y
    Files <- MCFiles
    Syms <- MCSyms
    Hashes = {1, 2}
    Contents <- MCContents
    Scans <- MCScans
    Uploads <- MCUploads
    BatchSize = 2
    MaxScan = 2
    DeleteMayFail = TRUE
    MaxEdits = 1
    MaxStarts = 3
    Standards = {"CWE", "ASVS"}
    Texts = {a, b}
    NoText = "blank"
    Documents <- MCDocuments
    Sections = {"V1"}
    NoSection = ""
    Tasks = {x, y}
    MaxAttempts = 2
    MaxTasks = 2
    Records <- MCRecords
    Source = "auto"
    Broken <- MCBroken
    Tables <- MCTables
    Inputs <- MCInputs
    PageSizes = {2, 4}
    MaxLimit = 2
    ImportBatch = 3
    EmbedBatch = 2
    ScanSize = 2
    DeleteSize = 1
    MaxJobs = 2
    MaxWrites = 2
SPECIFICATION MCSpec
INVARIANTS ScanHeals ChunksAccounted ExportComplete  PurgeExact
CHECK_DEADLOCK FALSE
