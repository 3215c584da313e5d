----------------------------- MODULE BulkProofs -----------------------------
(***************************************************************************)
(* Proofs about the jobs over whole tables, CodeIndex, StandardsIndex and  *)
(* Transfer, for any files, contents, runs, documents and records.         *)
(***************************************************************************)
EXTENDS CodeIndex, StandardsIndex, Transfer, CommonFacts

(***************************************************************************)
(* CodeIndex: one scan that meets no failure and no rival heals the table. *)
(***************************************************************************)

CodeShape ==
    /\ DOMAIN pc = Runs /\ DOMAIN known = Runs /\ DOMAIN files = Runs
    /\ DOMAIN gone = Runs /\ DOMAIN todo = Runs /\ DOMAIN batch = Runs
    /\ DOMAIN hurt = Runs /\ DOMAIN calm = Runs /\ DOMAIN whole = Runs /\ DOMAIN table = Pids

DiskOK ==
    /\ DOMAIN disk \subseteq Files
    /\ \A f \in DOMAIN disk : DOMAIN disk[f] \subseteq Syms

\* A run that is between two of its phases has nothing in hand.
AtRest ==
    \A w \in Runs :
        /\ pc[w] \in {"idle", "clean", "done"} =>
              todo[w] = {} /\ batch[w] = {} /\ files[w] = {}
        /\ pc[w] = "done" /\ w \in Scans => gone[w] = {}

\* A symbol of the project is in the table, or in hand, or in a file to come.
Reached(w) ==
    \A f \in DOMAIN disk : \A pt \in Points(f, disk[f]) :
        pt.hash \in table[pt.pid] \/ pt \in todo[w] \/ pt \in batch[w] \/ f \in files[w]

\* What is in hand is what the project holds, of files that were taken.
InHand(w) ==
    \A pt \in todo[w] \cup batch[w] :
        \E f \in DOMAIN disk \ files[w] : pt \in Points(f, disk[f])

\* What was in the table at the start is there until its file is taken.
StillKnown(w) ==
    \A pt \in known[w] : pt.pid \in Pids /\ (pt.pid[1] \in files[w] => pt.hash \in table[pt.pid])

\* A file that is not there has no rows, or is on the list to be cleaned up, if the
\* scan read all rows.
Vanished(w) ==
    /\ gone[w] \cap DOMAIN disk = {}
    /\ whole[w] => \A f \in Files \ DOMAIN disk, s \in Syms : table[<<f, s>>] = {} \/ f \in gone[w]

Undisturbed(w) == pc[w] # "idle" /\ calm[w] /\ ~hurt[w]

OnTheWay(w) == Reached(w) /\ InHand(w) /\ StillKnown(w) /\ Vanished(w)

CodeInv ==
    /\ CodeShape /\ DiskOK /\ AtRest
    /\ \A w \in Scans : Undisturbed(w) => OnTheWay(w)

-----------------------------------------------------------------------------

LEMMA CodeInitInv == Init => CodeInv
<1> SUFFICES ASSUME Init PROVE CodeInv
  OBVIOUS
<1>1. CodeShape
  BY DEF Init, CodeShape
<1>2. DiskOK
  <2>1. PICK c \in Contents : disk = [f \in Files |-> c]
    BY DEF Init
  <2>2. QED BY <2>1, CodeAssumption DEF DiskOK
<1>3. AtRest
  BY DEF Init, AtRest
<1>4. \A w \in Scans : ~Undisturbed(w)
  BY DEF Init, Undisturbed, Runs
<1>5. QED BY <1>1, <1>2, <1>3, <1>4 DEF CodeInv

LEMMA CodeTypeStep == CodeShape /\ DiskOK /\ [CodeNext]_vars => CodeShape' /\ DiskOK'
<1> SUFFICES ASSUME CodeShape, DiskOK, [CodeNext]_vars PROVE CodeShape' /\ DiskOK'
  OBVIOUS
<1>1. CASE UNCHANGED vars
  BY <1>1 DEF vars, run, note, past, CodeShape, DiskOK
<1>2. CASE Drop
  BY <1>2 DEF Drop, Delete, run, note, CodeShape, DiskOK
<1>3. CASE Edit
  <2>1. CodeShape'
    BY <1>3 DEF Edit, run, note, CodeShape
  <2>2. PICK f \in Files :
          \/ \E c \in Contents : disk' = [g \in DOMAIN disk \cup {f} |-> IF g = f THEN c ELSE disk[g]]
          \/ disk' = [g \in DOMAIN disk \ {f} |-> disk[g]]
    BY <1>3 DEF Edit
  <2>3. DiskOK'
    BY <2>2, CodeAssumption DEF DiskOK
  <2>4. QED BY <2>1, <2>3
<1>4. ASSUME NEW w \in Runs, RunStep(w) PROVE CodeShape' /\ DiskOK'
  <2>1. UNCHANGED disk
    BY <1>4 DEF RunStep, StartScan, StartUpload, TakeFile, Push, LastFlush, EmbedFails,
       FlushDelete, FlushAdd, UpsertFails, CleanFile, EndScan, Die
  <2>2. CodeShape'
    BY <1>4 DEF RunStep, StartScan, StartUpload, Start, TakeFile, Push, LastFlush,
       EmbedFails, FlushDelete, FlushAdd, UpsertFails, CleanFile, EndScan, Die, Go,
       AfterFlush, Touched, Delete, run, note, past, CodeShape
  <2>3. QED BY <2>1, <2>2 DEF DiskOK
<1>5. QED BY <1>1, <1>2, <1>3, <1>4 DEF CodeNext


LEMMA PointsOfFile ==
    ASSUME DiskOK, NEW f \in DOMAIN disk, NEW pt \in Points(f, disk[f])
    PROVE  /\ pt.pid \in Pids /\ pt.pid[1] = f
           /\ \A q \in Points(f, disk[f]) : q.pid = pt.pid => q = pt
<1>1. PICK s \in DOMAIN disk[f] : pt = [pid |-> <<f, s>>, hash |-> disk[f][s]]
  BY DEF Points
<1>2. s \in Syms /\ f \in Files
  BY DEF DiskOK
<1>3. pt.pid \in Pids /\ pt.pid[1] = f
  BY <1>1, <1>2 DEF Pids
<1>4. ASSUME NEW q \in Points(f, disk[f]), q.pid = pt.pid PROVE q = pt
  BY <1>1, <1>4 DEF Points
<1>5. QED BY <1>3, <1>4

\* A step that leaves a run's own state, the project and the table alone.
Apart(w) ==
    /\ pc'[w] = pc[w] /\ hurt'[w] = hurt[w] /\ known'[w] = known[w]
    /\ files'[w] = files[w] /\ gone'[w] = gone[w] /\ todo'[w] = todo[w]
    /\ batch'[w] = batch[w] /\ disk' = disk
    /\ whole'[w] = whole[w]
    /\ calm'[w] => calm[w] /\ \A p \in Pids : table'[p] = table[p]

LEMMA ApartStep ==
    ASSUME CodeInv, NEW w \in Scans, Apart(w), Undisturbed(w)'
    PROVE  OnTheWay(w)'
<1>1. Undisturbed(w) /\ \A p \in Pids : table'[p] = table[p]
  BY DEF Undisturbed, Apart
<1>2. OnTheWay(w) /\ DiskOK
  BY <1>1 DEF CodeInv
<1>3. Reached(w)'
  BY <1>1, <1>2, PointsOfFile DEF Reached, Apart, OnTheWay
<1>4. InHand(w)'
  BY <1>1, <1>2 DEF InHand, Apart, OnTheWay
<1>5. StillKnown(w)'
  BY <1>1, <1>2 DEF StillKnown, Apart, OnTheWay
<1>6. Vanished(w)'
  BY <1>1, <1>2 DEF Vanished, Apart, OnTheWay, Pids
<1>7. QED BY <1>3, <1>4, <1>5, <1>6 DEF OnTheWay

\* What one run does leaves another scan alone, or no longer undisturbed.
LEMMA OthersApart ==
    ASSUME CodeShape, NEW v \in Runs, RunStep(v), NEW w \in Runs, w # v
    PROVE  Apart(w)
<1>0. disk' = disk
  BY DEF RunStep, StartScan, StartUpload, TakeFile, Push, LastFlush, EmbedFails,
     FlushDelete, FlushAdd, UpsertFails, CleanFile, EndScan, Die
<1>1. calm'[w] => calm[w] /\ \A p \in Pids : table'[p] = table[p]
  BY DEF RunStep, StartScan, StartUpload, TakeFile, Push, LastFlush, EmbedFails,
     FlushDelete, FlushAdd, UpsertFails, CleanFile, EndScan, Die, Touched, run, note, CodeShape
<1>2. pc'[w] = pc[w]
  BY DEF RunStep, StartScan, StartUpload, Start, TakeFile, Push, LastFlush, EmbedFails,
     FlushDelete, FlushAdd, UpsertFails, CleanFile, EndScan, Die, Go, AfterFlush, CodeShape
<1>3. hurt'[w] = hurt[w]
  <2>1. CASE StartScan(v) \/ StartUpload(v) \/ TakeFile(v) \/ Push(v) \/ LastFlush(v) \/ Die(v)
    BY <2>1 DEF StartScan, StartUpload, Start, TakeFile, Push, LastFlush, Die, note, CodeShape
  <2>2. CASE EmbedFails(v) \/ FlushDelete(v) \/ FlushAdd(v) \/ UpsertFails(v)
    BY <2>2 DEF EmbedFails, FlushDelete, FlushAdd, UpsertFails, note, CodeShape
  <2>3. CASE CleanFile(v) \/ EndScan(v)
    BY <2>3 DEF CleanFile, EndScan, note, CodeShape
  <2>4. QED BY <2>1, <2>2, <2>3 DEF RunStep
<1>4. known'[w] = known[w] /\ gone'[w] = gone[w]
  BY DEF RunStep, StartScan, StartUpload, TakeFile, Push, LastFlush, EmbedFails,
     FlushDelete, FlushAdd, UpsertFails, CleanFile, EndScan, Die, run, CodeShape
<1>5. whole'[w] = whole[w]
  BY DEF RunStep, StartScan, StartUpload, TakeFile, Push, LastFlush, EmbedFails,
     FlushDelete, FlushAdd, UpsertFails, CleanFile, EndScan, Die, past, CodeShape
<1>6. files'[w] = files[w] /\ todo'[w] = todo[w]
  BY DEF RunStep, StartScan, StartUpload, TakeFile, Push, LastFlush, EmbedFails,
     FlushDelete, FlushAdd, UpsertFails, CleanFile, EndScan, Die, run, CodeShape
<1>7. batch'[w] = batch[w]
  BY DEF RunStep, StartScan, StartUpload, TakeFile, Push, LastFlush, EmbedFails,
     FlushDelete, FlushAdd, UpsertFails, CleanFile, EndScan, Die, AfterFlush, run, CodeShape
<1>8. QED BY <1>0, <1>1, <1>2, <1>4, <1>6, <1>7, <1>3, <1>5 DEF Apart

LEMMA RestStep == CodeShape /\ AtRest /\ [CodeNext]_vars => AtRest'
<1> SUFFICES ASSUME CodeShape, AtRest, [CodeNext]_vars PROVE AtRest'
  OBVIOUS
<1>1. CASE UNCHANGED vars
  BY <1>1 DEF vars, run, AtRest
<1>2. CASE Drop \/ Edit
  BY <1>2 DEF Drop, Edit, run, AtRest
<1>3. ASSUME NEW v \in Runs, RunStep(v) PROVE AtRest'
  <2> DEFINE Rests(w) ==
        /\ pc[w] \in {"idle", "clean", "done"} =>
              todo[w] = {} /\ batch[w] = {} /\ files[w] = {}
        /\ pc[w] = "done" /\ w \in Scans => gone[w] = {}
  <2>1. ASSUME NEW w \in Runs, w # v PROVE Rests(w)'
    BY <1>3, <2>1, OthersApart DEF AtRest, Apart
  <2>2. Rests(v)'
    <3>1. CASE StartScan(v) \/ StartUpload(v)
      BY <3>1 DEF StartScan, StartUpload, Start, Go, CodeShape
    <3>2. CASE TakeFile(v) \/ Push(v)
      BY <3>2 DEF TakeFile, Push, Go, CodeShape
    <3>3. CASE LastFlush(v)
      BY <3>3 DEF LastFlush, AfterFlush, Go, CodeShape
    <3>4. CASE EmbedFails(v) \/ UpsertFails(v) \/ FlushAdd(v)
      BY <3>4 DEF EmbedFails, UpsertFails, FlushAdd, AfterFlush, Go, CodeShape
    <3>5. CASE FlushDelete(v)
      BY <3>5 DEF FlushDelete, Go, CodeShape
    <3>6. CASE CleanFile(v)
      BY <3>6 DEF CleanFile, CodeShape, AtRest
    <3>7. CASE EndScan(v) \/ Die(v)
      BY <3>7 DEF EndScan, Die, Go, CodeShape, AtRest
    <3>8. QED BY <1>3, <3>1, <3>2, <3>3, <3>4, <3>5, <3>6, <3>7 DEF RunStep
  <2>3. QED BY <2>1, <2>2 DEF AtRest
<1>4. QED BY <1>1, <1>2, <1>3 DEF CodeNext

\* What a scan does itself.
LEMMA ScanStarts ==
    ASSUME CodeInv, NEW w \in Scans, StartScan(w) PROVE OnTheWay(w)'
<1>0. w \in Runs
  BY DEF Runs
<1>1. PICK k \in SUBSET Rows :
          /\ \E read \in SUBSET Rows : /\ whole' = [whole EXCEPT ![w] = (read = Rows)]
                                      /\ Ids(k) = Ids(read)
          /\ known' = [known EXCEPT ![w] = k]
          /\ gone' = [gone EXCEPT ![w] = FilesOf(k) \ DOMAIN disk]
  <2>1. PICK read \in SUBSET Rows : \E k \in SUBSET read :
          /\ whole' = [whole EXCEPT ![w] = (read = Rows)]
          /\ Ids(k) = Ids(read)
          /\ known' = [known EXCEPT ![w] = k]
          /\ gone' = [gone EXCEPT ![w] = FilesOf(k) \ DOMAIN disk]
    BY DEF StartScan
  <2>2. QED BY <2>1
<1>2. whole'[w] => Ids(k) = Ids(Rows)
  BY <1>0, <1>1 DEF CodeInv, CodeShape
<1>3. /\ known'[w] = k /\ gone'[w] = FilesOf(k) \ DOMAIN disk /\ files'[w] = DOMAIN disk
      /\ disk' = disk /\ table' = table /\ todo'[w] = todo[w] /\ batch'[w] = batch[w]
  BY <1>0, <1>1 DEF StartScan, CodeInv, CodeShape
<1>4. todo[w] = {} /\ batch[w] = {}
  BY <1>0 DEF StartScan, Start, Active, CodeInv, AtRest
<1>5. ASSUME NEW pt \in k PROVE pt.pid \in Pids /\ pt.hash \in table[pt.pid]
  BY DEF Rows
<1>6. ASSUME whole'[w], NEW f \in Files \ DOMAIN disk, NEW s \in Syms, table[<<f, s>>] # {}
      PROVE  f \in FilesOf(k)
  <2>1. <<f, s>> \in Pids
    BY DEF Pids
  <2>2. PICK h \in table[<<f, s>>] : TRUE
    BY <1>6
  <2>3. [pid |-> <<f, s>>, hash |-> h] \in Rows
    BY <2>1, <2>2 DEF Rows
  <2>4. <<f, s>> \in Ids(k)
    BY <1>2, <1>6, <2>3 DEF Ids
  <2>5. PICK q \in k : q.pid = <<f, s>>
    BY <2>4 DEF Ids
  <2>6. QED BY <2>5 DEF FilesOf
<1>7. Reached(w)' /\ InHand(w)'
  BY <1>3, <1>4 DEF Reached, InHand
<1>8. StillKnown(w)'
  BY <1>3, <1>5 DEF StillKnown
<1>9. Vanished(w)'
  BY <1>3, <1>6 DEF Vanished
<1>10. QED BY <1>7, <1>8, <1>9 DEF OnTheWay

LEMMA ScanTakes ==
    ASSUME CodeInv, NEW w \in Scans, TakeFile(w), Undisturbed(w), OnTheWay(w), ~hurt'[w]
    PROVE  OnTheWay(w)'
<1>0. w \in Runs /\ w \notin Uploads
  BY CodeAssumption DEF Runs
<1>1. PICK f \in files[w] :
          /\ files' = [files EXCEPT ![w] = @ \ {f}]
          /\ f \in DOMAIN disk
          /\ todo' = [todo EXCEPT ![w] = Fresh(w, Points(f, disk[f]))]
  BY <1>0 DEF TakeFile, CodeInv, CodeShape
<1>2. /\ files'[w] = files[w] \ {f} /\ todo'[w] = Points(f, disk[f]) \ known[w]
      /\ todo[w] = {} /\ batch' = batch /\ disk' = disk /\ table' = table
      /\ known' = known /\ gone' = gone /\ whole' = whole
  BY <1>0, <1>1 DEF TakeFile, Fresh, past, CodeInv, CodeShape
<1>3. ASSUME NEW pt \in Points(f, disk[f]), pt \in known[w] PROVE pt.hash \in table[pt.pid]
  <2>1. pt.pid[1] = f
    BY <1>1, PointsOfFile DEF CodeInv
  <2>2. QED BY <1>3, <2>1 DEF StillKnown, OnTheWay
<1>4. Reached(w)'
  BY <1>2, <1>3 DEF Reached, OnTheWay
<1>5. InHand(w)'
  BY <1>1, <1>2 DEF InHand, OnTheWay
<1>6. StillKnown(w)' /\ Vanished(w)'
  BY <1>2 DEF StillKnown, Vanished, OnTheWay
<1>7. QED BY <1>4, <1>5, <1>6 DEF OnTheWay

LEMMA ScanDeletes ==
    ASSUME CodeInv, NEW w \in Scans, FlushDelete(w), Undisturbed(w), OnTheWay(w), ~hurt'[w]
    PROVE  OnTheWay(w)'
<1>1. w \in Runs /\ DiskOK
  BY DEF Runs, CodeInv
<1>2. /\ \A p \in Pids : table'[p] = IF p \in Ids(batch[w]) THEN {} ELSE table[p]
      /\ disk' = disk /\ known' = known /\ files' = files /\ gone' = gone /\ whole' = whole
      /\ todo' = todo /\ batch' = batch
  BY <1>1 DEF FlushDelete, Delete, run, past, CodeInv, CodeShape
<1>3. ASSUME NEW pt \in batch[w]
      PROVE  \E f \in DOMAIN disk \ files[w] :
                /\ pt \in Points(f, disk[f]) /\ pt.pid[1] = f
                /\ \A q \in Points(f, disk[f]) : q.pid = pt.pid => q = pt
  <2>1. PICK f \in DOMAIN disk \ files[w] : pt \in Points(f, disk[f])
    BY DEF OnTheWay, InHand
  <2>2. QED BY <1>1, <2>1, PointsOfFile
<1>4. Reached(w)'
  <2> SUFFICES ASSUME NEW f \in DOMAIN disk, NEW pt \in Points(f, disk[f]),
                      pt \notin batch[w], pt.hash \in table[pt.pid]
               PROVE  pt.hash \in table'[pt.pid]
    BY <1>2 DEF Reached, OnTheWay
  <2>1. pt.pid \in Pids /\ pt.pid[1] = f
    BY <1>1, PointsOfFile
  <2>2. pt.pid \notin Ids(batch[w])
    BY <1>3, <2>1 DEF Ids
  <2>3. QED BY <1>2, <2>1, <2>2
<1>5. InHand(w)'
  BY <1>2 DEF InHand, OnTheWay
<1>6. StillKnown(w)'
  BY <1>2, <1>3 DEF StillKnown, OnTheWay, Ids
<1>7. Vanished(w)'
  BY <1>2 DEF Vanished, OnTheWay, Pids
<1>8. QED BY <1>4, <1>5, <1>6, <1>7 DEF OnTheWay

LEMMA ScanAdds ==
    ASSUME CodeInv, NEW w \in Scans, FlushAdd(w), Undisturbed(w), OnTheWay(w)
    PROVE  OnTheWay(w)'
<1>1. w \in Runs /\ DiskOK
  BY DEF Runs, CodeInv
<1>2. /\ \A p \in Pids : table'[p] = table[p] \cup {pt.hash : pt \in {q \in batch[w] : q.pid = p}}
      /\ disk' = disk /\ known' = known /\ files' = files /\ gone' = gone /\ whole' = whole
      /\ todo' = todo /\ batch'[w] = {}
  BY <1>1 DEF FlushAdd, AfterFlush, past, CodeInv, CodeShape
<1>3. Reached(w)'
  <2> SUFFICES ASSUME NEW f \in DOMAIN disk, NEW pt \in Points(f, disk[f]),
                      pt.hash \in table[pt.pid] \/ pt \in batch[w]
               PROVE  pt.hash \in table'[pt.pid]
    BY <1>2 DEF Reached, OnTheWay
  <2>1. pt.pid \in Pids
    BY <1>1, PointsOfFile
  <2>2. QED BY <1>2, <2>1
<1>4. InHand(w)'
  BY <1>2 DEF InHand, OnTheWay
<1>5. StillKnown(w)'
  BY <1>2 DEF StillKnown, OnTheWay
<1>6. Vanished(w)'
  <2> SUFFICES ASSUME NEW f \in Files \ DOMAIN disk, NEW s \in Syms, table[<<f, s>>] = {}
               PROVE  table'[<<f, s>>] = {}
    BY <1>2 DEF Vanished, OnTheWay
  <2>1. <<f, s>> \in Pids
    BY DEF Pids
  <2>2. ASSUME NEW q \in batch[w] PROVE q.pid # <<f, s>>
    <3>1. PICK g \in DOMAIN disk : q \in Points(g, disk[g])
      BY DEF OnTheWay, InHand
    <3>2. q.pid[1] = g
      BY <1>1, <3>1, PointsOfFile
    <3>3. QED BY <3>1, <3>2
  <2>3. QED BY <1>2, <2>1, <2>2
<1>7. QED BY <1>3, <1>4, <1>5, <1>6 DEF OnTheWay

LEMMA ScanCleans ==
    ASSUME CodeInv, NEW w \in Scans, CleanFile(w), Undisturbed(w), OnTheWay(w), ~hurt'[w]
    PROVE  OnTheWay(w)'
<1>1. w \in Runs /\ DiskOK
  BY DEF Runs, CodeInv
<1>2. PICK f \in gone[w] :
          /\ gone' = [gone EXCEPT ![w] = @ \ {f}]
          /\ Delete({f} \X Syms)
  BY <1>1 DEF CleanFile, CodeInv, CodeShape
<1>3. /\ gone'[w] = gone[w] \ {f} /\ f \notin DOMAIN disk
      /\ \A p \in Pids : table'[p] = IF p \in {f} \X Syms THEN {} ELSE table[p]
      /\ disk' = disk /\ known' = known /\ files' = files /\ todo' = todo /\ batch' = batch
      /\ whole' = whole /\ files[w] = {}
  BY <1>1, <1>2 DEF CleanFile, Delete, past, OnTheWay, Vanished, CodeInv, CodeShape, AtRest
<1>4. Reached(w)'
  <2> SUFFICES ASSUME NEW g \in DOMAIN disk, NEW pt \in Points(g, disk[g]),
                      pt.hash \in table[pt.pid]
               PROVE  pt.hash \in table'[pt.pid]
    BY <1>3 DEF Reached, OnTheWay
  <2>1. pt.pid \in Pids /\ pt.pid[1] = g
    BY <1>1, PointsOfFile
  <2>2. QED BY <1>3, <2>1
<1>5. InHand(w)'
  BY <1>3 DEF InHand, OnTheWay
<1>6. StillKnown(w)'
  BY <1>3 DEF StillKnown, OnTheWay
<1>7. Vanished(w)'
  <2>1. gone'[w] \cap DOMAIN disk' = {}
    BY <1>3 DEF Vanished, OnTheWay
  <2>2. ASSUME whole[w], NEW g \in Files \ DOMAIN disk, NEW s \in Syms
        PROVE  table'[<<g, s>>] = {} \/ g \in gone'[w]
    <3>1. <<g, s>> \in Pids
      BY DEF Pids
    <3>2. table[<<g, s>>] = {} \/ g \in gone[w]
      BY <2>2 DEF Vanished, OnTheWay
    <3>3. QED BY <1>3, <3>1, <3>2
  <2>3. QED BY <1>3, <2>1, <2>2 DEF Vanished
<1>8. QED BY <1>4, <1>5, <1>6, <1>7 DEF OnTheWay

LEMMA ScanStep ==
    ASSUME CodeInv, NEW w \in Scans, RunStep(w), Undisturbed(w)' PROVE OnTheWay(w)'
<1>0. w \in Runs /\ w \notin Uploads /\ CodeShape
  BY CodeAssumption DEF Runs, CodeInv
<1>1. CASE StartScan(w)
  BY <1>1, ScanStarts
<1>2. CASE ~StartScan(w)
  <2>1. ~hurt'[w] /\ calm'[w]
    BY DEF Undisturbed
  <2>2. ~EmbedFails(w) /\ ~UpsertFails(w) /\ ~Die(w) /\ ~StartUpload(w)
    BY <1>0, <2>1 DEF EmbedFails, UpsertFails, Die, StartUpload, CodeShape
  <2>3. TakeFile(w) \/ Push(w) \/ LastFlush(w) \/ FlushDelete(w) \/ FlushAdd(w)
          \/ CleanFile(w) \/ EndScan(w)
    BY <1>2, <2>2 DEF RunStep
  <2>4. ~hurt[w]
    BY <1>0, <2>1, <2>3 DEF TakeFile, Push, LastFlush, FlushDelete, FlushAdd, CleanFile,
       EndScan, note, CodeShape
  <2>5. calm[w]
    BY <1>0, <2>1, <2>3 DEF TakeFile, Push, LastFlush, FlushDelete, FlushAdd, CleanFile,
       EndScan, Touched, CodeShape
  <2>6. Undisturbed(w)
    BY <2>3, <2>4, <2>5 DEF Undisturbed, TakeFile, Push, LastFlush, FlushDelete, FlushAdd,
       CleanFile, EndScan
  <2>7. OnTheWay(w)
    BY <2>6 DEF CodeInv
  <2>8. CASE TakeFile(w)
    BY <2>1, <2>6, <2>7, <2>8, ScanTakes
  <2>9. CASE FlushDelete(w)
    BY <2>1, <2>6, <2>7, <2>9, ScanDeletes
  <2>10. CASE FlushAdd(w)
    BY <2>6, <2>7, <2>10, ScanAdds
  <2>11. CASE CleanFile(w)
    BY <2>1, <2>6, <2>7, <2>11, ScanCleans
  <2>12. CASE Push(w)
    <3>1. /\ todo'[w] \cup batch'[w] = todo[w] \cup batch[w]
          /\ disk' = disk /\ table' = table /\ known' = known /\ files' = files /\ gone' = gone /\ whole' = whole
      BY <1>0, <2>12 DEF Push, past, CodeShape
    <3>2. QED BY <2>7, <3>1 DEF OnTheWay, Reached, InHand, StillKnown, Vanished
  <2>13. CASE LastFlush(w)
    <3>1. /\ todo' = todo /\ batch'[w] = batch[w]
          /\ disk' = disk /\ table' = table /\ known' = known /\ files' = files /\ gone' = gone /\ whole' = whole
      BY <1>0, <2>13 DEF LastFlush, AfterFlush, past, CodeShape
    <3>2. QED BY <2>7, <3>1 DEF OnTheWay, Reached, InHand, StillKnown, Vanished
  <2>14. CASE EndScan(w)
    <3>1. /\ todo' = todo /\ batch' = batch /\ known'[w] = {}
          /\ disk' = disk /\ table' = table /\ files' = files /\ gone' = gone /\ whole' = whole
      BY <1>0, <2>14 DEF EndScan, past, CodeShape
    <3>2. QED BY <2>7, <3>1 DEF OnTheWay, Reached, InHand, StillKnown, Vanished
  <2>15. QED BY <2>3, <2>8, <2>9, <2>10, <2>11, <2>12, <2>13, <2>14
<1>3. QED BY <1>1, <1>2

LEMMA CodeInvStep == CodeInv /\ [CodeNext]_vars => CodeInv'
<1> SUFFICES ASSUME CodeInv, [CodeNext]_vars PROVE CodeInv'
  OBVIOUS
<1>1. CodeShape' /\ DiskOK' /\ AtRest'
  BY CodeTypeStep, RestStep DEF CodeInv
<1>2. ASSUME NEW w \in Scans, Undisturbed(w)' PROVE OnTheWay(w)'
  <2>0. w \in Runs /\ CodeShape
    BY DEF Runs, CodeInv
  <2>1. CASE UNCHANGED vars
    <3>1. Apart(w)
      BY <2>1 DEF vars, run, note, past, Apart
    <3>2. QED BY <1>2, <3>1, ApartStep
  <2>2. CASE Drop \/ Edit
    BY <1>2, <2>0, <2>2 DEF Undisturbed, Drop, Edit
  <2>3. ASSUME NEW v \in Runs, RunStep(v) PROVE OnTheWay(w)'
    <3>1. CASE v = w
      BY <1>2, <2>3, <3>1, ScanStep
    <3>2. CASE v # w
      BY <1>2, <2>0, <2>3, <3>2, OthersApart, ApartStep
    <3>3. QED BY <3>1, <3>2
  <2>4. QED BY <2>1, <2>2, <2>3 DEF CodeNext
<1>3. QED BY <1>1, <1>2 DEF CodeInv

LEMMA CodeInvHeals == CodeInv => ScanHeals
<1> SUFFICES ASSUME CodeInv, NEW w \in Scans, pc[w] = "done", calm[w], ~hurt[w]
             PROVE  /\ \A f \in DOMAIN disk : \A pt \in Points(f, disk[f]) :
                           pt.hash \in table[pt.pid]
                    /\ whole[w] => \A f \in Files \ DOMAIN disk, s \in Syms : table[<<f, s>>] = {}
  BY DEF ScanHeals
<1>1. w \in Runs /\ OnTheWay(w)
  BY DEF Runs, CodeInv, Undisturbed
<1>2. todo[w] = {} /\ batch[w] = {} /\ files[w] = {} /\ gone[w] = {}
  BY <1>1 DEF CodeInv, AtRest
<1>3. QED BY <1>1, <1>2 DEF OnTheWay, Reached, Vanished

\* One scan that meets no failure and no rival brings the table in line with the
\* project, whatever earlier runs left in it, but for deleted files if the table has
\* more rows than a scan reads: for any files, symbols and contents, any number of
\* runs, any batch size and any such cap.
THEOREM ScanHealsThm == Spec => []ScanHeals
<1>1. Init => CodeInv
  BY CodeInitInv
<1>2. CodeInv /\ [CodeNext]_vars => CodeInv'
  BY CodeInvStep
<1>3. CodeInv => ScanHeals
  BY CodeInvHeals
<1>4. QED BY <1>1, <1>2, <1>3, PTL DEF Spec
(***************************************************************************)
(* StandardsIndex: every chunk that is not reported is stored.             *)
(***************************************************************************)

StandardsShape ==
    /\ DOMAIN at = Tasks /\ DOMAIN std = Tasks /\ DOMAIN doc = Tasks
    /\ DOMAIN chunk = Tasks /\ DOMAIN section = Tasks /\ DOMAIN warnings = Tasks
    /\ DOMAIN step = Tasks /\ DOMAIN alone = Tasks /\ DOMAIN points = PointIds
    /\ \A t \in Tasks : section[t] \in Sections \cup {NoSection}

\* What a task that was started works on.
Working(t) ==
    /\ std[t] \in Standards /\ doc[t] \in Documents /\ chunk[t] \in Nat \ {0}
    /\ at[t] \in {"embed", "add"} => chunk[t] \in DOMAIN doc[t]

\* The chunks behind a task are reported or stored.
BehindIt(t) ==
    \A k \in DOMAIN doc[t] : k < chunk[t] /\ doc[t][k] # NoText =>
        \/ k \in warnings[t]
        \/ \E s \in Sections \cup {NoSection} : doc[t][k] \in points[<<std[t], s, k>>]

\* A task that ends well is through, and its step says whether it reports any.
Through(t) ==
    at[t] = "end" /\ step[t] # "failed" =>
        /\ chunk[t] > Len(doc[t])
        /\ warnings[t] # {} => step[t] = "completed_degraded"

TaskOK(t) == at[t] # "idle" => Working(t) /\ Through(t) /\ (alone[t] => BehindIt(t))

StandardsInv == StandardsShape /\ \A t \in Tasks : TaskOK(t)

-----------------------------------------------------------------------------

LEMMA StandardsInitInv == StandardsInit => StandardsInv
BY DEF StandardsInit, StandardsInv, StandardsShape, TaskOK

LEMMA DocumentFacts ==
    ASSUME NEW d \in Documents
    PROVE  DOMAIN d \subseteq Positions /\ Len(d) \in Nat /\ DOMAIN d = 1..Len(d)
<1>1. d \in Seq(Texts \cup {NoText})
  BY StandardsAssumption
<1>2. QED BY <1>1 DEF Positions

LEMMA StandardsShapeStep == StandardsShape /\ [StandardsNext]_svars => StandardsShape'
<1> SUFFICES ASSUME StandardsShape, [StandardsNext]_svars PROVE StandardsShape'
  OBVIOUS
<1>1. CASE UNCHANGED svars
  BY <1>1 DEF svars, local, StandardsShape
<1>2. ASSUME NEW t \in Tasks, IndexStep(t) PROVE StandardsShape'
  BY <1>2 DEF IndexStep, IndexStandards, SkipEmpty, Metadata, UpsertDelete, UpsertAdd,
     ChunkFails, EndIndex, IndexFails, NextChunk, Wrote, local, StandardsShape
<1>3. ASSUME NEW s \in Standards, CountBeforeDrop(s) \/ DropStandards(s) PROVE StandardsShape'
  BY <1>3 DEF CountBeforeDrop, DropStandards, Wrote, local, StandardsShape
<1>4. QED BY <1>1, <1>2, <1>3 DEF StandardsNext

\* A step that leaves a task's own state alone, and the points of its standard
\* too or the task no longer alone.
Beside(t) ==
    /\ at'[t] = at[t] /\ std'[t] = std[t] /\ doc'[t] = doc[t] /\ chunk'[t] = chunk[t]
    /\ section'[t] = section[t] /\ warnings'[t] = warnings[t] /\ step'[t] = step[t]
    /\ alone'[t] => alone[t] /\ \A i \in PointIds : i[1] = std[t] => points'[i] = points[i]

LEMMA BesideStep ==
    ASSUME NEW t \in Tasks, TaskOK(t), Beside(t) PROVE TaskOK(t)'
<1> SUFFICES ASSUME at[t] # "idle" PROVE TaskOK(t)'
  BY DEF TaskOK, Beside
<1>1. Working(t) /\ Through(t)
  BY DEF TaskOK
<1>2. Working(t)' /\ Through(t)'
  BY <1>1 DEF Working, Through, Beside
<1>3. ASSUME alone'[t] PROVE BehindIt(t)'
  <2>1. BehindIt(t) /\ \A i \in PointIds : i[1] = std[t] => points'[i] = points[i]
    BY <1>3 DEF TaskOK, Beside
  <2>2. \A k \in DOMAIN doc[t], s \in Sections \cup {NoSection} :
           points'[<<std[t], s, k>>] = points[<<std[t], s, k>>]
    BY <1>1, <2>1, DocumentFacts DEF PointIds, Working
  <2>3. QED BY <2>1, <2>2 DEF BehindIt, Beside
<1>4. QED BY <1>2, <1>3 DEF TaskOK

LEMMA OthersBeside ==
    ASSUME StandardsShape, NEW u \in Tasks, TaskOK(u), IndexStep(u), NEW t \in Tasks, t # u
    PROVE  Beside(t)
<1>1. at'[t] = at[t] /\ std'[t] = std[t] /\ doc'[t] = doc[t] /\ chunk'[t] = chunk[t]
  BY DEF IndexStep, IndexStandards, SkipEmpty, Metadata, UpsertDelete, UpsertAdd,
     ChunkFails, EndIndex, IndexFails, NextChunk, local, StandardsShape
<1>2. section'[t] = section[t] /\ warnings'[t] = warnings[t] /\ step'[t] = step[t]
  BY DEF IndexStep, IndexStandards, SkipEmpty, Metadata, UpsertDelete, UpsertAdd,
     ChunkFails, EndIndex, IndexFails, NextChunk, local, StandardsShape
<1>3. CASE UpsertDelete(u) \/ UpsertAdd(u)
  <2>1. alone'[t] => alone[t] /\ std[t] # std[u]
    BY <1>3 DEF UpsertDelete, UpsertAdd, Wrote
  <2>2. \A i \in PointIds : i # Id(u) => points'[i] = points[i]
    BY <1>3 DEF UpsertDelete, UpsertAdd, StandardsShape
  <2>3. Id(u)[1] = std[u]
    BY DEF Id
  <2>4. QED BY <1>1, <1>2, <2>1, <2>2, <2>3 DEF Beside
<1>4. CASE ~(UpsertDelete(u) \/ UpsertAdd(u))
  <2>1. UNCHANGED points /\ alone'[t] = alone[t]
    BY <1>4 DEF IndexStep, IndexStandards, SkipEmpty, Metadata, ChunkFails, EndIndex,
       IndexFails, local, StandardsShape
  <2>2. QED BY <1>1, <1>2, <2>1 DEF Beside
<1>5. QED BY <1>3, <1>4

LEMMA DropBeside ==
    ASSUME StandardsShape, NEW s \in Standards, CountBeforeDrop(s) \/ DropStandards(s),
           NEW t \in Tasks
    PROVE  Beside(t)
<1>1. CASE CountBeforeDrop(s)
  BY <1>1 DEF CountBeforeDrop, local, Beside
<1>2. CASE DropStandards(s)
  BY <1>2 DEF DropStandards, Wrote, local, Beside
<1>3. QED BY <1>1, <1>2

\* The next chunk: the one behind is reported, or blank, or stored.
LEMMA NextChunkStep ==
    ASSUME StandardsShape, NEW t \in Tasks, TaskOK(t), at[t] # "idle",
           chunk[t] \in DOMAIN doc[t],
           NEW failed, NextChunk(t, failed),
           UNCHANGED <<std, doc, section, step>>, alone'[t] => alone[t],
           \A i \in PointIds : points[i] \subseteq points'[i],
           \/ chunk[t] \in failed
           \/ Text(t) = NoText
           \/ Text(t) \in points'[Id(t)]
    PROVE  TaskOK(t)'
<1>1. Working(t)
  BY DEF TaskOK
<1>2. /\ chunk'[t] = chunk[t] + 1 /\ at'[t] = "chunk"
      /\ warnings'[t] = warnings[t] \cup failed
  BY DEF NextChunk, StandardsShape
<1>3. Working(t)' /\ Through(t)'
  BY <1>1, <1>2 DEF Working, Through
<1>4. ASSUME alone'[t] PROVE BehindIt(t)'
  <2> SUFFICES ASSUME NEW k \in DOMAIN doc[t], k < chunk[t] + 1, doc[t][k] # NoText,
                      k \notin warnings[t] \cup failed
               PROVE  \E s \in Sections \cup {NoSection} : doc[t][k] \in points'[<<std[t], s, k>>]
    BY <1>2 DEF BehindIt
  <2>1. CASE k = chunk[t]
    BY <1>1, <2>1 DEF Text, Id, Working, StandardsShape
  <2>2. CASE k # chunk[t]
    <3>1. k < chunk[t]
      BY <1>1, <2>2, DocumentFacts DEF Working
    <3>2. PICK s \in Sections \cup {NoSection} : doc[t][k] \in points[<<std[t], s, k>>]
      BY <1>4, <3>1 DEF TaskOK, BehindIt
    <3>3. <<std[t], s, k>> \in PointIds
      BY <1>1, DocumentFacts DEF PointIds, Working
    <3>4. QED BY <3>2, <3>3
  <2>3. QED BY <2>1, <2>2
<1>5. QED BY <1>3, <1>4 DEF TaskOK

LEMMA TaskStep ==
    ASSUME StandardsShape, NEW t \in Tasks, TaskOK(t), IndexStep(t) PROVE TaskOK(t)'
<1>0. CASE at[t] = "idle"
  <2>1. IndexStandards(t)
    BY <1>0 DEF IndexStep, SkipEmpty, Metadata, More, UpsertDelete, UpsertAdd, ChunkFails,
       EndIndex, IndexFails, Busy
  <2>2. std'[t] \in Standards /\ doc'[t] \in Documents /\ chunk'[t] = 1 /\ at'[t] = "chunk"
    BY <2>1 DEF IndexStandards, StandardsShape
  <2>3. QED BY <2>2, DocumentFacts DEF TaskOK, Working, Through, BehindIt
<1>1. CASE IndexStandards(t)
  <2>2. std'[t] \in Standards /\ doc'[t] \in Documents /\ chunk'[t] = 1 /\ at'[t] = "chunk"
    BY <1>1 DEF IndexStandards, StandardsShape
  <2>3. QED BY <2>2, DocumentFacts DEF TaskOK, Working, Through, BehindIt
<1> SUFFICES ASSUME at[t] # "idle", ~IndexStandards(t) PROVE TaskOK(t)'
  BY <1>0, <1>1
<1>2. /\ Working(t) /\ Through(t) /\ Len(doc[t]) \in Nat
      /\ DOMAIN doc[t] = 1..Len(doc[t]) /\ DOMAIN doc[t] \subseteq Positions
  BY DocumentFacts DEF TaskOK, Working
<1>3. CASE SkipEmpty(t)
  <2>1. chunk[t] \in DOMAIN doc[t] /\ Text(t) = NoText
    BY <1>2, <1>3 DEF SkipEmpty, More, Working
  <2>2. UNCHANGED <<points, std, doc, section, step, alone>> /\ NextChunk(t, {})
    BY <1>3 DEF SkipEmpty
  <2>3. QED BY <2>1, <2>2, NextChunkStep
<1>4. CASE Metadata(t)
  <2>1. chunk[t] \in DOMAIN doc[t] /\ at[t] = "chunk"
    BY <1>2, <1>4 DEF Metadata, More, Working
  <2>2. /\ UNCHANGED <<points, std, doc, chunk, warnings, step, alone>>
        /\ at'[t] \in {"chunk", "embed"}
    BY <1>4, <2>1 DEF Metadata, StandardsShape
  <2>3. QED BY <2>1, <2>2 DEF TaskOK, Working, Through, BehindIt
<1>5. CASE UpsertDelete(t)
  <2>1. chunk[t] \in DOMAIN doc[t]
    BY <1>2, <1>5 DEF UpsertDelete, Working
  <2>2. /\ UNCHANGED <<std, doc, chunk, section, warnings, step>> /\ at'[t] = "add"
        /\ alone'[t] => alone[t]
        /\ \A i \in PointIds : i # Id(t) => points'[i] = points[i]
    BY <1>5 DEF UpsertDelete, Wrote, local, StandardsShape
  <2>3. ASSUME alone'[t] PROVE BehindIt(t)'
    <3>1. BehindIt(t)
      BY <2>2, <2>3 DEF TaskOK
    <3>2. \A k \in DOMAIN doc[t], s \in Sections \cup {NoSection} : k < chunk[t] =>
             points'[<<std[t], s, k>>] = points[<<std[t], s, k>>]
      BY <1>2, <2>1, <2>2 DEF Id, PointIds, Working
    <3>3. QED BY <2>2, <3>1, <3>2 DEF BehindIt
  <2>4. QED BY <2>1, <2>2, <2>3 DEF TaskOK, Working, Through
<1>6. CASE UpsertAdd(t)
  <2>1. chunk[t] \in DOMAIN doc[t]
    BY <1>2, <1>6 DEF UpsertAdd, Working
  <2>2. Id(t) \in PointIds
    BY <1>2, <2>1 DEF Id, PointIds, Working, StandardsShape
  <2>3. /\ NextChunk(t, {}) /\ UNCHANGED <<std, doc, section, step>>
        /\ alone'[t] => alone[t]
        /\ \A i \in PointIds : points[i] \subseteq points'[i]
        /\ Text(t) \in points'[Id(t)]
    BY <1>6, <2>2 DEF UpsertAdd, Wrote, StandardsShape
  <2>4. QED BY <2>1, <2>3, NextChunkStep
<1>7. CASE ChunkFails(t)
  <2>1. chunk[t] \in DOMAIN doc[t]
    BY <1>2, <1>7 DEF ChunkFails, Working
  <2>2. UNCHANGED <<points, std, doc, section, step, alone>> /\ NextChunk(t, {chunk[t]})
    BY <1>7 DEF ChunkFails
  <2>3. QED BY <2>1, <2>2, NextChunkStep
<1>8. CASE EndIndex(t)
  <2>1. /\ UNCHANGED <<points, std, doc, chunk, section, warnings, alone>> /\ at'[t] = "end"
        /\ step'[t] = IF warnings[t] = {} THEN "completed" ELSE "completed_degraded"
        /\ chunk[t] > Len(doc[t])
    BY <1>8 DEF EndIndex, local, StandardsShape
  <2>2. QED BY <2>1 DEF TaskOK, Working, Through, BehindIt
<1>9. CASE IndexFails(t)
  <2>1. /\ UNCHANGED <<points, std, doc, chunk, section, warnings, alone>> /\ at'[t] = "end"
        /\ step'[t] = "failed"
    BY <1>9 DEF IndexFails, local, StandardsShape
  <2>2. QED BY <2>1 DEF TaskOK, Working, Through, BehindIt
<1>10. QED BY <1>3, <1>4, <1>5, <1>6, <1>7, <1>8, <1>9 DEF IndexStep

LEMMA StandardsInvStep == StandardsInv /\ [StandardsNext]_svars => StandardsInv'
<1> SUFFICES ASSUME StandardsInv, [StandardsNext]_svars PROVE StandardsInv'
  OBVIOUS
<1>1. StandardsShape /\ StandardsShape'
  BY StandardsShapeStep DEF StandardsInv
<1>2. ASSUME NEW t \in Tasks PROVE TaskOK(t)'
  <2>0. TaskOK(t)
    BY DEF StandardsInv
  <2>1. CASE UNCHANGED svars
    <3>1. Beside(t)
      BY <2>1 DEF svars, local, Beside
    <3>2. QED BY <2>0, <3>1, BesideStep
  <2>2. ASSUME NEW u \in Tasks, IndexStep(u) PROVE TaskOK(t)'
    <3>1. CASE u = t
      BY <1>1, <2>0, <2>2, <3>1, TaskStep
    <3>2. CASE u # t
      <4>1. TaskOK(u)
        BY DEF StandardsInv
      <4>2. Beside(t)
        BY <1>1, <2>2, <3>2, <4>1, OthersBeside
      <4>3. QED BY <2>0, <4>2, BesideStep
    <3>3. QED BY <3>1, <3>2
  <2>3. ASSUME NEW s \in Standards, CountBeforeDrop(s) \/ DropStandards(s) PROVE TaskOK(t)'
    <3>1. Beside(t)
      BY <1>1, <2>3, DropBeside
    <3>2. QED BY <2>0, <3>1, BesideStep
  <2>4. QED BY <2>1, <2>2, <2>3 DEF StandardsNext
<1>3. QED BY <1>1, <1>2 DEF StandardsInv

\* An indexing operation that ends without failing has stored or reported every
\* chunk of its document: for any documents, any sections the LLM names and any
\* number of tasks and drops of other standards beside it.
THEOREM ChunksAccountedThm == StandardsSpec => []ChunksAccounted
<1>1. StandardsInv => ChunksAccounted
  <2> SUFFICES ASSUME StandardsInv, NEW t \in Tasks, at[t] = "end", step[t] # "failed", alone[t],
                      NEW k \in DOMAIN doc[t], doc[t][k] # NoText
               PROVE  \/ k \in warnings[t] /\ step[t] = "completed_degraded"
                      \/ \E s \in Sections \cup {NoSection} : doc[t][k] \in points[<<std[t], s, k>>]
    BY DEF ChunksAccounted
  <2>1. Working(t) /\ Through(t) /\ BehindIt(t)
    BY DEF StandardsInv, TaskOK
  <2>2. k < chunk[t]
    BY <2>1, DocumentFacts DEF Working, Through
  <2>3. QED BY <2>1, <2>2 DEF Through, BehindIt
<1>2. QED BY <1>1, StandardsInitInv, StandardsInvStep, PTL DEF StandardsSpec
(***************************************************************************)
(* Transfer: exports, imports and purges beside others.                    *)
(***************************************************************************)

TransferTypes ==
    /\ rows \in Seq(Records) /\ before \in Seq(Records) /\ taken \in Seq(Records)
    /\ file \in Seq(Records \cup {Broken}) /\ left \in Seq(Records \cup {Broken})
    /\ held \in Seq(Records \cup {Broken})
    /\ size \in Nat \ {0} /\ offset \in Nat
    /\ sent \in Nat /\ got \in Nat /\ bad \in Nat /\ imported \in Nat /\ reported \in Nat
    /\ ended # "no" => job = "none"

Heads(s, t) == Len(s) <= Len(t) /\ \A i \in 1..Len(s) : s[i] = t[i]

\* What is in the file and what is in the buffer is the first rows of the table, up
\* to the offset while pages are taken, and the rows there were come first.
Written == file \o held

Exporting ==
    /\ job = "direct" => held = <<>>
    /\ job \in {"export", "direct"} /\ steady =>
          Heads(before, rows) /\ Heads(Written, rows) /\ Len(Written) = offset
    /\ job = "closing" /\ steady =>
          /\ Heads(Written, rows)
          /\ size <= MaxLimit => Heads(before, Written)
    /\ ended \in {"export", "direct", "stopped"} /\ steady => Heads(file, rows)
    /\ ended = "direct" /\ steady => Heads(before, file)
    /\ ended = "export" /\ steady /\ size <= MaxLimit => Heads(before, Written)

\* The first n lines of the file are in the table, the last of each ID and none
\* but lines under their IDs.
Stored(n) ==
    /\ \A i \in 1..n : file[i].id \in RowIds(rows)
    /\ \A i \in 1..n : (\A j \in 1..n : j > i => file[j].id # file[i].id) => file[i] \in ToSet(rows)
    /\ \A row \in ToSet(rows) : \A i \in 1..n : file[i].id = row.id => \E j \in 1..n : file[j] = row

\* An import that has nothing to report has stored the first lines of the file and
\* has the others in hand, in their order.
AllThere ==
    /\ imported + got + Len(taken) + Len(left) = Len(file)
    /\ Stored(imported + got)
    /\ \A i \in 1..Len(taken) : taken[i] = file[imported + got + i]
    /\ \A i \in 1..Len(left) : left[i] = file[imported + got + Len(taken) + i]

Importing ==
    /\ job = "import" /\ sent = 0 => taken = <<>> /\ got = 0 /\ bad = 0
    /\ job = "import" /\ steady /\ reported = 0 /\ bad = 0 => AllThere
    /\ ended = "import" /\ steady /\ reported = 0 => imported = Len(file) /\ Stored(Len(file))

\* An ID that stood, at the start, for a row of the source that is purged.
Marked(id) == \E other \in ToSet(before) : other.id = id /\ other.source = Source

\* A purge has on its list what it scanned of its source, and no other ID that was
\* there at the start; when it deletes, the marked rows whose ID is not on the list
\* any more are gone.
Purging ==
    /\ job \in {"purge", "purging"} => left \in Seq(Records)
    /\ job \in {"purge", "purging"} /\ steady =>
          \A i \in 1..Len(left) : left[i].id \in RowIds(before) => Marked(left[i].id)
    /\ job = "purge" /\ steady =>
          /\ Heads(before, rows) /\ offset <= Len(rows)
          /\ \A i \in 1..Len(rows) : i > Len(before) => rows[i].id \notin RowIds(before)
          /\ \A i \in 1..Len(rows) : i <= offset /\ rows[i].source = Source =>
                \E j \in 1..Len(left) : left[j] = rows[i]
    /\ job = "purging" /\ steady =>
          \A row \in ToSet(before) :
              /\ Marked(row.id) => row \notin ToSet(rows) \/ row.id \in RowIds(left)
              /\ ~Marked(row.id) => row \in ToSet(rows)
    /\ ended = "purge" /\ steady =>
          \A row \in ToSet(before) : row \in ToSet(rows) <=> ~Marked(row.id)

-----------------------------------------------------------------------------

LEMMA AfterFacts ==
    ASSUME NEW S, NEW seq \in Seq(S), NEW n \in Nat
    PROVE  /\ After(n, seq) \in Seq(S)
           /\ Len(After(n, seq)) = IF n <= Len(seq) THEN Len(seq) - n ELSE 0
           /\ \A i \in 1..Len(After(n, seq)) : After(n, seq)[i] = seq[n + i]
BY DEF After

LEMMA FirstFacts ==
    ASSUME NEW S, NEW seq \in Seq(S), NEW n \in Nat
    PROVE  /\ First(n, seq) \in Seq(S)
           /\ Len(First(n, seq)) = IF n < Len(seq) THEN n ELSE Len(seq)
           /\ \A i \in 1..Len(First(n, seq)) : First(n, seq)[i] = seq[i]
BY DEF First

\* A sequence is its first n elements and those after them.
LEMMA SplitFacts ==
    ASSUME NEW S, NEW seq \in Seq(S), NEW n \in Nat
    PROVE  /\ Len(First(n, seq)) \in Nat /\ Len(After(n, seq)) \in Nat /\ Len(seq) \in Nat
           /\ Len(First(n, seq)) + Len(After(n, seq)) = Len(seq)
           /\ Len(After(n, seq)) > 0 => Len(First(n, seq)) = n
           /\ \A i \in 1..Len(After(n, seq)) : n + i \in 1..Len(seq)
           /\ \A i \in 1..Len(seq) : i \in 1..Len(First(n, seq))
                                      \/ \E j \in 1..Len(After(n, seq)) : i = n + j
<1>1. Len(seq) \in Nat
  OBVIOUS
<1>2. /\ Len(First(n, seq)) = IF n < Len(seq) THEN n ELSE Len(seq)
      /\ Len(After(n, seq)) = IF n <= Len(seq) THEN Len(seq) - n ELSE 0
  BY AfterFacts, FirstFacts
<1> HIDE DEF First, After
<1>3. CASE n < Len(seq)
  BY <1>1, <1>2, <1>3
<1>4. CASE ~(n < Len(seq))
  BY <1>1, <1>2, <1>4
<1>5. ASSUME NEW i \in 1..Len(seq), i \notin 1..Len(First(n, seq))
      PROVE  \E j \in 1..Len(After(n, seq)) : i = n + j
  <2>1. i > n /\ n < Len(seq)
    BY <1>1, <1>2, <1>5
  <2>2. i - n \in 1..Len(After(n, seq)) /\ i = n + (i - n)
    BY <1>1, <1>2, <2>1
  <2>3. QED BY <2>2
<1>6. \A i \in 1..Len(After(n, seq)) : n + i \in 1..Len(seq)
  BY <1>1, <1>2
<1>7. QED BY <1>3, <1>4, <1>5, <1>6

LEMMA ScrollFacts ==
    ASSUME rows \in Seq(Records), NEW n \in Nat, NEW m \in Nat
    PROVE  /\ Scroll(n, m) \in Seq(Records)
           /\ Len(Scroll(n, m)) <= n
           /\ m <= Len(rows) =>
                Len(Scroll(n, m)) = IF n < Len(rows) - m THEN n ELSE Len(rows) - m
           /\ m > Len(rows) => Len(Scroll(n, m)) = 0
           /\ \A i \in 1..Len(Scroll(n, m)) : m + i <= Len(rows) /\ Scroll(n, m)[i] = rows[m + i]
<1> DEFINE tail == After(m, rows)
<1>1. /\ tail \in Seq(Records)
      /\ Len(tail) = IF m <= Len(rows) THEN Len(rows) - m ELSE 0
      /\ \A i \in 1..Len(tail) : tail[i] = rows[m + i]
  BY AfterFacts
<1> HIDE DEF tail
<1>2. /\ First(n, tail) \in Seq(Records)
      /\ Len(First(n, tail)) = IF n < Len(tail) THEN n ELSE Len(tail)
      /\ \A i \in 1..Len(First(n, tail)) : First(n, tail)[i] = tail[i]
  BY <1>1, FirstFacts
<1>3. Scroll(n, m) = First(n, tail)
  BY DEF Scroll, tail
<1>4. Len(rows) \in Nat /\ Len(tail) \in Nat
  BY <1>1
<1>5. QED BY <1>1, <1>2, <1>3, <1>4, SMTT(60)

\* What a delete by ID leaves.
LEMMA WithoutFacts ==
    ASSUME rows \in Seq(Records), NEW ids
    PROVE  /\ Without(ids) \in Seq(Records)
           /\ \A row : row \in ToSet(Without(ids)) <=> row \in ToSet(rows) /\ row.id \notin ids
<1> DEFINE others == {row \in Records : row.id \notin ids}
           rest   == Without(ids)
<1>1. rest = Keep(rows, others)
  BY DEF Without
<1>2. \A row \in Records : row \in others <=> row.id \notin ids
  OBVIOUS
<1> HIDE DEF others, rest
<1>3. /\ rest \in Seq(Records)
      /\ \A i \in 1..Len(rows) : rows[i] \in others => \E j \in 1..Len(rest) : rest[j] = rows[i]
      /\ \A j \in 1..Len(rest) : \E i \in 1..Len(rows) : rest[j] = rows[i] /\ rows[i] \in others
  <2>1. /\ Keep(rows, others) \in Seq(Records)
        /\ \A i \in 1..Len(rows) : rows[i] \in others =>
              \E j \in 1..Len(Keep(rows, others)) : Keep(rows, others)[j] = rows[i]
        /\ \A j \in 1..Len(Keep(rows, others)) :
              \E i \in 1..Len(rows) : Keep(rows, others)[j] = rows[i] /\ rows[i] \in others
    BY KeepFacts
  <2>2. QED BY <1>1, <2>1
<1>4. DOMAIN rest = 1..Len(rest) /\ DOMAIN rows = 1..Len(rows) /\ \A i \in 1..Len(rows) : rows[i] \in Records
  BY <1>3
<1>5. ASSUME NEW row, row \in ToSet(rest) PROVE row \in ToSet(rows) /\ row.id \notin ids
  <2>1. PICK j \in 1..Len(rest) : row = rest[j]
    BY <1>4, <1>5 DEF ToSet
  <2>2. PICK i \in 1..Len(rows) : row = rows[i] /\ rows[i] \in others
    BY <1>3, <2>1
  <2>3. QED BY <1>2, <1>4, <2>2 DEF ToSet
<1>6. ASSUME NEW row, row \in ToSet(rows), row.id \notin ids PROVE row \in ToSet(rest)
  <2>1. PICK i \in 1..Len(rows) : row = rows[i]
    BY <1>4, <1>6 DEF ToSet
  <2>2. rows[i] \in others
    BY <1>2, <1>4, <1>6, <2>1
  <2>3. PICK j \in 1..Len(rest) : rest[j] = row
    BY <1>3, <2>1, <2>2
  <2>4. QED BY <1>4, <2>3 DEF ToSet
<1>7. QED BY <1>3, <1>5, <1>6 DEF rest

\* The elements of two sequences, one after the other.
LEMMA BothFacts ==
    ASSUME NEW S, NEW s \in Seq(S), NEW t \in Seq(S)
    PROVE  s \o t \in Seq(S) /\ \A e : e \in ToSet(s \o t) <=> e \in ToSet(s) \/ e \in ToSet(t)
<1>1. /\ s \o t \in Seq(S) /\ Len(s \o t) = Len(s) + Len(t)
      /\ \A i \in 1..Len(s) + Len(t) : (s \o t)[i] = IF i <= Len(s) THEN s[i] ELSE t[i - Len(s)]
  BY ConcatProperties
<1>2. /\ Len(s) \in Nat /\ Len(t) \in Nat
      /\ DOMAIN s = 1..Len(s) /\ DOMAIN t = 1..Len(t) /\ DOMAIN (s \o t) = 1..Len(s) + Len(t)
  BY <1>1
<1>3. ASSUME NEW i \in 1..Len(s) + Len(t) PROVE (s \o t)[i] \in ToSet(s) \/ (s \o t)[i] \in ToSet(t)
  <2>1. CASE i <= Len(s)
    BY <1>1, <1>2, <2>1 DEF ToSet
  <2>2. CASE i > Len(s)
    <3>1. i - Len(s) \in 1..Len(t) /\ (s \o t)[i] = t[i - Len(s)]
      BY <1>1, <1>2, <2>2
    <3>2. QED BY <1>2, <3>1 DEF ToSet
  <2>3. QED BY <1>2, <2>1, <2>2
<1>4. ASSUME NEW i \in 1..Len(s) PROVE s[i] \in ToSet(s \o t)
  <2>1. i \in 1..Len(s) + Len(t) /\ (s \o t)[i] = s[i]
    BY <1>1, <1>2
  <2>2. QED BY <1>2, <2>1 DEF ToSet
<1>5. ASSUME NEW i \in 1..Len(t) PROVE t[i] \in ToSet(s \o t)
  <2>1. Len(s) + i \in 1..Len(s) + Len(t) /\ ~(Len(s) + i <= Len(s)) /\ Len(s) + i - Len(s) = i
    BY <1>2
  <2>2. (s \o t)[Len(s) + i] = t[i]
    BY <1>1, <2>1
  <2>3. QED BY <1>2, <2>1, <2>2 DEF ToSet
<1>6. ASSUME NEW e, e \in ToSet(s \o t) PROVE e \in ToSet(s) \/ e \in ToSet(t)
  BY <1>2, <1>3, <1>6 DEF ToSet
<1>7. ASSUME NEW e, e \in ToSet(s) \/ e \in ToSet(t) PROVE e \in ToSet(s \o t)
  BY <1>2, <1>4, <1>5, <1>7 DEF ToSet
<1>8. QED BY <1>1, <1>6, <1>7

\* An upsert replaces what the table has under the new IDs.
LEMMA UpsertFacts ==
    ASSUME rows \in Seq(Records), NEW new \in Seq(Records), Upsert(new)
    PROVE  /\ rows' \in Seq(Records)
           /\ \A row : row \in ToSet(rows') <=>
                  row \in ToSet(new) \/ (row \in ToSet(rows) /\ row.id \notin RowIds(new))
           /\ RowIds(rows) \cup RowIds(new) \subseteq RowIds(rows)'
<1> DEFINE rest == Without(RowIds(new))
<1>1. rest \in Seq(Records) /\ \A row : row \in ToSet(rest) <=> row \in ToSet(rows) /\ row.id \notin RowIds(new)
  BY WithoutFacts
<1>2. rows' = rest \o new
  BY DEF Upsert
<1> HIDE DEF rest
<1>3. rows' \in Seq(Records) /\ \A row : row \in ToSet(rows') <=> row \in ToSet(rest) \/ row \in ToSet(new)
  BY <1>1, <1>2, BothFacts
<1>4. RowIds(rows)' = {row.id : row \in ToSet(rows')} /\ RowIds(rows) = {row.id : row \in ToSet(rows)}
      /\ RowIds(new) = {row.id : row \in ToSet(new)}
  BY DEF RowIds
<1>5. ASSUME NEW row \in ToSet(rows) PROVE row.id \in RowIds(rows)'
  <2>1. CASE row.id \in RowIds(new)
    BY <1>3, <1>4, <2>1
  <2>2. CASE row.id \notin RowIds(new)
    BY <1>1, <1>3, <1>4, <2>2
  <2>3. QED BY <2>1, <2>2
<1>6. ASSUME NEW row \in ToSet(new) PROVE row.id \in RowIds(rows)'
  BY <1>3, <1>4
<1>7. QED BY <1>1, <1>3, <1>4, <1>5, <1>6

LEMMA EmptyFacts == \A S : <<>> \in Seq(S)
OBVIOUS

LEMMA PageTypes ==
    ASSUME TransferTypes, NEW n \in Nat, NEW page, page = Scroll(n, offset)
    PROVE  /\ page \in Seq(Records) /\ Len(page) \in Nat
           /\ page \in Seq(Records \cup {Broken})
           /\ left \in Seq(Records \cup {Broken}) =>
                left \o Keep(page, OfSource) \in Seq(Records \cup {Broken})
<1>1. page \in Seq(Records)
  BY ScrollFacts DEF TransferTypes
<1>2. Keep(page, OfSource) \in Seq(Records)
  BY <1>1, KeepFacts
<1>3. page \in Seq(Records \cup {Broken}) /\ Keep(page, OfSource) \in Seq(Records \cup {Broken})
  BY <1>1, <1>2, SeqMonotonic
<1>4. Len(page) \in Nat
  BY <1>1
<1>5. QED BY <1>1, <1>3, <1>4

\* The page that an export takes.
LEMMA ExportPageTypes ==
    ASSUME TransferTypes
    PROVE  /\ Page \in Seq(Records \cup {Broken}) /\ Len(Page) \in Nat
           /\ \E n \in Nat : Page = Scroll(n, offset) /\ n <= size
                               /\ (job # "export" \/ size <= MaxLimit => n = size)
<1> DEFINE n == IF job = "export" THEN Clamp(size) ELSE size
<1>1. size \in Nat /\ MaxLimit \in Nat
  BY TransferAssumption DEF TransferTypes
<1>2. n \in Nat /\ n <= size /\ (job # "export" \/ size <= MaxLimit => n = size)
  BY <1>1 DEF Clamp
<1>3. Page = Scroll(n, offset)
  BY DEF Page
<1> HIDE DEF n
<1>4. QED BY <1>2, <1>3, PageTypes

\* A write takes rows from the buffer to the file, in their order.
LEMMA WriteFacts ==
    ASSUME NEW S, file \in Seq(S), held \in Seq(S), NEW new \in Seq(S), NEW n \in Nat, Write(n, new)
    PROVE  file' \in Seq(S) /\ held' \in Seq(S) /\ Written' = Written \o new
<1> DEFINE all == held \o new
           out == First(n, all)
           kept == After(n, all)
<1>1. all \in Seq(S)
  OBVIOUS
<1>2. out \in Seq(S) /\ kept \in Seq(S) /\ out \o kept = all
  <2> HIDE DEF all
  <2>1. /\ out \in Seq(S) /\ Len(out) = (IF n < Len(all) THEN n ELSE Len(all))
        /\ \A i \in 1..Len(out) : out[i] = all[i]
    BY <1>1, FirstFacts
  <2>2. /\ kept \in Seq(S) /\ Len(kept) = (IF n <= Len(all) THEN Len(all) - n ELSE 0)
        /\ \A i \in 1..Len(kept) : kept[i] = all[n + i]
    BY <1>1, AfterFacts
  <2> HIDE DEF out, kept
  <2>8. out \in Seq(S) /\ kept \in Seq(S)
    BY <2>1, <2>2
  <2>3. Len(all) \in Nat /\ Len(out) \in Nat /\ Len(kept) \in Nat
    BY <1>1, <2>8
  <2>4. Len(out) + Len(kept) = Len(all) /\ (Len(kept) > 0 => Len(out) = n)
    BY <1>1, SplitFacts DEF out, kept
  <2>5. /\ out \o kept \in Seq(S) /\ Len(out \o kept) = Len(out) + Len(kept)
        /\ \A i \in 1..Len(out) + Len(kept) : (out \o kept)[i] = IF i <= Len(out) THEN out[i] ELSE kept[i - Len(out)]
    BY <2>8, ConcatProperties
  <2>9. \A i \in 1..Len(out) : out[i] = all[i]
    BY <2>1
  <2>10. \A i \in 1..Len(kept) : kept[i] = all[n + i]
    BY <2>2
  <2>6. ASSUME NEW i \in 1..Len(all) PROVE (out \o kept)[i] = all[i]
    <3>1. CASE i <= Len(out)
      BY <2>3, <2>4, <2>5, <2>9, <3>1
    <3>2. CASE i > Len(out)
      <4>1. i - Len(out) \in 1..Len(kept) /\ Len(out) = n
        BY <2>3, <2>4, <3>2
      <4>2. n + (i - Len(out)) = i
        BY <2>3, <4>1
      <4>3. kept[i - Len(out)] = all[i]
        BY <2>10, <4>1, <4>2
      <4>4. (out \o kept)[i] = kept[i - Len(out)]
        BY <2>3, <2>4, <2>5, <3>2
      <4>5. QED BY <4>3, <4>4
    <3>3. i <= Len(out) \/ i > Len(out)
      BY <2>3
    <3>4. QED BY <3>1, <3>2, <3>3, Zenon
  <2>7. QED BY <1>1, <2>4, <2>5, <2>6, <2>8, SeqEqual
<1> HIDE DEF out, kept
<1>3. file' = file \o out /\ held' = kept
  BY DEF Write, out, kept
<1>4. (file \o out) \o kept = file \o (out \o kept)
  <2>1. out \in Seq(S) /\ kept \in Seq(S)
    BY <1>2
  <2>2. QED BY <2>1, ConcatAssociative
<1>5. file \o (held \o new) = (file \o held) \o new
  BY ConcatAssociative
<1>7. file' \in Seq(S) /\ held' \in Seq(S)
  BY <1>2, <1>3
<1>6. QED BY <1>2, <1>3, <1>4, <1>5, <1>7 DEF Written, all

\* The records that a batch of lines yields, and those of them with data.
LEMMA BatchTypes ==
    ASSUME TransferTypes, NEW n \in Nat, NEW lines, lines = First(n, left)
    PROVE  /\ lines \in Seq(Records \cup {Broken}) /\ Readable(lines) \in Seq(Records)
           /\ Len(Readable(lines)) <= Len(lines) /\ Len(lines) \in Nat
           /\ Len(Readable(lines)) \in Nat
           /\ Len(Readable(lines)) = Len(lines) => Readable(lines) = lines
<1>1. lines \in Seq(Records \cup {Broken})
  BY FirstFacts DEF TransferTypes
<1> DEFINE good == Keep(lines, Records)
<1>2. /\ good \in Seq(Records \cup {Broken}) /\ Len(good) <= Len(lines)
      /\ Len(good) = Len(lines) => good = lines
      /\ \A j \in 1..Len(good) : \E i \in 1..Len(lines) : good[j] = lines[i] /\ lines[i] \in Records
  BY <1>1, KeepFacts
<1> HIDE DEF good
<1>3. \A j \in 1..Len(good) : good[j] \in Records
  BY <1>2
<1>4. good \in Seq(Records)
  BY <1>2, <1>3
<1>5. Len(good) \in Nat /\ Len(lines) \in Nat
  BY <1>1, <1>4
<1>6. QED BY <1>1, <1>2, <1>4, <1>5 DEF Readable, good

LEMMA ChunkTypes ==
    ASSUME TransferTypes
    PROVE  /\ Chunk \in Seq(Records) /\ Len(Chunk) \in Nat
           /\ Len(Chunk) = IF EmbedBatch < Len(taken) THEN EmbedBatch ELSE Len(taken)
           /\ \A i \in 1..Len(Chunk) : Chunk[i] = taken[i]
           /\ Valid \in Seq(Records) /\ Len(Valid) \in Nat /\ Len(Valid) <= Len(Chunk)
           /\ Len(Valid) = Len(Chunk) => Valid = Chunk
           /\ After(EmbedBatch, taken) \in Seq(Records)
<1>1. EmbedBatch \in Nat /\ taken \in Seq(Records)
  BY TransferAssumption DEF TransferTypes
<1>2. /\ Chunk \in Seq(Records)
      /\ Len(Chunk) = IF EmbedBatch < Len(taken) THEN EmbedBatch ELSE Len(taken)
      /\ \A i \in 1..Len(Chunk) : Chunk[i] = taken[i]
  BY <1>1, FirstFacts DEF Chunk
<1>3. /\ Valid \in Seq(Records) /\ Len(Valid) <= Len(Chunk)
      /\ Len(Valid) = Len(Chunk) => Valid = Chunk
  BY <1>2, KeepFacts DEF Valid
<1>4. Len(Chunk) \in Nat /\ Len(Valid) \in Nat
  BY <1>2, <1>3
<1>5. After(EmbedBatch, taken) \in Seq(Records)
  BY <1>1, AfterFacts
<1>6. QED BY <1>2, <1>3, <1>4, <1>5

LEMMA TransferTypesStep == TransferTypes /\ [TransferNext]_tvars => TransferTypes'
<1> SUFFICES ASSUME TransferTypes, [TransferNext]_tvars PROVE TransferTypes'
  OBVIOUS
<1>0. /\ PageSizes \subseteq Nat \ {0} /\ ImportBatch \in Nat /\ EmbedBatch \in Nat
      /\ ScanSize \in Nat /\ DeleteSize \in Nat /\ MaxLimit \in Nat
  BY TransferAssumption
<1>1. CASE UNCHANGED tvars
  BY <1>1 DEF tvars, count, TransferTypes
<1>2. CASE StartExport
  BY <1>0, <1>2, EmptyFacts DEF StartExport, Begin, count, TransferTypes
<1>3. CASE ExportPage
  <2>1. PICK n \in {0, Len(held), Len(held \o Page)} : Write(n, Page)
    BY <1>3 DEF ExportPage
  <2>2. held \o Page \in Seq(Records \cup {Broken}) /\ n \in Nat
    BY ExportPageTypes DEF TransferTypes
  <2>3. file' \in Seq(Records \cup {Broken}) /\ held' \in Seq(Records \cup {Broken})
    BY <2>1, <2>2, ExportPageTypes, WriteFacts DEF TransferTypes
  <2>4. QED BY <1>3, <2>3 DEF ExportPage, count, TransferTypes
<1>19. CASE DropWriter
  <2>1. PICK n \in 0..Len(held) : Write(n, <<>>)
    BY <1>19 DEF DropWriter
  <2>4. file \in Seq(Records \cup {Broken}) /\ held \in Seq(Records \cup {Broken})
        /\ <<>> \in Seq(Records \cup {Broken})
    BY EmptyFacts DEF TransferTypes
  <2>5. n \in Nat
    BY <2>1, <2>4
  <2>2. file' \in Seq(Records \cup {Broken}) /\ held' \in Seq(Records \cup {Broken})
    BY <2>1, <2>4, <2>5, WriteFacts
  <2>3. QED BY <1>19, <2>2 DEF DropWriter, End, count, TransferTypes
<1>4. CASE ExportDirect
  <2>1. file' \in Seq(Records \cup {Broken}) /\ offset' \in Nat
    <3>1. file' = file \o Page /\ offset' = offset + Len(Page)
      BY <1>4 DEF ExportDirect
    <3>2. QED BY <3>1, ExportPageTypes DEF TransferTypes
  <2>2. QED BY <1>4, <2>1 DEF ExportDirect, End, count, TransferTypes
<1>5. CASE ExportFails
  <2>1. PICK n \in 0..Len(held \o Page) : Write(n, Page)
    BY <1>5 DEF ExportFails
  <2>2. file' \in Seq(Records \cup {Broken}) /\ held' \in Seq(Records \cup {Broken})
    BY <2>1, ExportPageTypes, WriteFacts DEF TransferTypes
  <2>3. QED BY <1>5, <2>2 DEF ExportFails, End, count, TransferTypes
<1>6. CASE StartImport
  BY <1>6, EmptyFacts DEF StartImport, Begin, TransferTypes
<1>7. CASE SendBatch
  <2>1. sent' \in Nat /\ taken' \in Seq(Records) /\ bad' \in Nat
    BY <1>0, <1>7, BatchTypes DEF SendBatch
  <2>2. left' \in Seq(Records \cup {Broken})
    BY <1>0, <1>7, AfterFacts DEF SendBatch, TransferTypes
  <2>3. QED BY <1>7, <2>1, <2>2 DEF SendBatch, TransferTypes
<1>8. CASE ImportChunk
  <2>1. rows' \in Seq(Records)
    BY <1>8, ChunkTypes, UpsertFacts DEF ImportChunk, TransferTypes
  <2>2. got' \in Nat /\ bad' \in Nat
    BY <1>8, ChunkTypes DEF ImportChunk, TransferTypes
  <2>3. taken' \in Seq(Records)
    BY <1>8, ChunkTypes DEF ImportChunk
  <2>4. QED BY <1>8, <2>1, <2>2, <2>3 DEF ImportChunk, TransferTypes
<1>9. CASE BatchAnswered
  BY <1>9 DEF BatchAnswered, TransferTypes
<1>10. CASE BatchFails
  BY <1>10, EmptyFacts DEF BatchFails, TransferTypes
<1>11. CASE EndImport
  BY <1>11 DEF EndImport, End, count, TransferTypes
<1>12. CASE StartPurge
  BY <1>12, EmptyFacts DEF StartPurge, Begin, count, TransferTypes
<1>13. CASE PurgeScan
  <2> DEFINE page == Scroll(ScanSize, offset)
  <2>1. left' \in Seq(Records \cup {Broken}) /\ offset' \in Nat
    <3>1. left' = left \o Keep(page, OfSource) /\ offset' = offset + ScanSize
      BY <1>13 DEF PurgeScan
    <3>2. left \o Keep(page, OfSource) \in Seq(Records \cup {Broken})
      BY <1>0, PageTypes DEF TransferTypes
    <3>3. QED BY <1>0, <3>1, <3>2 DEF TransferTypes
  <2>2. QED BY <1>13, <2>1 DEF PurgeScan, count, TransferTypes
<1>14. CASE PurgeDelete
  <2>1. rows' \in Seq(Records)
    <3>1. PICK ids : rows' = Without(ids)
      BY <1>14 DEF PurgeDelete
    <3>2. QED BY <3>1, WithoutFacts DEF TransferTypes
  <2>2. left' \in Seq(Records \cup {Broken})
    BY <1>0, <1>14, AfterFacts DEF PurgeDelete, TransferTypes
  <2>3. QED BY <1>14, <2>1, <2>2 DEF PurgeDelete, count, TransferTypes
<1>15. CASE EndPurge
  BY <1>15 DEF EndPurge, End, count, TransferTypes
<1>16. CASE PurgeFails
  BY <1>16, EmptyFacts DEF PurgeFails, End, count, TransferTypes
<1>17. CASE Others
  <2>1. PICK record \in Records :
          \/ rows' = Append(rows, record)
          \/ Upsert(<<record>>)
          \/ rows' = Without({record.id})
    BY <1>17 DEF Others
  <2>2. <<record>> \in Seq(Records)
    OBVIOUS
  <2>3. rows' \in Seq(Records)
    <3>0. rows \in Seq(Records)
      BY DEF TransferTypes
    <3>1. CASE rows' = Append(rows, record)
      BY <3>0, <3>1
    <3>2. CASE Upsert(<<record>>)
      BY <2>2, <3>0, <3>2, UpsertFacts
    <3>3. CASE rows' = Without({record.id})
      BY <3>0, <3>3, WithoutFacts
    <3>4. QED BY <2>1, <3>1, <3>2, <3>3
  <2>4. QED BY <1>17, <2>3 DEF Others, count, TransferTypes
<1>18. QED BY <1>1, <1>2, <1>3, <1>4, <1>5, <1>6, <1>7, <1>8, <1>9, <1>10, <1>11, <1>12,
          <1>13, <1>14, <1>15, <1>16, <1>17, <1>19 DEF TransferNext

LEMMA OthersFacts ==
    ASSUME TransferTypes, Others, steady'
    PROVE  /\ steady /\ job # "none"
           /\ \E record \in Records : rows' = Append(rows, record) /\ record.id \notin RowIds(rows \o before)
           /\ UNCHANGED <<job, ended, size, offset, file, held, left, taken, count, before, jobs>>
<1>1. steady' => steady /\ job # "none"
  BY DEF Others
<1>2. QED BY <1>1 DEF Others

LEMMA HeadsMore ==
    ASSUME NEW S, NEW s \in Seq(S), NEW t \in Seq(S), NEW e \in S, Heads(s, t)
    PROVE  Heads(s, Append(t, e))
<1>1. /\ Len(Append(t, e)) = Len(t) + 1
      /\ \A i \in 1..Len(t) : Append(t, e)[i] = t[i]
  BY AppendProperties
<1>2. Len(s) \in Nat /\ Len(t) \in Nat
  OBVIOUS
<1>3. QED BY <1>1, <1>2 DEF Heads

\* A page more of what is exported.
PageAdded(written, page, n) ==
    /\ Heads(written, rows) /\ Len(written) = offset + Len(page)
    /\ Len(page) \in Nat /\ Len(page) <= n
    /\ Len(page) < n => Len(written) = Len(rows)

LEMMA PageHeads ==
    ASSUME TransferTypes, NEW done \in Seq(Records \cup {Broken}), Heads(done, rows), Len(done) = offset,
           NEW n \in Nat, NEW page, page = Scroll(n, offset), NEW written, written = done \o page
    PROVE  PageAdded(written, page, n)
<1>1. rows \in Seq(Records) /\ offset \in Nat
  BY DEF TransferTypes
<1>2. /\ page \in Seq(Records) /\ Len(page) <= n
      /\ offset <= Len(rows) =>
           Len(page) = IF n < Len(rows) - offset THEN n ELSE Len(rows) - offset
      /\ \A i \in 1..Len(page) : offset + i <= Len(rows) /\ page[i] = rows[offset + i]
  BY <1>1, ScrollFacts
<1>3. page \in Seq(Records \cup {Broken})
  BY <1>2, SeqMonotonic
<1>4. /\ written \in Seq(Records \cup {Broken}) /\ Len(written) = Len(done) + Len(page)
      /\ \A i \in 1..Len(done) + Len(page) :
            written[i] = IF i <= Len(done) THEN done[i] ELSE page[i - Len(done)]
  BY <1>1, <1>3, ConcatProperties
<1>5. Len(page) \in Nat /\ Len(rows) \in Nat /\ Len(done) \in Nat
  BY <1>1, <1>2
<1>6. Len(done) <= Len(rows) /\ \A i \in 1..Len(done) : done[i] = rows[i]
  BY DEF Heads
<1>7. Len(page) < n => Len(written) = Len(rows)
  BY <1>1, <1>2, <1>4, <1>5, <1>6
<1>8. Len(written) <= Len(rows)
  BY <1>1, <1>2, <1>4, <1>5, <1>6
<1>9. ASSUME NEW i \in 1..Len(written) PROVE written[i] = rows[i]
  <2>1. CASE i <= Len(done)
    BY <1>4, <1>5, <1>6, <2>1
  <2>2. CASE i > Len(done)
    <3>1. i - Len(done) \in 1..Len(page)
      BY <1>4, <1>5, <2>2
    <3>2. page[i - Len(done)] = rows[offset + (i - Len(done))]
      BY <1>2, <3>1
    <3>3. written[i] = page[i - Len(done)]
      BY <1>4, <1>5, <2>2
    <3>4. offset + (i - Len(done)) = i
      BY <1>5, <2>2
    <3>5. QED BY <3>2, <3>3, <3>4
  <2>3. QED BY <1>5, <2>1, <2>2
<1>10. QED BY <1>2, <1>4, <1>5, <1>7, <1>8, <1>9 DEF Heads, PageAdded

\* The file is the head of what is written.
LEMMA FileHeads ==
    ASSUME NEW S, NEW s \in Seq(S), NEW u \in Seq(S), NEW t \in Seq(S), Heads(s \o u, t)
    PROVE  Heads(s, t)
<1>1. /\ Len(s \o u) = Len(s) + Len(u) /\ \A i \in 1..Len(s) : (s \o u)[i] = s[i]
      /\ Len(s) \in Nat /\ Len(u) \in Nat /\ Len(t) \in Nat
  OBVIOUS
<1>2. Len(s) + Len(u) <= Len(t) /\ \A i \in 1..Len(s) + Len(u) : (s \o u)[i] = t[i]
  BY <1>1 DEF Heads
<1>3. QED BY <1>1, <1>2 DEF Heads

LEMMA HeadsOfBoth ==
    ASSUME NEW S, NEW s \in Seq(S), NEW u \in Seq(S), NEW t \in Seq(S),
           Heads(s, t), Heads(u, t), Len(u) = Len(t)
    PROVE  Heads(s, u)
<1>1. Len(s) \in Nat /\ Len(t) \in Nat /\ Len(u) \in Nat
  OBVIOUS
<1>2. QED BY <1>1 DEF Heads

\* What the export has with a page more, and that a short page was the last.
LEMMA ExportPageHeads ==
    ASSUME TransferTypes, Exporting, steady, job \in {"export", "direct"},
           NEW written, written = Written \o Page
    PROVE  /\ Heads(written, rows)
           /\ ~(Len(Page) < size) => Len(written) = offset + size
           /\ Len(Page) < size /\ (job = "direct" \/ size <= MaxLimit) => Heads(before, written)
<1>0. /\ rows \in Seq(Records) /\ before \in Seq(Records) /\ Len(rows) \in Nat /\ size \in Nat /\ offset \in Nat
      /\ rows \in Seq(Records \cup {Broken}) /\ before \in Seq(Records \cup {Broken})
      /\ Written \in Seq(Records \cup {Broken})
  BY SeqMonotonic DEF TransferTypes, Written
<1>1. Heads(before, rows) /\ Heads(Written, rows) /\ Len(Written) = offset
  BY DEF Exporting
<1>2. PICK n \in Nat : Page = Scroll(n, offset) /\ n <= size /\ (job # "export" \/ size <= MaxLimit => n = size)
  BY ExportPageTypes
<1>3. /\ Heads(written, rows) /\ Len(written) = offset + Len(Page)
      /\ Len(Page) \in Nat /\ Len(Page) <= n
      /\ Len(Page) < n => Len(written) = Len(rows)
  <2>1. Written \in Seq(Records \cup {Broken}) /\ Heads(Written, rows) /\ Len(Written) = offset
    BY <1>0, <1>1
  <2>2. Page = Scroll(n, offset)
    BY <1>2
  <2>3. written = Written \o Page
    OBVIOUS
  <2>4. PageAdded(written, Page, n)
    BY <2>1, <2>2, <2>3, PageHeads
  <2>5. QED BY <2>4 DEF PageAdded
<1>4. written \in Seq(Records \cup {Broken})
  BY <1>0, ExportPageTypes
<1>5. ASSUME Len(Page) < size, job = "direct" \/ size <= MaxLimit PROVE Heads(before, written)
  <2>1. Len(written) = Len(rows)
    BY <1>2, <1>3, <1>5
  <2>2. QED BY <1>0, <1>1, <1>3, <1>4, <2>1, HeadsOfBoth
<1>6. ~(Len(Page) < size) => Len(Page) = size
  BY <1>0, <1>2, <1>3
<1>7. QED BY <1>3, <1>5, <1>6

LEMMA ExportingStep == TransferTypes /\ TransferTypes' /\ Exporting /\ [TransferNext]_tvars => Exporting'
<1> SUFFICES ASSUME TransferTypes, TransferTypes', Exporting, [TransferNext]_tvars PROVE Exporting'
  OBVIOUS
<1>0. /\ rows \in Seq(Records) /\ before \in Seq(Records) /\ file \in Seq(Records \cup {Broken})
      /\ rows \in Seq(Records \cup {Broken}) /\ before \in Seq(Records \cup {Broken})
      /\ held \in Seq(Records \cup {Broken}) /\ Written \in Seq(Records \cup {Broken})
      /\ Len(rows) \in Nat /\ offset \in Nat /\ size \in Nat
      /\ (ended # "no" => job = "none")
  BY SeqMonotonic DEF TransferTypes, Written
<1>10. file' \in Seq(Records \cup {Broken}) /\ held' \in Seq(Records \cup {Broken})
  BY DEF TransferTypes
<1>1. CASE UNCHANGED tvars
  BY <1>1 DEF tvars, count, Exporting, Heads, Written
<1>2. CASE StartExport
  <2>1. /\ job' \in {"export", "direct"} /\ ended' = "no" /\ before' = rows /\ rows' = rows
        /\ file' = <<>> /\ held' = <<>> /\ offset' = 0
    BY <1>2 DEF StartExport, Begin
  <2>2. Written' = <<>> /\ Len(<<>>) = 0
    BY <2>1 DEF Written
  <2>3. Heads(before, rows)' /\ Heads(Written, rows)'
    BY <1>0, <2>1, <2>2 DEF Heads
  <2>4. QED BY <2>1, <2>2, <2>3 DEF Exporting
<1>3. CASE ExportPage
  <2>1. PICK n \in {0, Len(held), Len(held \o Page)} : Write(n, Page)
    BY <1>3 DEF ExportPage
  <2>2. Page \in Seq(Records \cup {Broken}) /\ n \in Nat
    BY <1>0, ExportPageTypes
  <2>3. Written' = Written \o Page
    BY <1>0, <2>1, <2>2, WriteFacts
  <2>4. /\ job = "export" /\ ended = "no" /\ offset' = offset + size
        /\ job' = IF Len(Page) < size THEN "closing" ELSE job
        /\ UNCHANGED <<rows, ended, size, before, steady>>
    BY <1>0, <1>3 DEF ExportPage
  <2>5. ASSUME steady
        PROVE  /\ Heads(before, rows) /\ Heads(Written', rows)
               /\ ~(Len(Page) < size) => Len(Written') = offset + size
               /\ Len(Page) < size /\ size <= MaxLimit => Heads(before, Written')
    BY <2>3, <2>4, <2>5, ExportPageHeads DEF Exporting
  <2>6. CASE Len(Page) < size
    BY <2>4, <2>5, <2>6 DEF Exporting, Heads
  <2>7. CASE ~(Len(Page) < size)
    BY <2>4, <2>5, <2>7 DEF Exporting, Heads
  <2>8. QED BY <2>6, <2>7
<1>4. CASE DropWriter
  <2>1. PICK n \in 0..Len(held) : Write(n, <<>>)
    BY <1>4 DEF DropWriter
  <2>8. n \in Nat /\ <<>> \in Seq(Records \cup {Broken})
    BY <1>0, <2>1, EmptyFacts
  <2>2. Written' = Written \o <<>>
    BY <1>0, <2>1, <2>8, WriteFacts
  <2>3. Written' = Written
    BY <1>0, <2>2, ConcatEmptySeq
  <2>4. /\ job = "closing" /\ job' = "none" /\ ended' = "export"
        /\ UNCHANGED <<rows, size, before, steady>>
    BY <1>4 DEF DropWriter, End
  <2>5. steady => Heads(Written', rows) /\ (size <= MaxLimit => Heads(before, Written'))
    BY <2>3, <2>4 DEF Exporting
  <2>6. steady => Heads(file', rows)
    BY <1>0, <1>10, <2>5, FileHeads DEF Written
  <2>7. QED BY <2>4, <2>5, <2>6 DEF Exporting, Heads
<1>5. CASE ExportDirect
  <2>1. /\ job = "direct" /\ ended = "no" /\ file' = file \o Page /\ offset' = offset + Len(Page)
        /\ IF Len(Page) < size THEN job' = "none" /\ ended' = "direct" ELSE UNCHANGED <<job, ended>>
        /\ UNCHANGED <<rows, size, held, before, steady>>
    BY <1>0, <1>5 DEF ExportDirect, End
  <2>2. held = <<>>
    BY <2>1 DEF Exporting
  <2>3. Written = file /\ Written' = file'
    BY <1>0, <1>10, <2>1, <2>2 DEF Written
  <2>4. ASSUME steady
        PROVE  /\ Heads(before, rows) /\ Heads(file', rows)
               /\ ~(Len(Page) < size) => Len(file') = offset + size
               /\ Len(Page) < size => Heads(before, file')
    BY <2>1, <2>3, <2>4, ExportPageHeads DEF Exporting
  <2>5. CASE Len(Page) < size
    BY <2>1, <2>2, <2>4, <2>5 DEF Exporting, Heads
  <2>6. CASE ~(Len(Page) < size)
    <3>1. Len(Page) = size
      <4>1. PICK n \in Nat : Page = Scroll(n, offset) /\ n = size
        BY <2>1, ExportPageTypes
      <4>2. Len(Page) <= n
        BY <1>0, <4>1, ScrollFacts
      <4>3. QED BY <1>0, <2>6, <4>1, <4>2, ExportPageTypes
    <3>2. QED BY <2>1, <2>2, <2>3, <2>4, <2>6, <3>1 DEF Exporting, Heads
  <2>7. QED BY <2>5, <2>6
<1>6. CASE ExportFails
  <2>1. PICK n \in 0..Len(held \o Page) : Write(n, Page)
    BY <1>6 DEF ExportFails
  <2>2. Page \in Seq(Records \cup {Broken}) /\ n \in Nat
    BY ExportPageTypes
  <2>3. Written' = Written \o Page
    BY <1>0, <2>1, <2>2, WriteFacts
  <2>4. /\ job \in {"export", "direct"} /\ job' = "none" /\ ended' = "stopped"
        /\ UNCHANGED <<rows, before, steady>>
    BY <1>6 DEF ExportFails, End
  <2>5. steady => Heads(Written', rows)
    BY <2>3, <2>4, ExportPageHeads
  <2>6. steady => Heads(file', rows)
    BY <1>0, <1>10, <2>5, FileHeads DEF Written
  <2>7. QED BY <2>4, <2>6 DEF Exporting, Heads
<1>7. CASE StartImport \/ EndImport \/ StartPurge \/ EndPurge \/ PurgeFails
  BY <1>7 DEF StartImport, EndImport, StartPurge, EndPurge, PurgeFails, Begin, End, Exporting
<1>8. CASE SendBatch \/ ImportChunk \/ BatchAnswered \/ BatchFails \/ PurgeScan \/ PurgeDelete
  <2>1. job \notin {"export", "direct", "closing", "none"} /\ ended = "no"
    BY <1>8 DEF SendBatch, ImportChunk, BatchAnswered, BatchFails, PurgeScan, PurgeDelete, TransferTypes
  <2>2. job' \notin {"export", "direct", "closing"} /\ ended' = ended
    BY <1>8, <2>1 DEF SendBatch, ImportChunk, BatchAnswered, BatchFails, PurgeScan, PurgeDelete
  <2>3. QED BY <2>1, <2>2 DEF Exporting
<1>9. CASE Others
  <2>0. UNCHANGED <<job, ended, size, offset, file, held, before>>
    BY <1>9 DEF Others
  <2> SUFFICES ASSUME steady' PROVE Exporting'
    BY <2>0 DEF Exporting
  <2>1. /\ steady /\ job # "none" /\ ended = "no"
        /\ \E record \in Records : rows' = Append(rows, record)
    BY <1>0, <1>9, OthersFacts
  <2>2. PICK record \in Records : rows' = Append(rows, record)
    BY <2>1
  <2>3. \A s \in Seq(Records \cup {Broken}) : Heads(s, rows) => Heads(s, rows')
    BY <1>0, <2>2, HeadsMore
  <2>4. Heads(before, rows) => Heads(before, rows')
    BY <1>0, <2>3
  <2>5. (Heads(Written, rows) => Heads(Written, rows')) /\ Written' = Written
    BY <1>0, <2>0, <2>3 DEF Written
  <2>6. QED BY <2>0, <2>1, <2>4, <2>5 DEF Exporting, Heads
<1>11. QED BY <1>1, <1>2, <1>3, <1>4, <1>5, <1>6, <1>7, <1>8, <1>9 DEF TransferNext

\* The lines that follow the first n and are upserted are stored with them.
LEMMA StoredMore ==
    ASSUME TransferTypes, TransferTypes', NEW n \in Nat, NEW new \in Seq(Records), NEW m \in Nat,
           m = Len(new), Stored(n), \A j \in 1..m : new[j] = file[n + j],
           Upsert(new), UNCHANGED file
    PROVE  Stored(n + m)'
<1>1. rows \in Seq(Records)
  BY DEF TransferTypes
<1>2. /\ \A row : row \in ToSet(rows') <=>
            row \in ToSet(new) \/ (row \in ToSet(rows) /\ row.id \notin RowIds(new))
      /\ RowIds(rows) \cup RowIds(new) \subseteq RowIds(rows)'
  BY <1>1, UpsertFacts
<1>3. DOMAIN new = 1..m
  OBVIOUS
<1>4. \A j \in 1..m : new[j] \in ToSet(new) /\ new[j].id \in RowIds(new)
  BY <1>3 DEF ToSet, RowIds
<1>5. ASSUME NEW i \in 1..n + m, i \notin 1..n PROVE \E j \in 1..m : i = n + j
  <2>1. i - n \in 1..m /\ i = n + (i - n)
    BY <1>5
  <2>2. QED BY <2>1
<1>6. \A i \in 1..n : i \in 1..n + m
  OBVIOUS
<1>7. \A j \in 1..m : n + j \in 1..n + m /\ \A i \in 1..n : n + j > i
  OBVIOUS
<1>8. /\ \A i \in 1..n : file[i].id \in RowIds(rows)
      /\ \A i \in 1..n : (\A j \in 1..n : j > i => file[j].id # file[i].id) => file[i] \in ToSet(rows)
      /\ \A row \in ToSet(rows) : \A i \in 1..n : file[i].id = row.id => \E j \in 1..n : file[j] = row
  BY DEF Stored
<1>9. ASSUME NEW i \in 1..n + m PROVE file[i].id \in RowIds(rows)'
  <2>1. CASE i \in 1..n
    BY <1>2, <1>8, <2>1
  <2>2. CASE i \notin 1..n
    <3>1. PICK j \in 1..m : i = n + j
      BY <1>5, <2>2
    <3>2. QED BY <1>2, <1>4, <3>1
  <2>3. QED BY <2>1, <2>2
<1>10. ASSUME NEW i \in 1..n + m, \A j \in 1..n + m : j > i => file[j].id # file[i].id
       PROVE  file[i] \in ToSet(rows')
  <2>1. CASE i \in 1..n
    <3>1. file[i] \in ToSet(rows)
      BY <1>6, <1>8, <1>10, <2>1
    <3>2. ASSUME NEW j \in 1..m PROVE new[j].id # file[i].id
      BY <1>7, <1>10, <2>1
    <3>3. file[i].id \notin RowIds(new)
      BY <1>3, <3>2 DEF RowIds, ToSet
    <3>4. QED BY <1>2, <3>1, <3>3
  <2>2. CASE i \notin 1..n
    <3>1. PICK j \in 1..m : i = n + j
      BY <1>5, <2>2
    <3>2. QED BY <1>2, <1>4, <3>1
  <2>3. QED BY <2>1, <2>2
<1>11. ASSUME NEW row \in ToSet(rows'), NEW i \in 1..n + m, file[i].id = row.id
       PROVE  \E j \in 1..n + m : file[j] = row
  <2>1. CASE row \in ToSet(new)
    <3>1. PICK j \in 1..m : row = new[j]
      BY <1>3, <2>1 DEF ToSet
    <3>2. QED BY <1>7, <3>1
  <2>2. CASE row \notin ToSet(new)
    <3>1. row \in ToSet(rows) /\ row.id \notin RowIds(new)
      BY <1>2, <2>2
    <3>2. i \in 1..n
      <4>1. SUFFICES ASSUME i \notin 1..n PROVE FALSE
        OBVIOUS
      <4>2. PICK j \in 1..m : i = n + j
        BY <1>5, <4>1
      <4>3. QED BY <1>4, <1>11, <3>1, <4>2
    <3>3. QED BY <1>6, <1>8, <1>11, <3>1, <3>2
  <2>3. QED BY <2>1, <2>2
<1>12. QED BY <1>9, <1>10, <1>11 DEF Stored

\* A chunk that is stored whole moves from what is in hand to what is there.
LEMMA ChunkStored ==
    ASSUME TransferTypes, TransferTypes', AllThere, Upsert(Valid), Valid = Chunk,
           got' = got + Len(Valid), taken' = After(EmbedBatch, taken),
           UNCHANGED <<file, left, imported>>
    PROVE  AllThere'
<1>1. /\ rows \in Seq(Records) /\ taken \in Seq(Records) /\ EmbedBatch \in Nat \ {0}
      /\ Len(left) \in Nat /\ Len(file) \in Nat /\ imported \in Nat /\ got \in Nat
      /\ Len(taken) \in Nat
  BY TransferAssumption DEF TransferTypes
<1>2. /\ Chunk \in Seq(Records) /\ Len(Chunk) \in Nat
      /\ Len(Chunk) = IF EmbedBatch < Len(taken) THEN EmbedBatch ELSE Len(taken)
      /\ \A i \in 1..Len(Chunk) : Chunk[i] = taken[i]
  BY ChunkTypes
<1>3. /\ Len(taken') = IF EmbedBatch <= Len(taken) THEN Len(taken) - EmbedBatch ELSE 0
      /\ \A i \in 1..Len(taken') : taken'[i] = taken[EmbedBatch + i]
  BY <1>1, AfterFacts
<1>5. Len(taken') + Len(Chunk) = Len(taken) /\ got' = got + Len(Chunk)
      /\ (Len(taken') > 0 => Len(Chunk) = EmbedBatch) /\ Len(taken') \in Nat /\ got' \in Nat
  <2>1. taken' \in Seq(Records) /\ got' \in Nat
    BY DEF TransferTypes
  <2>2. Len(taken') \in Nat
    BY <2>1
  <2>3. got' = got + Len(Chunk)
    OBVIOUS
  <2>4. Len(taken') + Len(Chunk) = Len(taken) /\ (Len(taken') > 0 => Len(Chunk) = EmbedBatch)
    <3>1. EmbedBatch \in Nat /\ taken \in Seq(Records)
      BY <1>1
    <3>2. /\ Len(First(EmbedBatch, taken)) + Len(After(EmbedBatch, taken)) = Len(taken)
          /\ Len(After(EmbedBatch, taken)) > 0 => Len(First(EmbedBatch, taken)) = EmbedBatch
      BY <3>1, SplitFacts
    <3>3. Len(After(EmbedBatch, taken)) + Len(First(EmbedBatch, taken))
            = Len(First(EmbedBatch, taken)) + Len(After(EmbedBatch, taken))
      BY <3>1, SplitFacts
    <3>4. QED BY <3>2, <3>3 DEF Chunk
  <2>5. QED BY <2>1, <2>2, <2>3, <2>4
<1>6. /\ imported + got + Len(taken) + Len(left) = Len(file)
      /\ Stored(imported + got)
      /\ \A i \in 1..Len(taken) : taken[i] = file[imported + got + i]
      /\ \A i \in 1..Len(left) : left[i] = file[imported + got + Len(taken) + i]
  BY DEF AllThere
<1>7. Stored(imported + got)'
  <2>1. \A j \in 1..Len(Chunk) : Chunk[j] = file[imported + got + j]
    <3>1. \A j \in 1..Len(Chunk) : j \in 1..Len(taken)
      BY <1>1, <1>2
    <3>2. QED BY <1>2, <1>6, <3>1
  <2>2. imported + got \in Nat
    BY <1>1
  <2>3. Upsert(Chunk)
    OBVIOUS
  <2>4. PICK n \in Nat : n = imported + got
    BY <2>2
  <2>5. PICK m \in Nat : m = Len(Chunk)
    BY <1>2
  <2>6. PICK new \in Seq(Records) : new = Chunk
    BY <1>2
  <2>7. m = Len(new) /\ Stored(n) /\ (\A k \in 1..m : new[k] = file[n + k]) /\ Upsert(new)
    BY <1>6, <2>1, <2>3, <2>4, <2>5, <2>6
  <2>8. Stored(n + m)'
    BY <2>7, StoredMore
  <2>9. imported' + got' = n + m
    <3>1. imported \in Nat /\ got \in Nat /\ imported' = imported /\ got' = got + m
      BY <1>1, <1>5, <2>5
    <3>2. QED BY <2>4, <3>1
  <2>10. QED BY <2>8, <2>9 DEF Stored
<1>8. ASSUME NEW i \in 1..Len(taken') PROVE taken'[i] = file[imported + got' + i]
  <2>1. EmbedBatch + i \in 1..Len(taken) /\ Len(Chunk) = EmbedBatch
    <3>1. EmbedBatch \in Nat /\ taken \in Seq(Records)
      BY <1>1
    <3>2. \A k \in 1..Len(After(EmbedBatch, taken)) : EmbedBatch + k \in 1..Len(taken)
      BY <3>1, SplitFacts
    <3>3. Len(taken') > 0
      BY <1>5
    <3>4. QED BY <1>5, <3>2, <3>3
  <2>2. imported + got + (EmbedBatch + i) = imported + got' + i
    BY <1>1, <1>5, <2>1
  <2>3. QED BY <1>3, <1>6, <2>1, <2>2
<1>9. imported + got' + Len(taken') = imported + got + Len(taken)
  <2>1. Len(taken') \in Nat /\ Len(taken') + Len(Chunk) = Len(taken) /\ got' = got + Len(Chunk)
    BY <1>5
  <2>2. imported \in Nat /\ got \in Nat /\ Len(taken) \in Nat /\ Len(Chunk) \in Nat
    BY <1>1, <1>2
  <2>3. QED BY <2>1, <2>2
<1>10. \A i \in 1..Len(left) : left[i] = file[imported + got' + Len(taken') + i]
  BY <1>6, <1>9
<1>11. imported + got' + Len(taken') + Len(left) = Len(file)
  BY <1>6, <1>9
<1>12. QED BY <1>7, <1>8, <1>10, <1>11 DEF AllThere

\* A batch of which every line could be read.
LEMMA BatchSent ==
    ASSUME TransferTypes, TransferTypes', AllThere, taken = <<>>, got = 0, got' = 0,
           NEW lines, lines = First(ImportBatch, left), taken' = lines,
           left' = After(ImportBatch, left), UNCHANGED <<rows, file, imported>>
    PROVE  AllThere'
<1>1. /\ left \in Seq(Records \cup {Broken}) /\ ImportBatch \in Nat /\ imported \in Nat
      /\ Len(left) \in Nat /\ Len(file) \in Nat /\ Len(taken) = 0
  BY TransferAssumption DEF TransferTypes
<1>2. /\ Len(lines) = IF ImportBatch < Len(left) THEN ImportBatch ELSE Len(left)
      /\ \A i \in 1..Len(lines) : lines[i] = left[i]
  BY <1>1, FirstFacts
<1>3. /\ Len(left') = IF ImportBatch <= Len(left) THEN Len(left) - ImportBatch ELSE 0
      /\ \A i \in 1..Len(left') : left'[i] = left[ImportBatch + i]
  BY <1>1, AfterFacts
<1>4. Len(lines) \in Nat /\ Len(left') \in Nat /\ Len(lines) + Len(left') = Len(left)
      /\ (Len(left') > 0 => Len(lines) = ImportBatch)
  <2>1. left' \in Seq(Records \cup {Broken}) /\ taken' \in Seq(Records)
    BY DEF TransferTypes
  <2>2. Len(left') \in Nat /\ Len(lines) \in Nat
    BY <2>1
  <2>3. QED BY <1>1, <2>2, SplitFacts
<1>5. /\ imported + Len(left) = Len(file)
      /\ Stored(imported)
      /\ \A i \in 1..Len(left) : left[i] = file[imported + i]
  BY <1>1 DEF AllThere
<1>6. \A i \in 1..Len(lines) : lines[i] = file[imported + i]
  BY <1>1, <1>2, <1>4, <1>5
<1>7. ASSUME NEW i \in 1..Len(left') PROVE left'[i] = file[imported + Len(lines) + i]
  <2>1. ImportBatch + i \in 1..Len(left) /\ Len(lines) = ImportBatch
    BY <1>1, <1>4
  <2>2. imported + (ImportBatch + i) = imported + Len(lines) + i
    BY <1>1, <2>1
  <2>3. QED BY <1>3, <1>5, <2>1, <2>2
<1>8. imported + got' + Len(taken') + Len(left') = Len(file) /\ imported + got' = imported
  <2>1. Len(taken') = Len(lines) /\ got' = 0
    OBVIOUS
  <2>2. imported \in Nat /\ Len(lines) \in Nat /\ Len(left') \in Nat
    BY <1>1, <1>4
  <2>3. QED BY <1>4, <1>5, <2>1, <2>2
<1>9. Stored(imported)'
  BY <1>5 DEF Stored, RowIds, ToSet
<1>10. QED BY <1>5, <1>6, <1>7, <1>8, <1>9 DEF AllThere

LEMMA ImportingStep == TransferTypes /\ TransferTypes' /\ Importing /\ [TransferNext]_tvars => Importing'
<1> SUFFICES ASSUME TransferTypes, TransferTypes', Importing, [TransferNext]_tvars PROVE Importing'
  OBVIOUS
<1>0. /\ rows \in Seq(Records) /\ Len(file) \in Nat /\ Len(left) \in Nat /\ Len(taken) \in Nat
      /\ sent \in Nat /\ got \in Nat /\ bad \in Nat /\ imported \in Nat /\ reported \in Nat
      /\ ended # "no" => job = "none"
  BY DEF TransferTypes
<1>1. CASE UNCHANGED tvars
  <2>1. (AllThere' <=> AllThere) /\ (Stored(Len(file))' <=> Stored(Len(file)))
    BY <1>1 DEF tvars, count, AllThere, Stored, RowIds, ToSet
  <2>2. QED BY <1>1, <2>1 DEF tvars, count, Importing
<1>2. CASE StartImport
  <2>1. /\ left' = file /\ taken' = <<>> /\ got' = 0 /\ imported' = 0 /\ bad' = 0 /\ file' = file
        /\ ended' = "no"
    BY <1>2 DEF StartImport, Begin
  <2>2. AllThere'
    BY <1>0, <2>1 DEF AllThere, Stored
  <2>3. QED BY <2>1, <2>2 DEF Importing
<1>3. CASE SendBatch
  <2> DEFINE lines == First(ImportBatch, left)
  <2>1. /\ job = "import" /\ sent = 0 /\ left # <<>> /\ ended = "no"
        /\ sent' = Len(lines) /\ taken' = Readable(lines)
        /\ bad' = Len(lines) - Len(Readable(lines)) /\ got' = 0
        /\ left' = After(ImportBatch, left)
        /\ UNCHANGED <<rows, job, ended, file, imported, reported, steady>>
    BY <1>0, <1>3 DEF SendBatch
  <2>2. taken = <<>> /\ got = 0 /\ bad = 0
    BY <2>1 DEF Importing
  <2>3. sent' # 0
    <3>1. left \in Seq(Records \cup {Broken}) /\ ImportBatch \in Nat \ {0}
      BY TransferAssumption DEF TransferTypes
    <3>2. Len(lines) = IF ImportBatch < Len(left) THEN ImportBatch ELSE Len(left)
      BY <3>1, FirstFacts
    <3>3. Len(left) # 0
      BY <2>1, <3>1
    <3>4. QED BY <2>1, <3>1, <3>2, <3>3
  <2>4. ASSUME steady, reported = 0, bad' = 0 PROVE AllThere'
    <3>1. ImportBatch \in Nat
      BY TransferAssumption
    <3>2. Len(Readable(lines)) = Len(lines) /\ Readable(lines) = lines
      BY <2>1, <2>4, <3>1, BatchTypes
    <3>3. AllThere
      BY <2>1, <2>2, <2>4 DEF Importing
    <3>4. QED BY <2>1, <2>2, <3>2, <3>3, BatchSent
  <2>5. QED BY <2>1, <2>3, <2>4 DEF Importing
<1>4. CASE ImportChunk
  <2>1. /\ job = "import" /\ taken # <<>> /\ taken' = After(EmbedBatch, taken)
        /\ UNCHANGED <<job, ended, file, left, sent, imported, reported, steady>>
    BY <1>4 DEF ImportChunk
  <2>2. sent # 0
    BY <2>1 DEF Importing
  <2>3. ASSUME steady, reported = 0, bad' = 0 PROVE AllThere'
    <3>1. Len(Valid) \in Nat /\ Len(Chunk) \in Nat /\ Len(Valid) <= Len(Chunk)
      BY ChunkTypes
    <3>2. /\ Upsert(Valid) /\ got' = got + Len(Valid)
          /\ bad' = bad + (Len(Chunk) - Len(Valid))
      BY <1>0, <1>4, <2>3, <3>1 DEF ImportChunk
    <3>3. bad = 0 /\ Len(Valid) = Len(Chunk)
      BY <1>0, <2>3, <3>1, <3>2
    <3>4. Valid = Chunk
      BY <3>3, ChunkTypes
    <3>5. AllThere
      BY <2>1, <2>3, <3>3 DEF Importing
    <3>6. QED BY <2>1, <3>2, <3>4, <3>5, ChunkStored
  <2>4. ended' = "no"
    BY <1>0, <2>1
  <2>5. QED BY <2>1, <2>2, <2>3, <2>4 DEF Importing
<1>5. CASE BatchAnswered
  <2>1. /\ job = "import" /\ taken = <<>> /\ ended = "no"
        /\ imported' = imported + got /\ reported' = reported + bad
        /\ sent' = 0 /\ got' = 0 /\ bad' = 0
        /\ UNCHANGED <<rows, job, ended, file, left, taken, steady>>
    BY <1>0, <1>5 DEF BatchAnswered
  <2>2. ASSUME steady, reported' = 0 PROVE AllThere'
    <3>1. reported = 0 /\ bad = 0
      BY <1>0, <2>1, <2>2
    <3>2. AllThere
      BY <2>1, <2>2, <3>1 DEF Importing
    <3>3. imported' + got' = imported + got
      BY <1>0, <2>1
    <3>4. Len(taken) = 0
      BY <2>1
    <3>5. Stored(imported + got)'
      <4>1. PICK n : n = imported + got
        OBVIOUS
      <4>2. Stored(n)
        BY <3>2, <4>1 DEF AllThere
      <4>3. Stored(n)'
        BY <2>1, <4>2 DEF Stored, RowIds, ToSet
      <4>4. QED BY <3>3, <4>1, <4>3 DEF Stored
    <3>6. QED BY <2>1, <3>2, <3>3, <3>4, <3>5 DEF AllThere
  <2>3. QED BY <2>1, <2>2 DEF Importing
<1>6. CASE BatchFails
  <2>1. /\ job = "import" /\ sent > 0 /\ ended = "no" /\ reported' = reported + sent
        /\ taken' = <<>> /\ sent' = 0 /\ got' = 0 /\ bad' = 0 /\ UNCHANGED <<job, ended>>
    BY <1>0, <1>6 DEF BatchFails
  <2>2. reported' # 0
    BY <1>0, <2>1
  <2>3. QED BY <2>1, <2>2 DEF Importing
<1>7. CASE EndImport
  <2>1. /\ job = "import" /\ sent = 0 /\ left = <<>> /\ job' = "none"
        /\ UNCHANGED <<rows, file, count, steady>>
    BY <1>7 DEF EndImport, End
  <2>2. taken = <<>> /\ got = 0 /\ bad = 0 /\ Len(left) = 0 /\ Len(taken) = 0
    BY <2>1 DEF Importing
  <2>3. ASSUME steady, reported = 0
        PROVE  imported = Len(file) /\ Stored(Len(file))
    <3>1. AllThere
      BY <2>1, <2>2, <2>3 DEF Importing
    <3>2. QED BY <1>0, <2>2, <3>1 DEF AllThere
  <2>5. Stored(Len(file)) => Stored(Len(file))'
    BY <2>1 DEF Stored, RowIds, ToSet
  <2>4. QED BY <2>1, <2>3, <2>5 DEF Importing, count
<1>8. CASE StartExport \/ StartPurge \/ ExportFails \/ PurgeFails \/ EndPurge
  BY <1>8 DEF StartExport, StartPurge, ExportFails, PurgeFails, EndPurge, Begin, End, Importing
<1>9. CASE ExportPage \/ DropWriter \/ ExportDirect \/ PurgeScan \/ PurgeDelete
  <2>1. job \notin {"import", "none"} /\ ended = "no"
    BY <1>0, <1>9 DEF ExportPage, DropWriter, ExportDirect, PurgeScan, PurgeDelete
  <2>2. job' # "import" /\ ended' # "import"
    BY <1>9, <2>1 DEF ExportPage, DropWriter, ExportDirect, PurgeScan, PurgeDelete, End
  <2>3. QED BY <2>2 DEF Importing
<1>10. CASE Others
  <2>1. UNCHANGED <<job, ended, file, left, taken, count>>
    BY <1>10 DEF Others
  <2>2. ASSUME steady'
        PROVE  steady /\ ended = "no" /\ \A n \in Nat : Stored(n) => Stored(n)'
    <3>1. /\ steady /\ job # "none"
          /\ \E record \in Records : rows' = Append(rows, record) /\ record.id \notin RowIds(rows \o before)
      BY <1>10, <2>2, OthersFacts
    <3>2. PICK record \in Records : rows' = Append(rows, record) /\ record.id \notin RowIds(rows \o before)
      BY <3>1
    <3>3. rows' = rows \o <<record>> /\ <<record>> \in Seq(Records) /\ before \in Seq(Records)
      <4>1. rows' = rows \o <<record>>
        BY <1>0, <3>2, AppendIsConcat
      <4>2. <<record>> \in Seq(Records)
        OBVIOUS
      <4>3. QED BY <4>1, <4>2 DEF TransferTypes
    <3>4. \A row : row \in ToSet(rows') <=> row \in ToSet(rows) \/ row = record
      <4>1. \A row : row \in ToSet(rows \o <<record>>) <=> row \in ToSet(rows) \/ row \in ToSet(<<record>>)
        BY <1>0, <3>3, BothFacts
      <4>2. ToSet(<<record>>) = {record}
        BY DEF ToSet
      <4>3. QED BY <3>3, <4>1, <4>2
    <3>5. record.id \notin RowIds(rows)
      <4>1. \A row \in ToSet(rows) : row \in ToSet(rows \o before)
        BY <1>0, <3>3, BothFacts
      <4>2. QED BY <3>2, <4>1 DEF RowIds
    <3>6. RowIds(rows) \subseteq RowIds(rows)'
      <4>1. RowIds(rows)' = {row.id : row \in ToSet(rows')}
        BY DEF RowIds
      <4>2. QED BY <3>4, <4>1 DEF RowIds
    <3>7. ASSUME NEW n \in Nat, Stored(n) PROVE Stored(n)'
      <4>1. file' = file
        BY <2>1
      <4>2. /\ \A i \in 1..n : file[i].id \in RowIds(rows)
            /\ \A i \in 1..n : (\A j \in 1..n : j > i => file[j].id # file[i].id) => file[i] \in ToSet(rows)
            /\ \A row \in ToSet(rows) : \A i \in 1..n : file[i].id = row.id => \E j \in 1..n : file[j] = row
        BY <3>7 DEF Stored
      <4>3. \A row \in ToSet(rows') : \A i \in 1..n : file[i].id = row.id => \E j \in 1..n : file[j] = row
        BY <3>4, <3>5, <4>2
      <4>4. QED BY <3>4, <3>6, <4>1, <4>2, <4>3 DEF Stored
    <3>8. QED BY <1>0, <3>1, <3>7
  <2>3. imported + got \in Nat
    BY <1>0
  <2>4. ASSUME steady', AllThere PROVE AllThere'
    BY <2>1, <2>2, <2>3, <2>4 DEF AllThere, count
  <2>5. ASSUME steady', Stored(Len(file)) PROVE Stored(Len(file))'
    BY <1>0, <2>1, <2>2, <2>5
  <2>6. QED BY <2>1, <2>2, <2>4, <2>5 DEF Importing, count
<1>11. QED BY <1>1, <1>2, <1>3, <1>4, <1>5, <1>6, <1>7, <1>8, <1>9, <1>10 DEF TransferNext

LEMMA FoundFacts ==
    ASSUME NEW page \in Seq(Records)
    PROVE  /\ Keep(page, OfSource) \in Seq(Records)
           /\ \A i \in 1..Len(page) : page[i] \in OfSource =>
                 \E j \in 1..Len(Keep(page, OfSource)) : Keep(page, OfSource)[j] = page[i]
           /\ \A j \in 1..Len(Keep(page, OfSource)) :
                 \E i \in 1..Len(page) : Keep(page, OfSource)[j] = page[i] /\ page[i].source = Source
<1> DEFINE found == Keep(page, OfSource)
<1>1. /\ found \in Seq(Records)
      /\ \A i \in 1..Len(page) : page[i] \in OfSource => \E j \in 1..Len(found) : found[j] = page[i]
      /\ \A j \in 1..Len(found) : \E i \in 1..Len(page) : found[j] = page[i] /\ page[i] \in OfSource
  BY KeepFacts
<1> HIDE DEF found
<1>2. \A j \in 1..Len(found) : \E i \in 1..Len(page) : found[j] = page[i] /\ page[i].source = Source
  BY <1>1 DEF OfSource
<1>3. QED BY <1>1, <1>2 DEF found

\* The list of a purge after a page more, and how far the rows are scanned.
Listing(page, list) ==
    /\ list \in Seq(Records)
    /\ \A i \in 1..Len(list) :
          \/ \E j \in 1..Len(left) : list[i] = left[j]
          \/ \E k \in 1..Len(rows) : list[i] = rows[k] /\ rows[k].source = Source
    /\ (\A i \in 1..Len(rows) : i <= offset /\ rows[i].source = Source =>
           \E j \in 1..Len(left) : left[j] = rows[i])
       => \A i \in 1..Len(rows) : i <= offset + ScanSize /\ rows[i].source = Source =>
             \E j \in 1..Len(list) : list[j] = rows[i]
    /\ Len(page) < ScanSize => Len(rows) <= offset + ScanSize
    /\ ~(Len(page) < ScanSize) /\ offset <= Len(rows) => offset + ScanSize <= Len(rows)

LEMMA PageListed ==
    ASSUME TransferTypes, left \in Seq(Records),
           NEW page, page = Scroll(ScanSize, offset),
           NEW list, list = left \o Keep(page, OfSource)
    PROVE  Listing(page, list)
<1> DEFINE found == Keep(page, OfSource)
<1>1. rows \in Seq(Records) /\ offset \in Nat /\ ScanSize \in Nat /\ Len(rows) \in Nat
  BY TransferAssumption DEF TransferTypes
<1>2. /\ page \in Seq(Records)
      /\ offset <= Len(rows) =>
           Len(page) = IF ScanSize < Len(rows) - offset THEN ScanSize ELSE Len(rows) - offset
      /\ \A i \in 1..Len(page) : offset + i <= Len(rows) /\ page[i] = rows[offset + i]
  BY <1>1, ScrollFacts
<1>3. /\ found \in Seq(Records)
      /\ \A i \in 1..Len(page) : page[i] \in OfSource => \E j \in 1..Len(found) : found[j] = page[i]
      /\ \A j \in 1..Len(found) : \E i \in 1..Len(page) : found[j] = page[i] /\ page[i].source = Source
  BY <1>2, FoundFacts
<1> HIDE DEF found
<1>4. list = left \o found
  BY DEF found
<1>5. /\ list \in Seq(Records) /\ Len(list) = Len(left) + Len(found)
      /\ \A i \in 1..Len(left) : list[i] = left[i]
      /\ \A i \in 1..Len(found) : list[Len(left) + i] = found[i]
  BY <1>3, <1>4
<1>6. Len(left) \in Nat /\ Len(found) \in Nat /\ Len(page) \in Nat /\ Len(list) \in Nat
  BY <1>2, <1>3, <1>5
<1>7. ASSUME NEW i \in 1..Len(list)
      PROVE  \/ \E j \in 1..Len(left) : list[i] = left[j]
             \/ \E k \in 1..Len(rows) : list[i] = rows[k] /\ rows[k].source = Source
  <2>1. CASE i <= Len(left)
    BY <1>5, <1>6, <2>1
  <2>2. CASE i > Len(left)
    <3>1. i - Len(left) \in 1..Len(found)
      BY <1>5, <1>6, <2>2
    <3>2. PICK j \in 1..Len(found) : i = Len(left) + j
      BY <1>6, <3>1
    <3>3. PICK k \in 1..Len(page) : found[j] = page[k] /\ page[k].source = Source
      BY <1>3
    <3>4. offset + k \in 1..Len(rows) /\ page[k] = rows[offset + k]
      BY <1>1, <1>2, <1>6
    <3>5. list[i] = rows[offset + k]
      BY <1>5, <3>2, <3>3, <3>4
    <3>6. QED BY <3>3, <3>4, <3>5
  <2>3. QED BY <1>6, <2>1, <2>2
<1>8. ASSUME \A i \in 1..Len(rows) : i <= offset /\ rows[i].source = Source =>
                \E j \in 1..Len(left) : left[j] = rows[i],
             NEW i \in 1..Len(rows), i <= offset + ScanSize, rows[i].source = Source
      PROVE  \E j \in 1..Len(list) : list[j] = rows[i]
  <2>1. CASE i <= offset
    <3>1. PICK j \in 1..Len(left) : left[j] = rows[i]
      BY <1>8, <2>1
    <3>2. j \in 1..Len(list) /\ list[j] = left[j]
      BY <1>5, <1>6
    <3>3. QED BY <3>1, <3>2
  <2>2. CASE i > offset
    <3>1. PICK k \in Nat : i = offset + k /\ k > 0
      <4>1. i - offset \in Nat /\ i = offset + (i - offset) /\ i - offset > 0
        BY <1>1, <2>2
      <4>2. QED BY <4>1
    <3>2. k \in 1..Len(page)
      BY <1>1, <1>2, <1>6, <1>8, <3>1
    <3>3. page[k] = rows[i] /\ page[k] \in OfSource
      BY <1>1, <1>2, <1>8, <3>1, <3>2 DEF OfSource
    <3>4. PICK j \in 1..Len(found) : found[j] = page[k]
      BY <1>3, <3>2, <3>3
    <3>5. Len(left) + j \in 1..Len(list) /\ list[Len(left) + j] = found[j]
      BY <1>5, <1>6
    <3>6. QED BY <3>3, <3>4, <3>5
  <2>3. QED BY <1>1, <2>1, <2>2
<1>9. /\ Len(page) < ScanSize => Len(rows) <= offset + ScanSize
      /\ ~(Len(page) < ScanSize) /\ offset <= Len(rows) => offset + ScanSize <= Len(rows)
  BY <1>1, <1>2, <1>6
<1>10. QED BY <1>5, <1>7, <1>8, <1>9 DEF Listing

\* What a batch of deletes takes from the list.
LEMMA DeleteFacts ==
    ASSUME TransferTypes, left \in Seq(Records),
           NEW some, some = First(DeleteSize, left), NEW rest, rest = After(DeleteSize, left)
    PROVE  /\ rest \in Seq(Records)
           /\ \A i \in 1..Len(rest) : \E j \in 1..Len(left) : rest[i] = left[j]
           /\ RowIds(some) \subseteq RowIds(left)
           /\ RowIds(left) \subseteq RowIds(some) \cup RowIds(rest)
<1>1. DeleteSize \in Nat
  BY TransferAssumption
<1>2. /\ some \in Seq(Records) /\ \A i \in 1..Len(some) : some[i] = left[i]
      /\ Len(some) = IF DeleteSize < Len(left) THEN DeleteSize ELSE Len(left)
  BY <1>1, FirstFacts
<1>3. rest \in Seq(Records) /\ \A i \in 1..Len(rest) : rest[i] = left[DeleteSize + i]
  BY <1>1, AfterFacts
<1>4. /\ Len(some) \in Nat /\ Len(left) \in Nat /\ Len(rest) \in Nat
      /\ DOMAIN left = 1..Len(left) /\ DOMAIN some = 1..Len(some) /\ DOMAIN rest = 1..Len(rest)
  BY <1>2, <1>3
<1>5. /\ \A i \in 1..Len(rest) : DeleteSize + i \in 1..Len(left)
      /\ \A i \in 1..Len(left) : i \in 1..Len(some) \/ \E j \in 1..Len(rest) : i = DeleteSize + j
  BY <1>1, SplitFacts
<1>6. Len(some) <= Len(left)
  BY <1>1, <1>2, <1>4
<1>7. ASSUME NEW i \in 1..Len(some) PROVE some[i].id \in RowIds(left)
  <2>1. i \in 1..Len(left) /\ some[i] = left[i]
    BY <1>2, <1>4, <1>6
  <2>2. QED BY <1>4, <2>1 DEF RowIds, ToSet
<1>8. ASSUME NEW i \in 1..Len(left) PROVE left[i].id \in RowIds(some) \cup RowIds(rest)
  <2>1. CASE i \in 1..Len(some)
    BY <1>2, <1>4, <2>1 DEF RowIds, ToSet
  <2>2. CASE i \notin 1..Len(some)
    <3>1. PICK j \in 1..Len(rest) : i = DeleteSize + j
      BY <1>5, <2>2
    <3>2. QED BY <1>3, <1>4, <3>1 DEF RowIds, ToSet
  <2>3. QED BY <2>1, <2>2
<1>9. RowIds(some) \subseteq RowIds(left)
  BY <1>4, <1>7 DEF RowIds, ToSet
<1>10. RowIds(left) \subseteq RowIds(some) \cup RowIds(rest)
  BY <1>4, <1>8 DEF RowIds, ToSet
<1>11. QED BY <1>3, <1>5, <1>9, <1>10

LEMMA PurgingStep == TransferTypes /\ TransferTypes' /\ Purging /\ [TransferNext]_tvars => Purging'
<1> SUFFICES ASSUME TransferTypes, TransferTypes', Purging, [TransferNext]_tvars PROVE Purging'
  OBVIOUS
<1>0. /\ rows \in Seq(Records) /\ before \in Seq(Records) /\ Len(rows) \in Nat /\ offset \in Nat
      /\ DOMAIN rows = 1..Len(rows) /\ DOMAIN before = 1..Len(before)
      /\ Len(before) \in Nat /\ (ended # "no" => job = "none")
  BY DEF TransferTypes
<1>1. CASE UNCHANGED tvars
  BY <1>1 DEF tvars, count, Purging, Marked, Heads, ToSet, RowIds
<1>2. CASE StartPurge
  <2>1. /\ job' = "purge" /\ ended' = "no" /\ left' = <<>> /\ before' = rows /\ rows' = rows
        /\ offset' = 0
    BY <1>2 DEF StartPurge, Begin
  <2>2. Heads(before, rows)'
    BY <1>0, <2>1 DEF Heads
  <2>3. <<>> \in Seq(Records) /\ Len(<<>>) = 0
    OBVIOUS
  <2>4. QED BY <1>0, <2>1, <2>2, <2>3 DEF Purging
<1>3. CASE PurgeScan
  <2> DEFINE page == Scroll(ScanSize, offset)
  <2>1. /\ job = "purge" /\ left' = left \o Keep(page, OfSource)
        /\ job' = IF Len(page) < ScanSize THEN "purging" ELSE job
        /\ offset' = offset + ScanSize /\ ended = "no"
        /\ UNCHANGED <<rows, ended, before, steady>>
    BY <1>0, <1>3 DEF PurgeScan
  <2>2. left \in Seq(Records)
    BY <2>1 DEF Purging
  <2> HIDE DEF page
  <2>3. Listing(page, left')
    <3>1. page = Scroll(ScanSize, offset)
      BY DEF page
    <3>2. QED BY <2>1, <2>2, <3>1, PageListed
  <2>4. /\ left' \in Seq(Records)
        /\ \A i \in 1..Len(left') :
              \/ \E j \in 1..Len(left) : left'[i] = left[j]
              \/ \E k \in 1..Len(rows) : left'[i] = rows[k] /\ rows[k].source = Source
        /\ (\A i \in 1..Len(rows) : i <= offset /\ rows[i].source = Source =>
                  \E j \in 1..Len(left) : left[j] = rows[i])
              => \A i \in 1..Len(rows) : i <= offset + ScanSize /\ rows[i].source = Source =>
                    \E j \in 1..Len(left') : left'[j] = rows[i]
        /\ Len(page) < ScanSize => Len(rows) <= offset + ScanSize
        /\ ~(Len(page) < ScanSize) /\ offset <= Len(rows) => offset + ScanSize <= Len(rows)
    BY <2>3 DEF Listing
  <2>5. ASSUME steady
        PROVE  /\ Heads(before, rows) /\ offset <= Len(rows)
               /\ \A i \in 1..Len(left) : left[i].id \in RowIds(before) => Marked(left[i].id)
               /\ \A i \in 1..Len(rows) : i > Len(before) => rows[i].id \notin RowIds(before)
               /\ \A i \in 1..Len(rows) : i <= offset + ScanSize /\ rows[i].source = Source =>
                    \E j \in 1..Len(left') : left'[j] = rows[i]
    BY <2>1, <2>4, <2>5 DEF Purging
  <2>6. ASSUME steady PROVE \A i \in 1..Len(before) : i \in 1..Len(rows) /\ before[i] = rows[i]
    BY <1>0, <2>5, <2>6 DEF Heads
  <2>7. ASSUME steady, NEW i \in 1..Len(left'), left'[i].id \in RowIds(before) PROVE Marked(left'[i].id)
    <3>1. CASE \E j \in 1..Len(left) : left'[i] = left[j]
      BY <2>5, <2>7, <3>1
    <3>2. CASE \E k \in 1..Len(rows) : left'[i] = rows[k] /\ rows[k].source = Source
      <4>1. PICK k \in 1..Len(rows) : left'[i] = rows[k] /\ rows[k].source = Source
        BY <3>2
      <4>2. k \in 1..Len(before)
        BY <1>0, <2>5, <2>7, <4>1
      <4>3. rows[k] \in ToSet(before)
        BY <1>0, <2>6, <2>7, <4>2 DEF ToSet
      <4>4. QED BY <4>1, <4>3 DEF Marked
    <3>3. QED BY <2>4, <3>1, <3>2
  <2>8. ASSUME steady, Len(page) < ScanSize, NEW row \in ToSet(before)
        PROVE  row \in ToSet(rows) /\ (Marked(row.id) => row.id \in RowIds(left'))
    <3>1. PICK i \in 1..Len(before) : row = before[i]
      BY <1>0 DEF ToSet
    <3>2. row \in ToSet(rows)
      BY <1>0, <2>6, <2>8, <3>1 DEF ToSet
    <3>3. ASSUME Marked(row.id) PROVE row.id \in RowIds(left')
      <4>0. ScanSize \in Nat
        BY TransferAssumption
      <4>1. PICK other \in ToSet(before) : other.id = row.id /\ other.source = Source
        BY <3>3 DEF Marked
      <4>2. PICK k \in 1..Len(before) : other = before[k]
        BY <1>0 DEF ToSet
      <4>3. k \in 1..Len(rows) /\ rows[k] = other
        BY <2>6, <2>8, <4>2
      <4>4. k <= offset + ScanSize
        BY <1>0, <2>4, <2>8, <4>0, <4>3
      <4>5. PICK j \in 1..Len(left') : left'[j] = other
        BY <2>5, <2>8, <4>1, <4>3, <4>4
      <4>6. DOMAIN left' = 1..Len(left')
        BY <2>4
      <4>7. QED BY <4>1, <4>5, <4>6 DEF RowIds, ToSet
    <3>4. QED BY <3>2, <3>3
  <2>9. /\ RowIds(before)' = RowIds(before) /\ ToSet(before)' = ToSet(before) /\ ToSet(rows)' = ToSet(rows)
        /\ \A id : Marked(id)' <=> Marked(id)
    BY <2>1 DEF RowIds, ToSet, Marked
  <2>10. CASE Len(page) < ScanSize
    <3>1. job' = "purging"
      BY <2>1, <2>10
    <3>2. ASSUME steady, NEW row \in ToSet(before)
          PROVE  /\ Marked(row.id) => row \notin ToSet(rows) \/ row.id \in RowIds(left')
                 /\ ~Marked(row.id) => row \in ToSet(rows)
      BY <2>8, <2>10, <3>2
    <3>3. RowIds(left)' = RowIds(left')
      BY DEF RowIds, ToSet
    <3>4. QED BY <2>1, <2>4, <2>7, <2>9, <3>1, <3>2, <3>3 DEF Purging
  <2>11. CASE ~(Len(page) < ScanSize)
    <3>1. job' = "purge"
      BY <2>1, <2>11
    <3>2. QED BY <2>1, <2>4, <2>5, <2>7, <2>9, <2>11, <3>1 DEF Purging, Heads
  <2>12. QED BY <2>10, <2>11
<1>4. CASE PurgeDelete
  <2> DEFINE some == First(DeleteSize, left)
  <2>1. /\ job = "purging" /\ ended = "no" /\ rows' = Without(RowIds(some))
        /\ left' = After(DeleteSize, left) /\ UNCHANGED <<job, ended, before, steady>>
    BY <1>0, <1>4 DEF PurgeDelete
  <2>2. left \in Seq(Records)
    BY <2>1 DEF Purging
  <2>3. /\ left' \in Seq(Records)
        /\ \A i \in 1..Len(left') : \E j \in 1..Len(left) : left'[i] = left[j]
        /\ RowIds(some) \subseteq RowIds(left)
        /\ RowIds(left) \subseteq RowIds(some) \cup RowIds(left')
    BY <2>1, <2>2, DeleteFacts
  <2> HIDE DEF some
  <2>4. \A row : row \in ToSet(rows') <=> row \in ToSet(rows) /\ row.id \notin RowIds(some)
    BY <1>0, <2>1, WithoutFacts
  <2>5. /\ RowIds(before)' = RowIds(before) /\ ToSet(before)' = ToSet(before) /\ ToSet(rows)' = ToSet(rows')
        /\ RowIds(left)' = RowIds(left') /\ \A id : Marked(id)' <=> Marked(id)
    BY <2>1 DEF RowIds, ToSet, Marked
  <2>6. ASSUME steady
        PROVE  /\ \A i \in 1..Len(left) : left[i].id \in RowIds(before) => Marked(left[i].id)
               /\ \A row \in ToSet(before) :
                    /\ Marked(row.id) => row \notin ToSet(rows) \/ row.id \in RowIds(left)
                    /\ ~Marked(row.id) => row \in ToSet(rows)
    BY <2>1, <2>6 DEF Purging
  <2>7. steady => \A i \in 1..Len(left') : left'[i].id \in RowIds(before) => Marked(left'[i].id)
    BY <2>3, <2>6
  <2>8. ASSUME steady, NEW row \in ToSet(before)
        PROVE  /\ Marked(row.id) => row \notin ToSet(rows') \/ row.id \in RowIds(left')
               /\ ~Marked(row.id) => row \in ToSet(rows')
    <3>1. ASSUME Marked(row.id), row \in ToSet(rows') PROVE row.id \in RowIds(left')
      BY <2>3, <2>4, <2>6, <2>8, <3>1
    <3>2. ASSUME ~Marked(row.id) PROVE row \in ToSet(rows')
      <4>1. row.id \in RowIds(before) /\ row \in ToSet(rows)
        BY <2>6, <2>8, <3>2 DEF RowIds
      <4>2. row.id \notin RowIds(left)
        <5>1. DOMAIN left = 1..Len(left)
          BY <2>2
        <5>2. ASSUME NEW i \in 1..Len(left) PROVE left[i].id # row.id
          BY <2>6, <2>8, <3>2, <4>1
        <5>3. QED BY <5>1, <5>2 DEF RowIds, ToSet
      <4>3. QED BY <2>3, <2>4, <4>1, <4>2
    <3>3. QED BY <3>1, <3>2
  <2>9. QED BY <2>1, <2>3, <2>5, <2>7, <2>8 DEF Purging
<1>5. CASE EndPurge
  <2>1. /\ job = "purging" /\ left = <<>> /\ job' = "none" /\ UNCHANGED <<rows, before, steady>>
    BY <1>5 DEF EndPurge, End
  <2>2. /\ RowIds(left) = {} /\ ToSet(rows)' = ToSet(rows) /\ ToSet(before)' = ToSet(before)
        /\ \A id : Marked(id)' <=> Marked(id)
    BY <2>1 DEF ToSet, RowIds, Marked
  <2>3. steady => \A row \in ToSet(before) :
              /\ Marked(row.id) => row \notin ToSet(rows) \/ row.id \in RowIds(left)
              /\ ~Marked(row.id) => row \in ToSet(rows)
    BY <2>1 DEF Purging
  <2>4. QED BY <2>1, <2>2, <2>3 DEF Purging
<1>6. CASE StartExport \/ StartImport \/ ExportFails \/ PurgeFails \/ EndImport
  BY <1>6 DEF StartExport, StartImport, ExportFails, PurgeFails, EndImport, Begin, End, Purging
<1>7. CASE ExportPage \/ DropWriter \/ ExportDirect \/ SendBatch \/ ImportChunk \/ BatchAnswered \/ BatchFails
  <2>1. job \notin {"purge", "purging", "none"} /\ ended = "no"
    BY <1>0, <1>7 DEF ExportPage, DropWriter, ExportDirect, SendBatch, ImportChunk, BatchAnswered, BatchFails
  <2>2. job' \notin {"purge", "purging"} /\ ended' # "purge"
    BY <1>7, <2>1 DEF ExportPage, DropWriter, ExportDirect, SendBatch, ImportChunk, BatchAnswered, BatchFails, End
  <2>3. QED BY <2>2 DEF Purging
<1>8. CASE Others
  <2>1. UNCHANGED <<job, ended, offset, left, before>>
    BY <1>8 DEF Others
  <2>2. job \in {"purge", "purging"} => left \in Seq(Records)
    BY DEF Purging
  <2> SUFFICES ASSUME steady' PROVE Purging'
    BY <2>1, <2>2 DEF Purging
  <2>3. /\ steady /\ job # "none" /\ ended = "no"
        /\ \E record \in Records : rows' = Append(rows, record) /\ record.id \notin RowIds(rows \o before)
    BY <1>0, <1>8, OthersFacts
  <2>4. PICK record \in Records : rows' = Append(rows, record) /\ record.id \notin RowIds(rows \o before)
    BY <2>3
  <2>5. /\ Len(rows') = Len(rows) + 1 /\ rows'[Len(rows) + 1] = record
        /\ \A i \in 1..Len(rows) : rows'[i] = rows[i]
        /\ DOMAIN rows' = 1..Len(rows) + 1
    BY <1>0, <2>4
  <2>6. ToSet(rows') = ToSet(rows) \cup {record}
    BY <1>0, <2>5 DEF ToSet
  <2>7. record.id \notin RowIds(before) /\ record \notin ToSet(before)
    <3>1. \A row \in ToSet(before) : row \in ToSet(rows \o before)
      BY <1>0, BothFacts
    <3>2. QED BY <2>4, <3>1 DEF RowIds
  <2>8. Heads(before, rows) => Heads(before, rows')
    BY <1>0, <2>4, HeadsMore
  <2>9. /\ RowIds(before)' = RowIds(before) /\ ToSet(before)' = ToSet(before) /\ RowIds(left)' = RowIds(left)
        /\ ToSet(rows)' = ToSet(rows') /\ \A id : Marked(id)' <=> Marked(id)
    BY <2>1 DEF RowIds, ToSet, Marked
  <2>10. job \in {"purge", "purging"} =>
           \A i \in 1..Len(left) : left[i].id \in RowIds(before) => Marked(left[i].id)
    BY <2>3 DEF Purging
  <2>11. job = "purge" =>
          /\ Heads(before, rows') /\ offset <= Len(rows')
          /\ \A i \in 1..Len(rows') : i > Len(before) => rows'[i].id \notin RowIds(before)
          /\ \A i \in 1..Len(rows') : i <= offset /\ rows'[i].source = Source =>
                \E j \in 1..Len(left) : left[j] = rows'[i]
    <3> SUFFICES ASSUME job = "purge"
                 PROVE  /\ Heads(before, rows') /\ offset <= Len(rows')
                        /\ \A i \in 1..Len(rows') : i > Len(before) => rows'[i].id \notin RowIds(before)
                        /\ \A i \in 1..Len(rows') : i <= offset /\ rows'[i].source = Source =>
                              \E j \in 1..Len(left) : left[j] = rows'[i]
      OBVIOUS
    <3>1. /\ Heads(before, rows) /\ offset <= Len(rows)
          /\ \A i \in 1..Len(rows) : i > Len(before) => rows[i].id \notin RowIds(before)
          /\ \A i \in 1..Len(rows) : i <= offset /\ rows[i].source = Source =>
                \E j \in 1..Len(left) : left[j] = rows[i]
      BY <2>3 DEF Purging
    <3>2. \A i \in 1..Len(rows') : i \in 1..Len(rows) \/ (i = Len(rows) + 1 /\ ~(i <= offset))
      BY <1>0, <2>5, <3>1
    <3>3. \A i \in 1..Len(rows') : i > Len(before) => rows'[i].id \notin RowIds(before)
      BY <2>5, <2>7, <3>1, <3>2
    <3>4. \A i \in 1..Len(rows') : i <= offset /\ rows'[i].source = Source =>
                \E j \in 1..Len(left) : left[j] = rows'[i]
      BY <2>5, <3>1, <3>2
    <3>5. offset <= Len(rows')
      BY <1>0, <2>5, <3>1
    <3>6. QED BY <2>8, <3>1, <3>3, <3>4, <3>5
  <2>12. job = "purging" =>
          \A row \in ToSet(before) :
              /\ Marked(row.id) => row \notin ToSet(rows') \/ row.id \in RowIds(left)
              /\ ~Marked(row.id) => row \in ToSet(rows')
    BY <2>3, <2>6, <2>7 DEF Purging
  <2>13. Heads(before, rows)' <=> Heads(before, rows')
    BY <2>1 DEF Heads
  <2>14. QED BY <2>1, <2>2, <2>3, <2>9, <2>10, <2>11, <2>12, <2>13 DEF Purging
<1>9. QED BY <1>1, <1>2, <1>3, <1>4, <1>5, <1>6, <1>7, <1>8 DEF TransferNext

LEMMA TransferInitInv == TransferInit => TransferTypes /\ Exporting /\ Importing /\ Purging
<1> SUFFICES ASSUME TransferInit PROVE TransferTypes /\ Exporting /\ Importing /\ Purging
  OBVIOUS
<1>1. TransferTypes
  BY TransferAssumption, EmptyFacts DEF TransferInit, TransferTypes
<1>2. Exporting /\ Importing /\ Purging
  BY DEF TransferInit, Exporting, Importing, Purging
<1>3. QED BY <1>1, <1>2

LEMMA HeadsIsPrefix ==
    ASSUME NEW S, NEW s \in Seq(S), NEW t \in Seq(S), Heads(s, t) PROVE IsPrefix(s, t)
<1>1. Len(s) <= Len(t) /\ Len(s) \in Nat /\ Len(t) \in Nat
  BY DEF Heads
<1>2. SubSeq(s, 1, Len(s)) = SubSeq(t, 1, Len(s))
  BY <1>1 DEF Heads
<1>3. QED BY <1>1, <1>2 DEF IsPrefix

\* However an export ends, beside clients that only add rows, its file is the head of
\* the table, and one that ends well has all that was there but for what the buffer
\* could not write and what is behind the clamp: for any rows, page sizes, buffers
\* and steps of the others between two pages.
THEOREM ExportCompleteThm == TransferSpec => []ExportComplete
<1>1. TransferTypes /\ Exporting => ExportComplete
  <2> SUFFICES ASSUME TransferTypes, Exporting, steady
               PROVE  /\ ended \in {"export", "direct", "stopped"} => IsPrefix(file, rows)
                      /\ ended = "direct" => IsPrefix(before, file)
                      /\ ended = "export" /\ size <= MaxLimit => IsPrefix(before, file \o held)
    BY DEF ExportComplete
  <2>1. before \in Seq(Records \cup {Broken}) /\ file \in Seq(Records \cup {Broken})
          /\ rows \in Seq(Records \cup {Broken}) /\ file \o held \in Seq(Records \cup {Broken})
    BY SeqMonotonic DEF TransferTypes
  <2>2. /\ ended \in {"export", "direct", "stopped"} => Heads(file, rows)
        /\ ended = "direct" => Heads(before, file)
        /\ ended = "export" /\ size <= MaxLimit => Heads(before, file \o held)
    BY DEF Exporting, Written
  <2>3. QED BY <2>1, <2>2, HeadsIsPrefix
<1>2. QED BY <1>1, TransferInitInv, TransferTypesStep, ExportingStep, PTL DEF TransferSpec

\* An import that reports no error counts every line of the file; the last line of
\* each ID is in the table, and nothing but lines of the file under these IDs: for
\* any file, batch and chunk sizes, and whatever calls fail or answers are lost.
THEOREM ImportHonestThm == TransferSpec => []ImportHonest
<1>1. TransferTypes /\ Importing => ImportHonest
  <2> SUFFICES ASSUME TransferTypes, Importing, ended = "import", steady, reported = 0
               PROVE  /\ imported = Len(file)
                      /\ \A i \in DOMAIN file :
                            (\A j \in DOMAIN file : j > i => file[j].id # file[i].id) => file[i] \in ToSet(rows)
                      /\ \A row \in ToSet(rows) : row.id \in RowIds(file) => row \in ToSet(file)
    BY DEF ImportHonest
  <2>1. DOMAIN file = 1..Len(file)
    BY DEF TransferTypes
  <2>2. imported = Len(file) /\ Stored(Len(file))
    BY DEF Importing
  <2>3. /\ \A i \in 1..Len(file) :
              (\A j \in 1..Len(file) : j > i => file[j].id # file[i].id) => file[i] \in ToSet(rows)
        /\ \A row \in ToSet(rows) : \A i \in 1..Len(file) :
              file[i].id = row.id => \E j \in 1..Len(file) : file[j] = row
    BY <2>2 DEF Stored
  <2>4. ASSUME NEW row \in ToSet(rows), row.id \in RowIds(file) PROVE row \in ToSet(file)
    <3>1. PICK i \in 1..Len(file) : file[i].id = row.id
      BY <2>1, <2>4 DEF RowIds, ToSet
    <3>2. PICK j \in 1..Len(file) : file[j] = row
      BY <2>3, <3>1
    <3>3. QED BY <2>1, <3>2 DEF ToSet
  <2>5. QED BY <2>1, <2>2, <2>3, <2>4
<1>2. QED BY <1>1, TransferInitInv, TransferTypesStep, ImportingStep, PTL DEF TransferSpec

\* A purge beside clients that only add rows deletes, of the rows there were, those
\* of its source and those of an ID it found there, and no other, whatever rows and
\* sources share an ID and however many rows a scan and a delete take.
THEOREM PurgeExactThm == TransferSpec => []PurgeExact
<1>1. Purging => PurgeExact
  BY DEF Purging, PurgeExact, Marked
<1>2. QED BY <1>1, TransferInitInv, TransferTypesStep, PurgingStep, PTL DEF TransferSpec

=============================================================================
