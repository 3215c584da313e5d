---------------------------- MODULE StorageProofs ----------------------------
(***************************************************************************)
(* Proofs about Storage, for any writers, bounds and thresholds: a table   *)
(* is compacted by one task at a time, and compacted when it should be;    *)
(* the guard deletes no manifest and serves the last good version.  And    *)
(* about Queries, for any rows, requests and writers: what a page leaves   *)
(* out.  The two share no variable.                                        *)
(***************************************************************************)
EXTENDS Storage, Queries, CommonFacts, FiniteSetTheorems, TLAPS

\* The claim is the compaction's: there is one of them exactly while it is taken.
ClaimHeld ==
    /\ claimed => \E c \in Compactors : DOMAIN running = {c}
    /\ ~claimed => DOMAIN running = {}

LEMMA ClaimInit == Init => ClaimHeld
BY DEF Init, ClaimHeld

\* Whatever compaction gives its claim back, none is left.
LEMMA ReleaseEmpties ==
  ASSUME ClaimHeld, NEW c \in DOMAIN running, Release(c)
  PROVE  ClaimHeld'
<1>1. DOMAIN running = {c}
  BY DEF ClaimHeld
<1>2. ~claimed' /\ DOMAIN running' = {}
  BY <1>1 DEF Release
<1>3. QED BY <1>2 DEF ClaimHeld

LEMMA ClaimStep == ClaimHeld /\ [Next]_vars => ClaimHeld'
<1> SUFFICES ASSUME ClaimHeld, [Next]_vars PROVE ClaimHeld'
  OBVIOUS
<1>1. ASSUME UNCHANGED <<claimed, running>> PROVE ClaimHeld'
  BY <1>1 DEF ClaimHeld
<1>2. CASE Start \/ Quarantine \/ GuardEnds \/ OpenFails \/ EnsureTable \/ CleanupSet \/ SkipCompaction
  BY <1>1, <1>2 DEF Start, Quarantine, GuardEnds, OpenFails, EnsureTable, CleanupSet, SkipCompaction
<1>3. CASE StartupCompaction
  BY <1>3 DEF StartupCompaction, ClaimHeld, Compactors
<1>4. ASSUME NEW w \in Writers, WriteStep(w) PROVE ClaimHeld'
  <2>1. CASE Claim(w)
    <3>1. DOMAIN running = {} /\ claimed' /\ DOMAIN running' = DOMAIN running \cup {w}
      BY <2>1 DEF Claim, ClaimHeld
    <3>2. QED BY <3>1 DEF ClaimHeld, Compactors
  <2>2. CASE Write(w) \/ Committed(w) \/ CountFragments(w) \/ AlreadyClaimed(w)
    BY <1>1, <2>2 DEF Write, Committed, CountFragments, AlreadyClaimed
  <2>3. QED BY <1>4, <2>1, <2>2 DEF WriteStep
<1>5. ASSUME NEW c \in Compactors, OptimizeStep(c) PROVE ClaimHeld'
  <2>1. CASE OptimizeCommit(c)
    BY <1>1, <2>1 DEF OptimizeCommit
  <2>2. CASE OptimizeCommitted(c)
    <3>1. claimed' = claimed /\ DOMAIN running' = DOMAIN running
      BY <2>2 DEF OptimizeCommitted
    <3>2. QED BY <3>1 DEF ClaimHeld
  <2>3. CASE OptimizeEnds(c) \/ OptimizeFails(c)
    BY <2>3, ReleaseEmpties DEF OptimizeEnds, OptimizeFails
  <2>4. QED BY <1>5, <2>1, <2>2, <2>3 DEF OptimizeStep
<1>6. CASE Crash
  <2>1. claimed' = FALSE /\ running' = [c \in {} |-> 0]
    BY <1>6 DEF Crash
  <2>2. DOMAIN running' = {}
    BY <2>1
  <2>3. QED BY <2>1, <2>2 DEF ClaimHeld
<1>7. CASE UNCHANGED vars
  BY <1>1, <1>7 DEF vars
<1>8. QED BY <1>2, <1>3, <1>4, <1>5, <1>6, <1>7 DEF Next, Boot

LEMMA HeldIsSingle == ClaimHeld => SingleFlight
<1> SUFFICES ASSUME ClaimHeld PROVE Cardinality(DOMAIN running) <= 1
  BY DEF SingleFlight
<1>1. CASE claimed
  <2>1. PICK c \in Compactors : DOMAIN running = {c}
    BY <1>1 DEF ClaimHeld
  <2>2. Cardinality({c}) = 1
    BY FS_Singleton
  <2>3. QED BY <2>1, <2>2
<1>2. CASE ~claimed
  <2>1. Cardinality({}) = 0
    BY FS_EmptySet
  <2>2. DOMAIN running = {}
    BY <1>2 DEF ClaimHeld
  <2>3. QED BY <2>1, <2>2
<1>3. QED BY <1>1, <1>2

\* "A given table is compacted by at most one task at a time within this process":
\* two writers that find the table over the threshold cannot both start, and a
\* compaction that ends, fails or dies leaves the table to the next one.
THEOREM OneCompaction == Spec => []SingleFlight
BY ClaimInit, ClaimStep, HeldIsSingle, PTL DEF Spec

-----------------------------------------------------------------------------
(* Newest versions.                                                        *)

\* A set of versions has its Max in it.
LEMMA MaxThere ==
    ASSUME NEW n \in Nat, NEW S \in SUBSET (1..n), S # {}
    PROVE  Max(S) \in S /\ \A y \in S : y <= Max(S)
<1> DEFINE T == {n - y : y \in S}
<1>0. \A y \in S : n - y \in Nat
  OBVIOUS
<1>1. T \in SUBSET Nat /\ T # {}
  <2>1. T \subseteq Nat
    BY <1>0
  <2>2. PICK y : y \in S
    OBVIOUS
  <2>3. n - y \in T
    BY <2>2
  <2>4. QED BY <2>1, <2>3
<1>2. PICK m \in T : \A k \in T : m <= k
  BY <1>1, LeastElement
<1>3. PICK x \in S : m = n - x
  BY <1>2
<1>4. ASSUME NEW y \in S PROVE x >= y
  <2>1. n - y \in T
    OBVIOUS
  <2>2. m <= n - y
    BY <1>2, <2>1
  <2>3. x \in Int /\ y \in Int /\ m = n - x
    BY <1>3
  <2>4. QED BY <2>2, <2>3
<1>5. Max(S) \in S /\ \A y \in S : Max(S) >= y
  BY <1>4 DEF Max
<1>6. QED BY <1>5

\* It is the Max if it is there and no other is larger.
LEMMA MaxIs ==
    ASSUME NEW S \in SUBSET Int, NEW x \in S, \A y \in S : y <= x
    PROVE  Max(S) = x
<1>1. \A y \in S : x >= y
  OBVIOUS
<1>2. Max(S) \in S /\ \A y \in S : Max(S) >= y
  BY <1>1 DEF Max
<1>3. Max(S) <= x /\ x <= Max(S) /\ x \in Int /\ Max(S) \in Int
  BY <1>2
<1>4. QED BY <1>3

\* Versions are numbers.
LEMMA VersionsAreNat == Versions \in SUBSET Nat
BY StorageAssumption DEF Versions

-----------------------------------------------------------------------------
(* What a step does to the manifests.                                      *)

Shape == TypeOK /\ DOMAIN manifests # {}

LEMMA LatestFacts ==
    ASSUME Shape
    PROVE  Latest \in DOMAIN manifests /\ Latest \in Nat \ {0} /\ \A v \in DOMAIN manifests : v <= Latest
<1>1. DOMAIN manifests \in SUBSET (1..MaxVersion) /\ DOMAIN manifests # {} /\ MaxVersion \in Nat
  BY StorageAssumption DEF Shape, TypeOK, Versions
<1>2. Latest \in DOMAIN manifests /\ \A v \in DOMAIN manifests : v <= Latest
  BY <1>1, MaxThere DEF Latest
<1>3. QED BY <1>1, <1>2

LEMMA CreatedFacts ==
    ASSUME Shape, NEW who, NEW rows, NEW frags, CreateManifest(who, rows, frags)
    PROVE  /\ Newest.whole /\ committing = Nobody /\ committing' = who
           /\ DOMAIN manifests' = DOMAIN manifests \cup {Latest + 1}
           /\ Latest + 1 \in Versions \ DOMAIN manifests /\ Latest' = Latest + 1
           /\ \A v \in DOMAIN manifests : manifests'[v] = manifests[v]
           /\ Newest' = [whole |-> FALSE, rows |-> rows, frags |-> frags]
<1>1. Latest \in DOMAIN manifests /\ Latest \in Nat \ {0} /\ \A v \in DOMAIN manifests : v <= Latest
  BY LatestFacts
<1>2. DOMAIN manifests \subseteq Versions /\ MaxVersion \in Nat
  BY StorageAssumption DEF Shape, TypeOK
<1>3. DOMAIN manifests' = DOMAIN manifests \cup {Latest + 1}
  BY DEF CreateManifest
<1>4. Latest + 1 \in Versions /\ Latest + 1 \notin DOMAIN manifests
  BY <1>1, <1>2 DEF CreateManifest, Versions
<1>5. \A v \in DOMAIN manifests' : v <= Latest + 1
  BY <1>1, <1>2, <1>3 DEF Versions
<1>6. DOMAIN manifests' \in SUBSET Int /\ Latest + 1 \in DOMAIN manifests'
  BY <1>1, <1>2, <1>3 DEF Versions
<1>7. Latest' = Latest + 1
  BY <1>5, <1>6, MaxIs DEF Latest
<1>8. manifests'[Latest + 1] = [whole |-> FALSE, rows |-> rows, frags |-> frags]
  BY <1>4 DEF CreateManifest
<1>9. QED BY <1>3, <1>4, <1>7, <1>8 DEF CreateManifest, Newest

LEMMA FilledFacts ==
    ASSUME Shape, NEW who, FillManifest(who)
    PROVE  /\ committing = who /\ committing' = Nobody
           /\ DOMAIN manifests' = DOMAIN manifests /\ Latest' = Latest
           /\ \A v \in DOMAIN manifests \ {Latest} : manifests'[v] = manifests[v]
           /\ Newest' = [Newest EXCEPT !.whole = TRUE]
<1>1. DOMAIN manifests' = DOMAIN manifests /\ Latest \in DOMAIN manifests
  BY LatestFacts DEF FillManifest
<1>2. Latest' = Latest
  BY <1>1 DEF Latest
<1>3. QED BY <1>1, <1>2 DEF FillManifest, Newest

\* Some of the others are no longer there.
LEMMA CutFacts ==
    ASSUME Shape, NEW keep \in SUBSET DOMAIN manifests, Latest \in keep,
           manifests' = [v \in keep |-> manifests[v]]
    PROVE  DOMAIN manifests' = keep /\ Latest' = Latest /\ Newest' = Newest
<1>1. \A v \in keep : v <= Latest
  BY LatestFacts
<1>2. DOMAIN manifests' = keep /\ keep \in SUBSET Int
  BY StorageAssumption DEF Shape, TypeOK, Versions
<1>3. Latest' = Latest
  BY <1>1, <1>2, MaxIs DEF Latest
<1>4. QED BY <1>2, <1>3 DEF Newest

\* The guard leaves one at least.
LEMMA QuarantineLeaves ==
    ASSUME Shape, Cardinality(DOMAIN manifests) > 1
    PROVE  DOMAIN manifests \ {Latest} # {}
<1> SUFFICES ASSUME DOMAIN manifests = {Latest} PROVE FALSE
  BY LatestFacts
<1>1. Cardinality({Latest}) = 1
  BY FS_Singleton
<1>2. QED BY <1>1

\* What a crash leaves: the versions above a line are torn.
Good(left, n) ==
    {v \in left : ~(v > Latest - n) /\ (manifests[v].whole \/ committing # Nobody)}
Fresh(left, n) ==
    {v \in left : v > Latest - n /\ (v \in Whole \/ (committing # Nobody /\ v = Latest))}

CrashLeaves(left, n) ==
    /\ left = DOMAIN manifests \/ (committing # Nobody /\ left = DOMAIN manifests \ {Latest})
    /\ manifests' = [v \in left |-> [manifests[v] EXCEPT !.whole = v \in Good(left, n)]]
    /\ torn' = [v \in Versions |-> torn[v] + IF v \in Fresh(left, n) THEN 1 ELSE 0]
    /\ excused' = IF Good(left, n) = {} THEN acked ELSE acked \ manifests[Max(Good(left, n))].rows

LEMMA CrashFacts ==
    ASSUME Crash
    PROVE  \E left \in SUBSET DOMAIN manifests, n \in Nat : CrashLeaves(left, n)
<1>1. PICK left \in {DOMAIN manifests} \cup (IF committing = Nobody THEN {} ELSE {DOMAIN manifests \ {Latest}}),
           n \in 0 .. (MaxTorn + 1) :
          LET tears == {v \in left : v > Latest - n}
              fresh == {v \in tears : v \in Whole \/ (committing # Nobody /\ v = Latest)}
              good  == {v \in left \ tears : manifests[v].whole \/ committing # Nobody}
          IN  /\ manifests' = [v \in left |-> [manifests[v] EXCEPT !.whole = v \in good]]
              /\ torn' = [v \in Versions |-> torn[v] + IF v \in fresh THEN 1 ELSE 0]
              /\ excused' = IF good = {} THEN acked ELSE acked \ manifests[Max(good)].rows
  BY DEF Crash
<1>2. {v \in left \ {v \in left : v > Latest - n} : manifests[v].whole \/ committing # Nobody} = Good(left, n)
  BY DEF Good
<1>3. {v \in {v \in left : v > Latest - n} : v \in Whole \/ (committing # Nobody /\ v = Latest)} = Fresh(left, n)
  BY DEF Fresh
<1>4. left = DOMAIN manifests \/ (committing # Nobody /\ left = DOMAIN manifests \ {Latest})
  OBVIOUS
<1>5. CrashLeaves(left, n)
  BY <1>1, <1>2, <1>3, <1>4 DEF CrashLeaves
<1>6. n \in Nat /\ left \in SUBSET DOMAIN manifests
  BY <1>4
<1>7. QED BY <1>5, <1>6

-----------------------------------------------------------------------------
(* Who works when, and what is whole.                                      *)

UpAndRunning == phase \in {"cleanup", "startup", "compacting", "serving"}
Writing(w) == pc[w] \in {"commit", "count", "claim"}

Flow ==
    /\ \A w \in Writers : Writing(w) => phase = "serving"
    /\ DOMAIN running # {} => phase \in {"compacting", "serving"}
    /\ committing # Nobody => phase \in {"cleanup", "compacting", "serving"}

\* What is being written is the newest, on top of another; all else the server
\* uses is whole.  The torn ones are the newest.
TornOnTop ==
    /\ \A u, v \in DOMAIN manifests : u < v /\ manifests[v].whole => manifests[u].whole
    /\ committing # Nobody => ~Newest.whole /\ Latest - 1 \in DOMAIN manifests
    /\ UpAndRunning => \A v \in DOMAIN manifests :
          manifests[v].whole \/ (v = Latest /\ committing # Nobody)

LEMMA FlowStep ==
    ASSUME Shape, Flow, [Next]_vars PROVE Flow'
<1> USE DEF Flow, Writing
<1>0. pc \in [Writers -> {"idle", "commit", "count", "claim", "done"}]
  BY DEF Shape, TypeOK
<1>1. CASE Start \/ Quarantine \/ GuardEnds \/ OpenFails
  BY <1>1 DEF Start, Quarantine, GuardEnds, OpenFails
<1>2. CASE EnsureTable \/ CleanupSet \/ SkipCompaction
  BY <1>2 DEF EnsureTable, CleanupSet, SkipCompaction, CreateManifest, FillManifest
<1>3. CASE StartupCompaction
  BY <1>3 DEF StartupCompaction
<1>4. ASSUME NEW w \in Writers, WriteStep(w) PROVE Flow'
  <2>1. CASE Write(w)
    BY <1>0, <2>1 DEF Write, CreateManifest
  <2>2. CASE Committed(w)
    BY <1>0, <2>2 DEF Committed, FillManifest
  <2>3. CASE CountFragments(w) \/ AlreadyClaimed(w)
    BY <1>0, <2>3 DEF CountFragments, AlreadyClaimed, Return
  <2>4. CASE Claim(w)
    BY <1>0, <2>4 DEF Claim, Return
  <2>5. QED BY <1>4, <2>1, <2>2, <2>3, <2>4 DEF WriteStep
<1>5. ASSUME NEW c \in Compactors, OptimizeStep(c) PROVE Flow'
  <2>1. CASE OptimizeCommit(c)
    BY <2>1 DEF OptimizeCommit, CreateManifest
  <2>2. CASE OptimizeCommitted(c)
    BY <2>2 DEF OptimizeCommitted, FillManifest
  <2>3. CASE OptimizeEnds(c) \/ OptimizeFails(c)
    <3>1. c \in DOMAIN running /\ Release(c) /\ UNCHANGED <<pc, committing>>
      BY <2>3 DEF OptimizeEnds, OptimizeFails
    <3>2. phase' \in {phase, "serving"} /\ phase \in {"compacting", "serving"}
      BY <3>1 DEF Release
    <3>3. QED BY <3>1, <3>2
  <2>4. QED BY <1>5, <2>1, <2>2, <2>3 DEF OptimizeStep
<1>6. CASE Crash
  <2>1. committing' = Nobody /\ running' = [c \in {} |-> 0] /\ \A w \in Writers : pc'[w] \in {"idle", "done"}
    BY <1>6 DEF Crash
  <2>2. DOMAIN running' = {}
    BY <2>1
  <2>3. QED BY <2>1, <2>2
<1>7. CASE UNCHANGED vars
  BY <1>7 DEF vars
<1>8. QED BY <1>1, <1>2, <1>3, <1>4, <1>5, <1>6, <1>7 DEF Next, Boot

LEMMA CreateKeepsTop ==
    ASSUME Shape, TornOnTop, NEW who, NEW rows, NEW frags, CreateManifest(who, rows, frags), who # Nobody
    PROVE  TornOnTop'
<1>1. /\ Newest.whole /\ committing' = who
      /\ DOMAIN manifests' = DOMAIN manifests \cup {Latest + 1} /\ Latest' = Latest + 1
      /\ \A v \in DOMAIN manifests : manifests'[v] = manifests[v]
      /\ Newest' = [whole |-> FALSE, rows |-> rows, frags |-> frags]
  BY CreatedFacts
<1>2. Latest \in DOMAIN manifests /\ Latest \in Nat /\ \A v \in DOMAIN manifests : v \in Nat /\ v <= Latest
  BY LatestFacts, StorageAssumption DEF Shape, TypeOK, Versions
<1>3. \A v \in DOMAIN manifests : manifests[v].whole
  <2> TAKE v \in DOMAIN manifests
  <2>1. v = Latest \/ v < Latest
    BY <1>2
  <2>2. QED BY <2>1, <1>1, <1>2 DEF TornOnTop, Newest
<1>4. ~Newest'.whole /\ Newest' = manifests'[Latest + 1]
  BY <1>1 DEF Newest
<1>5. ASSUME NEW u \in DOMAIN manifests', NEW v \in DOMAIN manifests', u < v, manifests'[v].whole
      PROVE  manifests'[u].whole
  <2>1. v \in DOMAIN manifests
    BY <1>1, <1>4, <1>5
  <2>2. u \in DOMAIN manifests
    BY <1>1, <1>2, <1>5, <2>1
  <2>3. QED BY <1>1, <1>3, <2>2
<1>6. Latest' - 1 \in DOMAIN manifests'
  BY <1>1, <1>2
<1>7. \A v \in DOMAIN manifests' : manifests'[v].whole \/ v = Latest'
  BY <1>1, <1>3
<1>8. QED BY <1>1, <1>4, <1>5, <1>6, <1>7 DEF TornOnTop

LEMMA FillKeepsTop ==
    ASSUME Shape, Flow, TornOnTop, NEW who, FillManifest(who), who # Nobody
    PROVE  TornOnTop' /\ \A v \in DOMAIN manifests : manifests'[v].whole
<1>1. /\ committing = who /\ committing' = Nobody
      /\ DOMAIN manifests' = DOMAIN manifests /\ Latest' = Latest
      /\ \A v \in DOMAIN manifests \ {Latest} : manifests'[v] = manifests[v]
      /\ Newest' = [Newest EXCEPT !.whole = TRUE]
  BY FilledFacts
<1>2. UpAndRunning
  BY <1>1 DEF Flow, UpAndRunning
<1>3. \A v \in DOMAIN manifests \ {Latest} : manifests'[v].whole
  BY <1>1, <1>2 DEF TornOnTop
<1>4. Latest \in DOMAIN manifests /\ manifests[Latest] \in Manifest
  BY LatestFacts DEF Shape, TypeOK
<1>5. Newest'.whole
  BY <1>1, <1>4 DEF Newest, Manifest
<1>6. \A v \in DOMAIN manifests : manifests'[v].whole
  BY <1>1, <1>3, <1>5 DEF Newest
<1>7. QED BY <1>1, <1>6 DEF TornOnTop

LEMMA CutKeepsTop ==
    ASSUME Shape, TornOnTop, NEW keep \in SUBSET DOMAIN manifests, Latest \in keep,
           committing # Nobody => Latest - 1 \in keep,
           manifests' = [v \in keep |-> manifests[v]],
           committing' = committing, UpAndRunning' => UpAndRunning
    PROVE  TornOnTop'
<1>1. DOMAIN manifests' = keep /\ Latest' = Latest /\ Newest' = Newest
  BY CutFacts
<1>2. \A v \in keep : manifests'[v] = manifests[v]
  OBVIOUS
<1>3. QED BY <1>1, <1>2 DEF TornOnTop

LEMMA TopStep ==
    ASSUME Shape, Flow, TornOnTop, [Next]_vars PROVE TornOnTop'
<1>0. ASSUME UNCHANGED <<manifests, committing>>, UpAndRunning' => UpAndRunning PROVE TornOnTop'
  <2>1. Latest' = Latest /\ Newest' = Newest
    BY <1>0 DEF Latest, Newest
  <2>2. QED BY <1>0, <2>1 DEF TornOnTop
<1>1. CASE Start \/ GuardEnds \/ OpenFails
  BY <1>0, <1>1 DEF Start, GuardEnds, OpenFails, UpAndRunning, store
<1>2. CASE Quarantine
  <2>1. committing' = Nobody /\ ~UpAndRunning'
    BY <1>2 DEF Quarantine, Flow, UpAndRunning
  <2>2. manifests' = [v \in DOMAIN manifests \ {Latest} |-> manifests[v]]
    BY <1>2 DEF Quarantine
  <2>3. \A v \in DOMAIN manifests' : v \in DOMAIN manifests /\ manifests'[v] = manifests[v]
    BY <2>2
  <2>4. QED BY <2>1, <2>3 DEF TornOnTop
<1>3. CASE EnsureTable
  <2>1. CASE CreateManifest(Startup, Newest.rows, Newest.frags)
    BY <2>1, CreateKeepsTop DEF Startup, Nobody
  <2>2. CASE UNCHANGED <<committing, manifests>>
    <3>1. Latest' = Latest /\ Newest' = Newest
      BY <2>2 DEF Latest, Newest
    <3>2. Newest.whole
      BY <1>3 DEF EnsureTable
    <3>3. Latest \in DOMAIN manifests /\ Latest \in Nat /\ \A v \in DOMAIN manifests : v \in Nat /\ v <= Latest
      BY LatestFacts, StorageAssumption DEF Shape, TypeOK, Versions
    <3>4. \A v \in DOMAIN manifests : manifests[v].whole
      <4> TAKE v \in DOMAIN manifests
      <4>1. v = Latest \/ v < Latest
        BY <3>3
      <4>2. QED BY <4>1, <3>2, <3>3 DEF TornOnTop, Newest
    <3>5. QED BY <2>2, <3>1, <3>4 DEF TornOnTop
  <2>3. QED BY <1>3, <2>1, <2>2 DEF EnsureTable
<1>4. CASE CleanupSet
  BY <1>4, FillKeepsTop DEF CleanupSet, Startup, Nobody
<1>5. CASE SkipCompaction \/ StartupCompaction
  BY <1>0, <1>5 DEF SkipCompaction, StartupCompaction, UpAndRunning, store
<1>6. ASSUME NEW w \in Writers, WriteStep(w) PROVE TornOnTop'
  <2>0. w # Nobody
    BY WritersAssumption
  <2>1. CASE Write(w)
    BY <2>0, <2>1, CreateKeepsTop DEF Write
  <2>2. CASE Committed(w)
    BY <2>0, <2>2, FillKeepsTop DEF Committed
  <2>3. CASE CountFragments(w) \/ Claim(w) \/ AlreadyClaimed(w)
    BY <1>0, <2>3 DEF CountFragments, Claim, AlreadyClaimed, store, UpAndRunning
  <2>4. QED BY <1>6, <2>1, <2>2, <2>3 DEF WriteStep
<1>7. ASSUME NEW c \in Compactors, OptimizeStep(c) PROVE TornOnTop'
  <2>0. c # Nobody
    BY WritersAssumption DEF Compactors, Startup, Nobody
  <2>1. CASE OptimizeCommit(c)
    BY <2>0, <2>1, CreateKeepsTop DEF OptimizeCommit
  <2>2. CASE OptimizeCommitted(c)
    BY <2>0, <2>2, FillKeepsTop DEF OptimizeCommitted
  <2>3. ASSUME c \in DOMAIN running, Release(c) PROVE UpAndRunning' => UpAndRunning
    BY <2>3 DEF Flow, UpAndRunning
  <2>4. CASE OptimizeEnds(c)
    <3>1. PICK keep \in SUBSET DOMAIN manifests :
              /\ Latest \in keep /\ (committing # Nobody => Latest - 1 \in keep)
              /\ manifests' = [v \in keep |-> manifests[v]]
      BY <2>4 DEF OptimizeEnds
    <3>2. QED BY <2>3, <2>4, <3>1, CutKeepsTop DEF OptimizeEnds
  <2>5. CASE OptimizeFails(c)
    BY <1>0, <2>3, <2>5 DEF OptimizeFails, store
  <2>6. QED BY <1>7, <2>1, <2>2, <2>4, <2>5 DEF OptimizeStep
<1>8. CASE Crash
  <2>1. PICK left \in SUBSET DOMAIN manifests, n \in Nat : CrashLeaves(left, n)
    BY <1>8, CrashFacts
  <2>2. committing' = Nobody /\ phase' = "down"
    BY <1>8 DEF Crash
  <2>3. DOMAIN manifests' = left /\ \A v \in left : manifests'[v].whole = (v \in Good(left, n))
    BY <2>1 DEF CrashLeaves, Shape, TypeOK, Manifest
  <2>4. ASSUME NEW u \in left, NEW v \in left, u < v, v \in Good(left, n) PROVE u \in Good(left, n)
    <3>1. u \in Nat /\ v \in Nat /\ Latest \in Nat
      BY LatestFacts, VersionsAreNat DEF Shape, TypeOK
    <3>2. ~(v > Latest - n) => ~(u > Latest - n)
      BY <2>4, <3>1
    <3>3. QED BY <2>4, <3>2 DEF Good, TornOnTop
  <2>5. QED BY <2>2, <2>3, <2>4 DEF TornOnTop, UpAndRunning
<1>9. CASE UNCHANGED vars
  BY <1>0, <1>9 DEF vars, store, UpAndRunning
<1>10. QED BY <1>1, <1>2, <1>3, <1>4, <1>5, <1>6, <1>7, <1>8, <1>9 DEF Next, Boot

-----------------------------------------------------------------------------
(* Nothing is deleted.                                                     *)

\* The manifest of this version lies torn in _versions.
TornHere(v) == v \in DOMAIN manifests \ Whole /\ ~(committing # Nobody /\ v = Latest)
Accounted   == \A v \in Versions : torn[v] = aside[v] + (IF TornHere(v) THEN 1 ELSE 0)

LEMMA AccountFrame ==
    ASSUME Accounted, UNCHANGED <<aside, torn>>, \A v \in Versions : TornHere(v)' <=> TornHere(v)
    PROVE  Accounted'
BY DEF Accounted

LEMMA CreateAccounted ==
    ASSUME Shape, Accounted, NEW who, NEW rows, NEW frags, CreateManifest(who, rows, frags), who # Nobody,
           UNCHANGED <<aside, torn>>
    PROVE  Accounted'
<1>1. /\ Newest.whole /\ committing' = who
      /\ DOMAIN manifests' = DOMAIN manifests \cup {Latest + 1} /\ Latest' = Latest + 1
      /\ Latest + 1 \notin DOMAIN manifests
      /\ \A v \in DOMAIN manifests : manifests'[v] = manifests[v]
      /\ committing = Nobody
  BY CreatedFacts
<1>2. \A v \in DOMAIN manifests : (v \in Whole') = (v \in Whole)
  BY <1>1 DEF Whole
<1>3. ASSUME NEW v \in Versions PROVE TornHere(v)' <=> TornHere(v)
  <2>1. CASE v = Latest + 1
    BY <1>1, <2>1 DEF TornHere
  <2>2. CASE v # Latest + 1
    BY <1>1, <1>2, <2>2 DEF TornHere
  <2>3. QED BY <2>1, <2>2
<1>4. QED BY <1>3, AccountFrame

LEMMA FillAccounted ==
    ASSUME Shape, Flow, TornOnTop, Accounted, NEW who, FillManifest(who), who # Nobody,
           UNCHANGED <<aside, torn>>
    PROVE  Accounted'
<1>1. /\ committing = who /\ committing' = Nobody
      /\ DOMAIN manifests' = DOMAIN manifests /\ Latest' = Latest
  BY FilledFacts
<1>2. \A v \in DOMAIN manifests : manifests'[v].whole
  BY FillKeepsTop
<1>3. UpAndRunning
  BY <1>1 DEF Flow, UpAndRunning
<1>4. ASSUME NEW v \in Versions PROVE ~TornHere(v)
  BY <1>1, <1>3 DEF TornHere, TornOnTop, Whole
<1>5. ASSUME NEW v \in Versions PROVE ~TornHere(v)'
  BY <1>1, <1>2 DEF TornHere, Whole
<1>6. QED BY <1>4, <1>5, AccountFrame

LEMMA CutAccounted ==
    ASSUME Shape, TornOnTop, Accounted, NEW keep \in SUBSET DOMAIN manifests, Latest \in keep,
           manifests' = [v \in keep |-> manifests[v]], committing' = committing, UpAndRunning,
           UNCHANGED <<aside, torn>>
    PROVE  Accounted'
<1>1. DOMAIN manifests' = keep /\ Latest' = Latest
  BY CutFacts
<1>2. \A v \in keep : (v \in Whole') = (v \in Whole)
  BY <1>1 DEF Whole
<1>3. ASSUME NEW v \in Versions PROVE ~TornHere(v) /\ ~TornHere(v)'
  BY <1>1, <1>2 DEF TornHere, TornOnTop, Whole
<1>4. QED BY <1>3, AccountFrame

LEMMA QuarantineAccounted ==
    ASSUME Shape, Flow, Accounted, Quarantine PROVE Accounted'
<1>1. /\ Latest \in DOMAIN manifests \ Whole /\ UNCHANGED torn
      /\ aside' = [aside EXCEPT ![Latest] = @ + 1]
      /\ manifests' = [v \in DOMAIN manifests \ {Latest} |-> manifests[v]]
      /\ committing = Nobody /\ committing' = Nobody
  BY LatestFacts DEF Quarantine, SetAside, past, Flow
<1>2. aside \in [Versions -> Nat] /\ torn \in [Versions -> Nat] /\ DOMAIN manifests \subseteq Versions
  BY DEF Shape, TypeOK
<1>3. DOMAIN manifests' = DOMAIN manifests \ {Latest}
  BY <1>1
<1>4. \A v \in DOMAIN manifests' : (v \in Whole') = (v \in Whole)
  BY <1>1, <1>3 DEF Whole
<1>5. ASSUME NEW v \in Versions PROVE torn'[v] = aside'[v] + (IF TornHere(v)' THEN 1 ELSE 0)
  <2>1. torn[v] = aside[v] + (IF TornHere(v) THEN 1 ELSE 0)
    BY DEF Accounted
  <2>2. torn'[v] = torn[v] /\ aside[v] \in Nat /\ aside'[v] = aside[v] + (IF v = Latest THEN 1 ELSE 0)
    BY <1>1, <1>2
  <2>3. TornHere(v)' <=> (v \in DOMAIN manifests' /\ v \notin Whole')
    BY <1>1 DEF TornHere
  <2>4. TornHere(v) <=> (v \in DOMAIN manifests /\ v \notin Whole)
    BY <1>1 DEF TornHere
  <2>5. CASE v = Latest
    BY <1>1, <1>3, <2>1, <2>2, <2>3, <2>4, <2>5
  <2>6. CASE v # Latest
    <3>1. TornHere(v)' <=> TornHere(v)
      BY <1>1, <1>3, <1>4, <2>3, <2>4, <2>6 DEF Whole
    <3>2. QED BY <2>1, <2>2, <2>6, <3>1
  <2>7. QED BY <2>5, <2>6
<1>6. QED BY <1>5 DEF Accounted

LEMMA CrashAccounted ==
    ASSUME Shape, Flow, TornOnTop, Accounted, Crash PROVE Accounted'
<1>1. PICK left \in SUBSET DOMAIN manifests, n \in Nat : CrashLeaves(left, n)
  BY CrashFacts
<1>2. committing' = Nobody /\ aside' = aside
  BY DEF Crash
<1>3. DOMAIN manifests' = left /\ \A v \in left : manifests'[v].whole = (v \in Good(left, n))
  BY <1>1 DEF CrashLeaves, Shape, TypeOK, Manifest
<1>4. aside \in [Versions -> Nat] /\ torn \in [Versions -> Nat] /\ DOMAIN manifests \subseteq Versions
  BY DEF Shape, TypeOK
<1>5. torn' = [v \in Versions |-> torn[v] + IF v \in Fresh(left, n) THEN 1 ELSE 0]
  BY <1>1 DEF CrashLeaves
<1>6. committing # Nobody => \A v \in DOMAIN manifests : manifests[v].whole \/ v = Latest
  BY DEF Flow, TornOnTop, UpAndRunning
<1>7. ASSUME NEW v \in Versions PROVE torn'[v] = aside'[v] + (IF TornHere(v)' THEN 1 ELSE 0)
  <2>1. torn[v] = aside[v] + (IF TornHere(v) THEN 1 ELSE 0)
    BY DEF Accounted
  <2>2. torn'[v] = torn[v] + (IF v \in Fresh(left, n) THEN 1 ELSE 0) /\ torn[v] \in Nat /\ aside[v] \in Nat
    BY <1>4, <1>5
  <2>3. TornHere(v)' <=> (v \in left /\ v \notin Good(left, n))
    BY <1>2, <1>3 DEF TornHere, Whole
  <2>4. ~(TornHere(v) /\ v \in Fresh(left, n))
    BY DEF TornHere, Fresh
  <2>5. TornHere(v)' <=> (TornHere(v) \/ v \in Fresh(left, n))
    <3>1. CASE v \notin left
      <4>1. ~TornHere(v)
        BY <1>1, <3>1 DEF CrashLeaves, TornHere
      <4>2. QED BY <2>3, <3>1, <4>1 DEF Fresh
    <3>2. CASE v \in left /\ v \in Fresh(left, n)
      BY <2>3, <3>2 DEF Fresh, Good
    <3>3. CASE v \in left /\ v \notin Fresh(left, n)
      BY <1>1, <1>6, <2>3, <3>3 DEF Fresh, Good, TornHere, Whole
    <3>4. QED BY <3>1, <3>2, <3>3
  <2>6. QED BY <1>2, <2>1, <2>2, <2>4, <2>5
<1>8. QED BY <1>7 DEF Accounted

LEMMA AccountStep ==
    ASSUME Shape, Flow, TornOnTop, Accounted, [Next]_vars PROVE Accounted'
<1>0. ASSUME UNCHANGED <<manifests, committing, aside, torn>> PROVE Accounted'
  <2>1. \A v \in Versions : TornHere(v)' <=> TornHere(v)
    BY <1>0 DEF TornHere, Whole, Latest
  <2>2. QED BY <1>0, <2>1, AccountFrame
<1>1. CASE Start \/ GuardEnds \/ OpenFails \/ SkipCompaction \/ StartupCompaction
  BY <1>0, <1>1 DEF Start, GuardEnds, OpenFails, SkipCompaction, StartupCompaction, store, past
<1>2. CASE Quarantine
  BY <1>2, QuarantineAccounted
<1>3. CASE EnsureTable
  <2>1. CASE CreateManifest(Startup, Newest.rows, Newest.frags)
    BY <1>3, <2>1, CreateAccounted DEF EnsureTable, Startup, Nobody, past
  <2>2. CASE UNCHANGED <<committing, manifests>>
    BY <1>0, <1>3, <2>2 DEF EnsureTable, past
  <2>3. QED BY <1>3, <2>1, <2>2 DEF EnsureTable
<1>4. CASE CleanupSet
  BY <1>4, FillAccounted DEF CleanupSet, Startup, Nobody, past
<1>5. ASSUME NEW w \in Writers, WriteStep(w) PROVE Accounted'
  <2>0. w # Nobody
    BY WritersAssumption
  <2>1. CASE Write(w)
    BY <2>0, <2>1, CreateAccounted DEF Write, past
  <2>2. CASE Committed(w)
    BY <2>0, <2>2, FillAccounted DEF Committed, past
  <2>3. CASE CountFragments(w) \/ Claim(w) \/ AlreadyClaimed(w)
    BY <1>0, <2>3 DEF CountFragments, Claim, AlreadyClaimed, store
  <2>4. QED BY <1>5, <2>1, <2>2, <2>3 DEF WriteStep
<1>6. ASSUME NEW c \in Compactors, OptimizeStep(c) PROVE Accounted'
  <2>0. c # Nobody
    BY WritersAssumption DEF Compactors, Startup, Nobody
  <2>1. CASE OptimizeCommit(c)
    BY <2>0, <2>1, CreateAccounted DEF OptimizeCommit, past
  <2>2. CASE OptimizeCommitted(c)
    BY <2>0, <2>2, FillAccounted DEF OptimizeCommitted, past
  <2>3. CASE OptimizeEnds(c)
    <3>1. PICK keep \in SUBSET DOMAIN manifests :
              /\ Latest \in keep /\ manifests' = [v \in keep |-> manifests[v]]
      BY <2>3 DEF OptimizeEnds
    <3>2. UpAndRunning /\ UNCHANGED <<committing, aside, torn>>
      BY <2>3 DEF OptimizeEnds, Flow, UpAndRunning, past
    <3>3. QED BY <3>1, <3>2, CutAccounted
  <2>4. CASE OptimizeFails(c)
    BY <1>0, <2>4 DEF OptimizeFails, store, past
  <2>5. QED BY <1>6, <2>1, <2>2, <2>3, <2>4 DEF OptimizeStep
<1>7. CASE Crash
  BY <1>7, CrashAccounted
<1>8. CASE UNCHANGED vars
  BY <1>0, <1>8 DEF vars, store, past
<1>9. QED BY <1>1, <1>2, <1>3, <1>4, <1>5, <1>6, <1>7, <1>8 DEF Next, Boot

-----------------------------------------------------------------------------
(* Who is writing the newest manifest.                                     *)

Compacts(c) == c \in DOMAIN running /\ running[c] > 0
Authors ==
    /\ \A w \in Writers : pc[w] = "commit" => committing = w
    /\ \A w \in Writers : committing = w => pc[w] = "commit" \/ Compacts(w)
    /\ \A w \in Writers : w \in DOMAIN running => pc[w] = "done"
    /\ committing = Startup => phase = "cleanup" \/ Compacts(Startup)

LEMMA AuthorsWrite ==
    ASSUME Shape, Flow, Authors, NEW w \in Writers, WriteStep(w) PROVE Authors'
<1> USE WritersAssumption DEF Authors, Compacts
<1>0. pc \in [Writers -> {"idle", "commit", "count", "claim", "done"}]
  BY DEF Shape, TypeOK
<1>1. CASE Write(w)
  BY <1>0, <1>1 DEF Write, CreateManifest
<1>2. CASE Committed(w)
  <2>1. /\ pc[w] = "commit" /\ pc' = [pc EXCEPT ![w] = "count"] /\ committing = w /\ committing' = Nobody
        /\ UNCHANGED <<running, phase>> /\ Nobody # Startup
    BY <1>2 DEF Committed, FillManifest, Nobody, Startup
  <2>2. w \notin DOMAIN running
    BY <2>1
  <2>3. \A x \in Writers : pc'[x] # "commit" /\ (x # w => pc'[x] = pc[x])
    BY <1>0, <2>1
  <2>4. QED BY <2>1, <2>2, <2>3
<1>3. CASE CountFragments(w)
  BY <1>0, <1>3 DEF CountFragments, Return
<1>4. CASE AlreadyClaimed(w)
  BY <1>0, <1>4 DEF AlreadyClaimed, Return
<1>5. CASE Claim(w)
  <2>1. pc[w] = "claim" /\ pc' = [pc EXCEPT ![w] = "done"] /\ UNCHANGED <<committing, phase>>
    BY <1>5 DEF Claim, Return
  <2>2. /\ DOMAIN running' = DOMAIN running \cup {w}
        /\ \A c \in DOMAIN running : c # w => running'[c] = running[c]
    BY <1>5 DEF Claim
  <2>3. committing # w
    BY <2>1
  <2>4. QED BY <1>0, <2>1, <2>2, <2>3
<1>6. QED BY <1>1, <1>2, <1>3, <1>4, <1>5 DEF WriteStep

LEMMA AuthorsOptimize ==
    ASSUME Shape, Flow, Authors, NEW c \in Compactors, OptimizeStep(c) PROVE Authors'
<1> USE WritersAssumption DEF Authors, Compacts
<1>0. c # Nobody /\ (c \in Writers \/ c = Startup)
  BY DEF Compactors, Startup, Nobody
<1>1. CASE OptimizeCommit(c)
  BY <1>0, <1>1 DEF OptimizeCommit, CreateManifest
<1>2. CASE OptimizeCommitted(c)
  <2>1. committing = c /\ committing' = Nobody /\ c \in DOMAIN running /\ DOMAIN running' = DOMAIN running
        /\ UNCHANGED pc
    BY <1>2 DEF OptimizeCommitted, FillManifest
  <2>2. \A w \in Writers : pc[w] # "commit"
    BY <1>0, <2>1
  <2>3. Nobody # Startup
    BY DEF Nobody, Startup
  <2>4. QED BY <1>0, <2>1, <2>2, <2>3
<1>3. CASE OptimizeEnds(c) \/ OptimizeFails(c)
  <2>1. c \in DOMAIN running /\ Release(c) /\ UNCHANGED <<pc, committing>>
    BY <1>3 DEF OptimizeEnds, OptimizeFails
  <2>2. /\ DOMAIN running' = DOMAIN running \ {c}
        /\ \A d \in DOMAIN running' : running'[d] = running[d]
        /\ phase' = IF c = Startup THEN "serving" ELSE phase
    BY <2>1 DEF Release
  <2>3. committing # c
    BY <1>0, <1>3, <2>1 DEF OptimizeEnds, OptimizeFails, Flow
  <2>4. QED BY <2>1, <2>2, <2>3
<1>4. QED BY <1>1, <1>2, <1>3 DEF OptimizeStep

LEMMA AuthorsStep ==
    ASSUME Shape, Flow, Authors, [Next]_vars PROVE Authors'
<1> USE WritersAssumption DEF Authors, Compacts
<1>0. Startup # Nobody
  BY DEF Startup, Nobody
<1>1. CASE Start \/ Quarantine \/ GuardEnds \/ OpenFails \/ SkipCompaction
  BY <1>1 DEF Start, Quarantine, GuardEnds, OpenFails, SkipCompaction, Flow
<1>2. CASE EnsureTable
  BY <1>0, <1>2 DEF EnsureTable, CreateManifest, Flow
<1>3. CASE CleanupSet
  BY <1>0, <1>3 DEF CleanupSet, FillManifest
<1>4. CASE StartupCompaction
  <2>1. committing = Nobody /\ UNCHANGED <<committing, pc>> /\ running' = [c \in {Startup} |-> Newest.frags]
    BY <1>4 DEF StartupCompaction, Flow
  <2>2. DOMAIN running' = {Startup}
    BY <2>1
  <2>3. QED BY <1>0, <2>1, <2>2
<1>5. CASE Crash
  <2>1. committing' = Nobody /\ running' = [c \in {} |-> 0] /\ \A w \in Writers : pc'[w] \in {"idle", "done"}
    BY <1>5 DEF Crash
  <2>2. DOMAIN running' = {}
    BY <2>1
  <2>3. QED BY <1>0, <2>1, <2>2
<1>6. CASE UNCHANGED vars
  BY <1>6 DEF vars
<1>7. QED BY <1>1, <1>2, <1>3, <1>4, <1>5, <1>6, AuthorsWrite, AuthorsOptimize DEF Next, Boot

-----------------------------------------------------------------------------
(* What is acknowledged is in the last good version.                       *)

Landed == (acked \ excused) \cup {w \in Writers : pc[w] \in {"count", "claim"}}
LastGood(v) == v \in Whole /\ \A u \in Whole : u <= v
Kept ==
    /\ \A v \in DOMAIN manifests : LastGood(v) => Landed \subseteq manifests[v].rows
    /\ committing # Nobody => Landed \subseteq Newest.rows
    /\ \A w \in Writers : pc[w] = "commit" => w \in Newest.rows

LEMMA KeptFrame ==
    ASSUME Kept, UNCHANGED <<manifests, committing>>, Landed' \subseteq Landed,
           \A w \in Writers : pc'[w] = "commit" => pc[w] = "commit"
    PROVE  Kept'
<1>1. Newest' = Newest /\ Whole' = Whole
  BY DEF Newest, Latest, Whole
<1>2. \A v : LastGood(v)' <=> LastGood(v)
  BY <1>1 DEF LastGood
<1>3. QED BY <1>1, <1>2 DEF Kept

\* The newest is the last good one if it is whole.
LEMMA NewestIsGood ==
    ASSUME Shape, Kept, Newest.whole PROVE Landed \subseteq Newest.rows
<1>1. LastGood(Latest) /\ Latest \in DOMAIN manifests
  BY LatestFacts DEF LastGood, Whole, Newest
<1>2. QED BY <1>1 DEF Kept, Newest

\* What is written next has all that the newest has.
LEMMA CreateKeeps ==
    ASSUME Shape, Authors, Kept, NEW who, NEW rows, NEW frags, CreateManifest(who, rows, frags),
           who # Nobody, Newest.rows \subseteq rows, Landed' \subseteq Landed,
           \A w \in Writers : pc'[w] = "commit" => w \in rows \/ pc[w] = "commit"
    PROVE  Kept'
<1>1. /\ Newest.whole /\ committing = Nobody /\ DOMAIN manifests' = DOMAIN manifests \cup {Latest + 1}
      /\ Latest + 1 \notin DOMAIN manifests /\ Latest' = Latest + 1
      /\ \A v \in DOMAIN manifests : manifests'[v] = manifests[v]
      /\ Newest' = [whole |-> FALSE, rows |-> rows, frags |-> frags]
  BY CreatedFacts
<1>2. ~manifests'[Latest + 1].whole
  BY <1>1 DEF Newest
<1>3. Whole' = Whole
  BY <1>1, <1>2 DEF Whole
<1>4. \A v : LastGood(v)' <=> LastGood(v)
  BY <1>3 DEF LastGood
<1>5. \A v \in DOMAIN manifests' : LastGood(v)' => Landed' \subseteq manifests'[v].rows
  BY <1>1, <1>3, <1>4 DEF Kept, LastGood, Whole
<1>6. Landed \subseteq Newest.rows
  BY <1>1, NewestIsGood
<1>7. \A w \in Writers : pc[w] # "commit"
  BY <1>1, WritersAssumption DEF Authors
<1>8. Landed' \subseteq Newest'.rows /\ \A w \in Writers : pc'[w] = "commit" => w \in Newest'.rows
  BY <1>1, <1>6, <1>7
<1>9. QED BY <1>5, <1>8 DEF Kept

\* Once written it is the last good one.
LEMMA FillKeeps ==
    ASSUME Shape, Flow, TornOnTop, Kept, NEW who, FillManifest(who), who # Nobody,
           Landed' \subseteq Newest.rows, \A w \in Writers : pc'[w] # "commit"
    PROVE  Kept'
<1>1. /\ committing' = Nobody /\ DOMAIN manifests' = DOMAIN manifests /\ Latest' = Latest
      /\ Newest' = [Newest EXCEPT !.whole = TRUE]
  BY FilledFacts
<1>2. \A v \in DOMAIN manifests : manifests'[v].whole
  BY FillKeepsTop
<1>3. Latest \in DOMAIN manifests /\ \A v \in DOMAIN manifests : v \in Nat /\ v <= Latest
  BY LatestFacts, VersionsAreNat DEF Shape, TypeOK
<1>4. ASSUME NEW v \in DOMAIN manifests, LastGood(v)' PROVE v = Latest
  <2>1. Latest <= v
    BY <1>1, <1>2, <1>3, <1>4 DEF LastGood, Whole
  <2>2. QED BY <1>3, <2>1
<1>5. Newest' = manifests'[Latest] /\ Newest'.rows = Newest.rows
  BY <1>1, LatestFacts DEF Newest, Shape, TypeOK, Manifest
<1>6. QED BY <1>1, <1>4, <1>5 DEF Kept

LEMMA CutKeeps ==
    ASSUME Shape, TornOnTop, Kept, UpAndRunning, NEW keep \in SUBSET DOMAIN manifests, Latest \in keep,
           committing # Nobody => Latest - 1 \in keep,
           manifests' = [v \in keep |-> manifests[v]], UNCHANGED <<committing, acked, excused, pc>>
    PROVE  Kept'
<1>1. DOMAIN manifests' = keep /\ Latest' = Latest /\ Newest' = Newest
  BY CutFacts
<1>2. Landed' = Landed
  BY DEF Landed
<1>3. \A v \in DOMAIN manifests : v \in Nat /\ v <= Latest /\ Latest \in Nat
  BY LatestFacts, VersionsAreNat DEF Shape, TypeOK
<1>4. Whole' = Whole \cap keep
  BY <1>1 DEF Whole
<1>5. ASSUME NEW v \in keep, LastGood(v)' PROVE LastGood(v)
  <2>1. v \in Whole /\ \A u \in Whole \cap keep : u <= v
    BY <1>4, <1>5 DEF LastGood
  <2>2. CASE committing = Nobody
    <3>1. Latest \in Whole
      BY <2>2 DEF TornOnTop, Whole
    <3>2. QED BY <1>3, <2>1, <3>1 DEF LastGood, Whole
  <2>3. CASE committing # Nobody
    <3>1. Latest - 1 \in Whole /\ Latest \notin Whole
      BY <1>3, <2>3 DEF TornOnTop, Whole, Newest
    <3>2. Latest - 1 <= v
      BY <2>1, <2>3, <3>1
    <3>3. ASSUME NEW u \in Whole PROVE u <= v
      <4>1. u \in Nat /\ u <= Latest /\ u # Latest /\ Latest \in Nat /\ v \in Nat
        BY <1>3, <3>1 DEF Whole
      <4>2. QED BY <3>2, <4>1
    <3>4. QED BY <2>1, <3>3 DEF LastGood
  <2>4. QED BY <2>2, <2>3
<1>6. QED BY <1>1, <1>2, <1>5 DEF Kept

LEMMA CrashKeeps ==
    ASSUME Shape, Crash PROVE Kept'
<1>1. PICK left \in SUBSET DOMAIN manifests, n \in Nat : CrashLeaves(left, n)
  BY CrashFacts
<1>2. committing' = Nobody /\ acked' = acked /\ \A w \in Writers : pc'[w] \in {"idle", "done"}
  BY DEF Crash
<1>3. DOMAIN manifests' = left /\ \A v \in left : manifests'[v].rows = manifests[v].rows
      /\ manifests'[v].whole = (v \in Good(left, n))
  BY <1>1 DEF CrashLeaves, Shape, TypeOK, Manifest
<1>4. Whole' = Good(left, n)
  BY <1>3 DEF Whole, Good
<1>5. Landed' = acked \ excused'
  BY <1>2 DEF Landed
<1>6. ASSUME NEW v \in left, LastGood(v)' PROVE Landed' \subseteq manifests'[v].rows
  <2>1. v \in Good(left, n) /\ \A u \in Good(left, n) : u <= v
    BY <1>4, <1>6 DEF LastGood
  <2>2. Good(left, n) \subseteq Versions /\ Versions \subseteq Int
    BY VersionsAreNat DEF Good, Shape, TypeOK
  <2>3. Max(Good(left, n)) = v
    BY <2>1, <2>2, MaxIs
  <2>4. excused' = acked \ manifests[v].rows
    BY <1>1, <2>1, <2>3 DEF CrashLeaves
  <2>5. QED BY <1>3, <1>5, <2>4
<1>7. QED BY <1>2, <1>3, <1>6 DEF Kept

LEMMA KeptWrite ==
    ASSUME Shape, Flow, TornOnTop, Authors, Authors', Kept, NEW w \in Writers, WriteStep(w) PROVE Kept'
<1>0. w # Nobody /\ pc \in [Writers -> {"idle", "commit", "count", "claim", "done"}]
  BY WritersAssumption DEF Shape, TypeOK
<1>1. CASE Write(w)
  <2>1. CreateManifest(w, Newest.rows \cup {w}, Newest.frags + 1)
    BY <1>1 DEF Write
  <2>2. Landed' \subseteq Landed
    BY <1>0, <1>1 DEF Write, Landed, past
  <2>3. \A x \in Writers : pc'[x] = "commit" => x \in Newest.rows \cup {w} \/ pc[x] = "commit"
    BY <1>0, <1>1 DEF Write
  <2>4. QED BY <1>0, <2>1, <2>2, <2>3, CreateKeeps
<1>2. CASE Committed(w)
  <2>1. FillManifest(w) /\ pc[w] = "commit" /\ pc' = [pc EXCEPT ![w] = "count"] /\ UNCHANGED <<acked, excused>>
    BY <1>2 DEF Committed, past
  <2>2. committing = w /\ committing' = Nobody
    BY <2>1 DEF FillManifest
  <2>3. Landed' \subseteq Landed \cup {w}
    BY <1>0, <2>1 DEF Landed
  <2>4. Landed' \subseteq Newest.rows
    BY <1>0, <2>1, <2>2, <2>3 DEF Kept
  <2>5. \A x \in Writers : pc'[x] # "commit"
    BY <2>2, WritersAssumption DEF Authors
  <2>6. QED BY <1>0, <2>1, <2>4, <2>5, FillKeeps
<1>3. CASE CountFragments(w) \/ Claim(w) \/ AlreadyClaimed(w)
  <2>1. UNCHANGED <<manifests, committing, excused>> /\ pc[w] \in {"count", "claim"}
    BY <1>3 DEF CountFragments, Claim, AlreadyClaimed, store
  <2>2. \/ pc' = [pc EXCEPT ![w] = "claim"] /\ acked' = acked
        \/ pc' = [pc EXCEPT ![w] = "done"] /\ acked' = acked \cup {w}
    BY <1>3 DEF CountFragments, Claim, AlreadyClaimed, Return
  <2>3. Landed' \subseteq Landed
    BY <1>0, <2>1, <2>2 DEF Landed
  <2>4. \A x \in Writers : pc'[x] = "commit" => pc[x] = "commit"
    BY <1>0, <2>2
  <2>5. QED BY <2>1, <2>3, <2>4, KeptFrame
<1>4. QED BY <1>1, <1>2, <1>3 DEF WriteStep

LEMMA KeptOptimize ==
    ASSUME Shape, Flow, TornOnTop, Authors, Authors', Kept, NEW c \in Compactors, OptimizeStep(c) PROVE Kept'
<1>0. c # Nobody
  BY WritersAssumption DEF Compactors, Startup, Nobody
<1>1. ASSUME UNCHANGED <<acked, excused, pc>> PROVE Landed' = Landed
  BY <1>1 DEF Landed
<1>2. CASE OptimizeCommit(c)
  <2>1. CreateManifest(c, Newest.rows, (Newest.frags - running[c]) + 1) /\ UNCHANGED <<acked, excused, pc>>
    BY <1>2 DEF OptimizeCommit, past
  <2>2. QED BY <1>0, <1>1, <2>1, CreateKeeps
<1>3. CASE OptimizeCommitted(c)
  <2>1. FillManifest(c) /\ UNCHANGED <<acked, excused, pc>>
    BY <1>3 DEF OptimizeCommitted, past
  <2>2. committing = c /\ committing' = Nobody
    BY <2>1 DEF FillManifest
  <2>3. Landed' \subseteq Newest.rows
    BY <1>0, <1>1, <2>1, <2>2 DEF Kept
  <2>4. \A x \in Writers : pc'[x] # "commit"
    BY <2>2, WritersAssumption DEF Authors
  <2>5. QED BY <1>0, <2>1, <2>3, <2>4, FillKeeps
<1>4. CASE OptimizeEnds(c)
  <2>1. PICK keep \in SUBSET DOMAIN manifests :
            /\ Latest \in keep /\ (committing # Nobody => Latest - 1 \in keep)
            /\ manifests' = [v \in keep |-> manifests[v]]
    BY <1>4 DEF OptimizeEnds
  <2>2. UpAndRunning /\ UNCHANGED <<committing, acked, excused, pc>>
    BY <1>4 DEF OptimizeEnds, Flow, UpAndRunning, past
  <2>3. QED BY <2>1, <2>2, CutKeeps
<1>5. CASE OptimizeFails(c)
  <2>1. UNCHANGED <<manifests, committing, acked, excused, pc>>
    BY <1>5 DEF OptimizeFails, store, past
  <2>2. QED BY <1>1, <2>1, KeptFrame
<1>6. QED BY <1>2, <1>3, <1>4, <1>5 DEF OptimizeStep

LEMMA KeptStep ==
    ASSUME Shape, Flow, TornOnTop, Authors, Authors', Kept, [Next]_vars PROVE Kept'
<1>0. ASSUME UNCHANGED <<acked, excused, pc>> PROVE Landed' = Landed
  BY <1>0 DEF Landed
<1>1. CASE Start \/ GuardEnds \/ OpenFails \/ SkipCompaction \/ StartupCompaction
  <2>1. UNCHANGED <<manifests, committing, acked, excused, pc>>
    BY <1>1 DEF Start, GuardEnds, OpenFails, SkipCompaction, StartupCompaction, store, past
  <2>2. QED BY <1>0, <2>1, KeptFrame
<1>2. CASE Quarantine
  <2>1. /\ Latest \in DOMAIN manifests \ Whole /\ committing' = Nobody /\ UNCHANGED <<acked, excused, pc>>
        /\ manifests' = [v \in DOMAIN manifests \ {Latest} |-> manifests[v]]
    BY <1>2, LatestFacts DEF Quarantine, Flow, past
  <2>2. Whole' = Whole
    BY <2>1 DEF Whole
  <2>3. \A v : LastGood(v)' <=> LastGood(v)
    BY <2>2 DEF LastGood
  <2>4. \A w \in Writers : pc'[w] # "commit"
    BY <2>1, WritersAssumption DEF Authors
  <2>5. \A v \in DOMAIN manifests' : v \in DOMAIN manifests /\ manifests'[v] = manifests[v]
    BY <2>1
  <2>6. QED BY <1>0, <2>1, <2>3, <2>4, <2>5 DEF Kept
<1>3. CASE EnsureTable
  <2>1. UNCHANGED <<acked, excused, pc>> /\ Startup # Nobody
    BY <1>3 DEF EnsureTable, past, Startup, Nobody
  <2>2. CASE CreateManifest(Startup, Newest.rows, Newest.frags)
    BY <1>0, <2>1, <2>2, CreateKeeps
  <2>3. CASE UNCHANGED <<committing, manifests>>
    BY <1>0, <2>1, <2>3, KeptFrame
  <2>4. QED BY <1>3, <2>2, <2>3 DEF EnsureTable
<1>4. CASE CleanupSet
  <2>1. FillManifest(Startup) /\ UNCHANGED <<acked, excused, pc>> /\ Startup # Nobody
    BY <1>4 DEF CleanupSet, past, Startup, Nobody
  <2>2. committing = Startup /\ committing' = Nobody
    BY <2>1 DEF FillManifest
  <2>3. Landed' \subseteq Newest.rows
    BY <1>0, <2>1, <2>2 DEF Kept
  <2>4. \A x \in Writers : pc'[x] # "commit"
    BY <2>2, WritersAssumption DEF Authors
  <2>5. QED BY <2>1, <2>3, <2>4, FillKeeps
<1>5. CASE Crash
  BY <1>5, CrashKeeps
<1>6. CASE UNCHANGED vars
  <2>1. UNCHANGED <<manifests, committing, acked, excused, pc>>
    BY <1>6 DEF vars, store, past
  <2>2. QED BY <1>0, <2>1, KeptFrame
<1>7. QED BY <1>1, <1>2, <1>3, <1>4, <1>5, <1>6, KeptWrite, KeptOptimize DEF Next, Boot

-----------------------------------------------------------------------------
(* Types, and what a compaction has read is in the table until it commits. *)

Merges == \A c \in DOMAIN running : running[c] > 0 /\ committing # c => running[c] <= Newest.frags

LEMMA NewestType == ASSUME Shape PROVE Newest \in Manifest
BY LatestFacts DEF Shape, TypeOK, Newest

LEMMA ManifestsStep ==
    ASSUME Shape, Flow, TornOnTop, Merges, [Next]_vars
    PROVE  /\ DOMAIN manifests' \subseteq Versions /\ DOMAIN manifests' # {}
           /\ \A v \in DOMAIN manifests' : manifests'[v] \in Manifest
           /\ aside' \in [Versions -> Nat] /\ torn' \in [Versions -> Nat]
<1> DEFINE Typed == /\ DOMAIN manifests \subseteq Versions /\ DOMAIN manifests # {}
                    /\ \A v \in DOMAIN manifests : manifests[v] \in Manifest
           Bags  == aside \in [Versions -> Nat] /\ torn \in [Versions -> Nat]
<1>1. Typed /\ Bags
  BY DEF Shape, TypeOK
<1> SUFFICES Typed' /\ Bags'
  OBVIOUS
<1>2. Newest.rows \in SUBSET Writers /\ Newest.frags \in Nat
  BY NewestType DEF Manifest
<1>3. ASSUME NEW who, NEW rows \in SUBSET Writers, NEW frags \in Nat, CreateManifest(who, rows, frags) PROVE Typed'
  <2>1. /\ DOMAIN manifests' = DOMAIN manifests \cup {Latest + 1} /\ Latest + 1 \in Versions
        /\ \A v \in DOMAIN manifests : manifests'[v] = manifests[v]
        /\ Latest' = Latest + 1 /\ Newest' = [whole |-> FALSE, rows |-> rows, frags |-> frags]
    BY <1>3, CreatedFacts
  <2>2. manifests'[Latest + 1] \in Manifest
    BY <2>1 DEF Newest, Manifest
  <2>3. QED BY <1>1, <2>1, <2>2
<1>4. ASSUME NEW who, FillManifest(who) PROVE Typed'
  <2>1. /\ DOMAIN manifests' = DOMAIN manifests
        /\ \A v \in DOMAIN manifests \ {Latest} : manifests'[v] = manifests[v]
        /\ Latest' = Latest /\ Newest' = [Newest EXCEPT !.whole = TRUE]
    BY <1>4, FilledFacts
  <2>2. Newest' \in Manifest
    BY <2>1, NewestType DEF Manifest
  <2>3. QED BY <1>1, <2>1, <2>2 DEF Newest
<1>5. CASE Start \/ GuardEnds \/ OpenFails \/ SkipCompaction \/ StartupCompaction
  BY <1>1, <1>5 DEF Start, GuardEnds, OpenFails, SkipCompaction, StartupCompaction, store, past
<1>6. CASE Quarantine
  <2>1. Cardinality(DOMAIN manifests) > 1 /\ manifests' = [v \in DOMAIN manifests \ {Latest} |-> manifests[v]]
    BY <1>6 DEF Quarantine
  <2>2. Typed'
    BY <1>1, <2>1, QuarantineLeaves
  <2>3. aside' = [aside EXCEPT ![Latest] = @ + 1] /\ UNCHANGED torn
    BY <1>6 DEF Quarantine, SetAside, past
  <2>4. Latest \in Versions
    BY <1>1, LatestFacts
  <2>5. Bags'
    BY <1>1, <2>3, <2>4
  <2>6. QED BY <2>2, <2>5
<1>7. CASE EnsureTable
  <2>1. Bags'
    BY <1>1, <1>7 DEF EnsureTable, past
  <2>2. QED BY <1>1, <1>2, <1>3, <1>7, <2>1 DEF EnsureTable
<1>8. CASE CleanupSet
  BY <1>1, <1>4, <1>8 DEF CleanupSet, past
<1>9. ASSUME NEW w \in Writers, WriteStep(w) PROVE Typed' /\ Bags'
  <2>1. CASE Write(w)
    <3>1. CreateManifest(w, Newest.rows \cup {w}, Newest.frags + 1) /\ UNCHANGED <<aside, torn>>
      BY <2>1 DEF Write, past
    <3>2. Newest.rows \cup {w} \in SUBSET Writers /\ Newest.frags + 1 \in Nat
      BY <1>2
    <3>3. QED BY <1>1, <1>3, <3>1, <3>2
  <2>2. CASE Committed(w)
    BY <1>1, <1>4, <2>2 DEF Committed, past
  <2>3. CASE CountFragments(w) \/ Claim(w) \/ AlreadyClaimed(w)
    BY <1>1, <2>3 DEF CountFragments, Claim, AlreadyClaimed, store
  <2>4. QED BY <1>9, <2>1, <2>2, <2>3 DEF WriteStep
<1>10. ASSUME NEW c \in Compactors, OptimizeStep(c) PROVE Typed' /\ Bags'
  <2>1. CASE OptimizeCommit(c)
    <3>1. CreateManifest(c, Newest.rows, (Newest.frags - running[c]) + 1) /\ UNCHANGED <<aside, torn>>
          /\ c \in DOMAIN running /\ running[c] > 0
      BY <2>1 DEF OptimizeCommit, past
    <3>2. committing # c
      BY <3>1, WritersAssumption DEF CreateManifest, Compactors, Startup, Nobody
    <3>3. running[c] <= Newest.frags /\ running[c] \in Nat
      BY <3>1, <3>2 DEF Merges, Shape, TypeOK
    <3>4. (Newest.frags - running[c]) + 1 \in Nat
      BY <1>2, <3>3
    <3>5. QED BY <1>1, <1>2, <1>3, <3>1, <3>4
  <2>2. CASE OptimizeCommitted(c)
    BY <1>1, <1>4, <2>2 DEF OptimizeCommitted, past
  <2>3. CASE OptimizeEnds(c)
    <3>1. PICK keep \in SUBSET DOMAIN manifests :
              Latest \in keep /\ manifests' = [v \in keep |-> manifests[v]]
      BY <2>3 DEF OptimizeEnds
    <3>2. Bags'
      BY <1>1, <2>3 DEF OptimizeEnds, past
    <3>3. QED BY <1>1, <3>1, <3>2
  <2>4. CASE OptimizeFails(c)
    BY <1>1, <2>4 DEF OptimizeFails, store, past
  <2>5. QED BY <1>10, <2>1, <2>2, <2>3, <2>4 DEF OptimizeStep
<1>11. CASE Crash
  <2>1. PICK left \in SUBSET DOMAIN manifests, n \in Nat : CrashLeaves(left, n)
    BY <1>11, CrashFacts
  <2>2. DOMAIN manifests' = left
    BY <2>1 DEF CrashLeaves
  <2>3. ASSUME NEW v \in left PROVE manifests'[v] \in Manifest
    <3>1. manifests'[v] = [manifests[v] EXCEPT !.whole = v \in Good(left, n)]
      BY <2>1 DEF CrashLeaves
    <3>2. (v \in Good(left, n)) \in BOOLEAN
      OBVIOUS
    <3>3. QED BY <1>1, <3>1, <3>2 DEF Manifest
  <2>4. left # {}
    <3>1. CASE left = DOMAIN manifests
      BY <1>1, <3>1
    <3>2. CASE committing # Nobody /\ left = DOMAIN manifests \ {Latest}
      BY <3>2, LatestFacts DEF TornOnTop
    <3>3. QED BY <2>1, <3>1, <3>2 DEF CrashLeaves
  <2>5. torn' = [v \in Versions |-> torn[v] + IF v \in Fresh(left, n) THEN 1 ELSE 0] /\ aside' = aside
    BY <1>11, <2>1 DEF CrashLeaves, Crash
  <2>6. Bags'
    BY <1>1, <2>5
  <2>7. QED BY <1>1, <2>2, <2>3, <2>4, <2>6
<1>12. CASE UNCHANGED vars
  BY <1>1, <1>12 DEF vars, store, past
<1>13. QED BY <1>5, <1>6, <1>7, <1>8, <1>9, <1>10, <1>11, <1>12 DEF Next, Boot

LEMMA RunningStep ==
    ASSUME Shape, [Next]_vars
    PROVE  DOMAIN running' \subseteq Compactors /\ \A c \in DOMAIN running' : running'[c] \in Nat
<1>0. DOMAIN running \subseteq Compactors /\ (\A c \in DOMAIN running : running[c] \in Nat) /\ Newest.frags \in Nat
  BY NewestType DEF Shape, TypeOK, Manifest
<1>1. CASE StartupCompaction
  BY <1>0, <1>1 DEF StartupCompaction, Compactors
<1>2. ASSUME NEW w \in Writers, WriteStep(w), ~UNCHANGED running
      PROVE  DOMAIN running' \subseteq Compactors /\ \A c \in DOMAIN running' : running'[c] \in Nat
  <2>1. Claim(w)
    BY <1>2 DEF WriteStep, Write, Committed, CountFragments, AlreadyClaimed
  <2>2. QED BY <1>0, <2>1 DEF Claim, Compactors
<1>3. ASSUME NEW c \in Compactors, OptimizeStep(c), ~UNCHANGED running
      PROVE  DOMAIN running' \subseteq Compactors /\ \A d \in DOMAIN running' : running'[d] \in Nat
  <2>1. CASE OptimizeCommitted(c)
    BY <1>0, <2>1 DEF OptimizeCommitted
  <2>2. CASE OptimizeEnds(c) \/ OptimizeFails(c)
    BY <1>0, <2>2 DEF OptimizeEnds, OptimizeFails, Release
  <2>3. QED BY <1>3, <2>1, <2>2 DEF OptimizeStep, OptimizeCommit
<1>4. CASE Crash
  BY <1>4 DEF Crash
<1>5. CASE Start \/ Quarantine \/ GuardEnds \/ OpenFails \/ EnsureTable \/ CleanupSet \/ SkipCompaction \/ UNCHANGED vars
  BY <1>0, <1>5 DEF Start, Quarantine, GuardEnds, OpenFails, EnsureTable, CleanupSet, SkipCompaction, vars
<1>6. QED BY <1>0, <1>1, <1>2, <1>3, <1>4, <1>5 DEF Next, Boot

LEMMA OthersStep ==
    ASSUME Shape, [Next]_vars
    PROVE  /\ phase' \in {"down", "guard", "open", "cleanup", "startup", "compacting", "serving"}
           /\ moved' \in 0..MaxQuarantine /\ committing' \in Compactors \cup {Nobody}
           /\ pc' \in [Writers -> {"idle", "commit", "count", "claim", "done"}]
           /\ claimed' \in BOOLEAN /\ missed' \in BOOLEAN
           /\ acked' \subseteq Writers /\ excused' \subseteq Writers
           /\ crashes' \in 0..MaxCrashes
<1>0. TypeOK /\ MaxQuarantine \in Nat /\ MaxCrashes \in Nat
  BY StorageAssumption DEF Shape
<1>1. CASE Start \/ GuardEnds \/ OpenFails \/ SkipCompaction
  BY <1>0, <1>1 DEF TypeOK, Start, GuardEnds, OpenFails, SkipCompaction, past
<1>2. CASE EnsureTable \/ CleanupSet
  BY <1>0, <1>2 DEF TypeOK, EnsureTable, CleanupSet, past, CreateManifest, FillManifest, Compactors
<1>3. CASE StartupCompaction
  BY <1>0, <1>3 DEF TypeOK, StartupCompaction, past
<1>13. CASE Quarantine
  <2>1. moved \in 0..MaxQuarantine /\ moved < MaxQuarantine /\ moved' = moved + 1
    BY <1>0, <1>13 DEF TypeOK, Quarantine
  <2>2. moved' \in 0..MaxQuarantine
    BY <1>0, <2>1
  <2>3. QED BY <1>0, <1>13, <2>2 DEF TypeOK, Quarantine, past
<1>4. ASSUME NEW w \in Writers, Write(w) \/ Committed(w)
      PROVE  /\ UNCHANGED <<phase, moved, claimed, missed, past, crashes>>
             /\ committing' \in Compactors \cup {Nobody}
             /\ pc' \in [Writers -> {"idle", "commit", "count", "claim", "done"}]
  BY <1>0, <1>4 DEF TypeOK, Write, Committed, CreateManifest, FillManifest, Compactors
<1>5. ASSUME NEW w \in Writers, CountFragments(w) \/ Claim(w) \/ AlreadyClaimed(w)
      PROVE  /\ UNCHANGED <<phase, moved, committing, excused, crashes>>
             /\ claimed' \in BOOLEAN /\ missed' \in BOOLEAN /\ acked' \subseteq Writers
             /\ pc' \in [Writers -> {"idle", "commit", "count", "claim", "done"}]
  BY <1>0, <1>5 DEF TypeOK, CountFragments, Claim, AlreadyClaimed, Return
<1>6. ASSUME NEW c \in Compactors, OptimizeCommit(c) \/ OptimizeCommitted(c)
      PROVE  /\ UNCHANGED <<phase, moved, pc, claimed, missed, past, crashes>>
             /\ committing' \in Compactors \cup {Nobody}
  BY <1>6 DEF OptimizeCommit, OptimizeCommitted, CreateManifest, FillManifest
<1>7. ASSUME NEW c \in Compactors, OptimizeEnds(c) \/ OptimizeFails(c)
      PROVE  /\ UNCHANGED <<moved, committing, pc, past, crashes>>
             /\ claimed' = FALSE /\ missed' \in {missed, TRUE} /\ phase' \in {phase, "serving"}
  BY <1>7 DEF OptimizeEnds, OptimizeFails, Release
<1>8. CASE Crash
  <2>1. PICK left \in SUBSET DOMAIN manifests, n \in Nat : CrashLeaves(left, n)
    BY <1>8, CrashFacts
  <2>2. excused' \subseteq acked
    BY <2>1 DEF CrashLeaves
  <2>3. crashes \in 0..MaxCrashes /\ crashes < MaxCrashes /\ crashes' = crashes + 1 /\ moved' = 0
    BY <1>0, <1>8 DEF TypeOK, Crash
  <2>4. crashes' \in 0..MaxCrashes /\ moved' \in 0..MaxQuarantine
    BY <1>0, <2>3
  <2>5. pc' \in [Writers -> {"idle", "commit", "count", "claim", "done"}]
    BY <1>8 DEF Crash
  <2>6. phase' = "down" /\ committing' = Nobody /\ claimed' = FALSE /\ missed' = TRUE /\ acked' = acked
    BY <1>8 DEF Crash
  <2>7. QED BY <1>0, <2>2, <2>4, <2>5, <2>6 DEF TypeOK
<1>9. CASE UNCHANGED vars
  BY <1>0, <1>9 DEF TypeOK, vars, past
<1>10. CASE \E w \in Writers : WriteStep(w)
  BY <1>0, <1>4, <1>5, <1>10 DEF TypeOK, WriteStep, past
<1>11. CASE \E c \in Compactors : OptimizeStep(c)
  BY <1>0, <1>6, <1>7, <1>11 DEF TypeOK, OptimizeStep, past
<1>12. QED BY <1>1, <1>2, <1>3, <1>8, <1>9, <1>10, <1>11, <1>13 DEF Next, Boot

LEMMA ShapeStep ==
    ASSUME Shape, Flow, TornOnTop, Merges, [Next]_vars PROVE Shape'
BY ManifestsStep, RunningStep, OthersStep DEF Shape, TypeOK

LEMMA NewestSame == ASSUME UNCHANGED manifests PROVE Newest' = Newest
BY DEF Newest, Latest

\* Fragments of the newest manifest: filling it does not change them, nor does
\* dropping old versions.
LEMMA FilledFrags ==
    ASSUME Shape, NEW who, FillManifest(who)
    PROVE  Newest'.frags = Newest.frags /\ committing = who /\ committing' = Nobody
<1>1. Newest' = [Newest EXCEPT !.whole = TRUE] /\ committing = who /\ committing' = Nobody
  BY FilledFacts
<1>2. QED BY <1>1, NewestType DEF Manifest

LEMMA PrunedFrags ==
    ASSUME Shape, NEW c, OptimizeEnds(c) PROVE Newest'.frags = Newest.frags
<1>1. PICK keep \in SUBSET DOMAIN manifests :
          Latest \in keep /\ manifests' = [v \in keep |-> manifests[v]]
  BY DEF OptimizeEnds
<1>2. Newest' = Newest
  BY <1>1, CutFacts
<1>3. QED BY <1>2

LEMMA MergesWrite ==
    ASSUME Shape, Authors, ClaimHeld, Merges, NEW w \in Writers, WriteStep(w) PROVE Merges'
<1>0. Newest.frags \in Nat /\ (\A c \in DOMAIN running : running[c] \in Nat /\ c \in Compactors)
  BY NewestType DEF Shape, TypeOK, Manifest
<1>1. CASE Write(w)
  <2>1. CreateManifest(w, Newest.rows \cup {w}, Newest.frags + 1) /\ running' = running
    BY <1>1 DEF Write
  <2>2. Newest'.frags = Newest.frags + 1 /\ committing = Nobody
    BY <2>1, CreatedFacts
  <2>3. \A c \in DOMAIN running : committing # c
    BY <1>0, <2>2, WritersAssumption DEF Compactors, Startup, Nobody
  <2>4. ASSUME NEW c \in DOMAIN running, running[c] > 0 PROVE running[c] <= Newest.frags + 1
    BY <1>0, <2>3, <2>4 DEF Merges
  <2>5. QED BY <2>1, <2>2, <2>4 DEF Merges
<1>2. CASE Committed(w)
  <2>1. Newest'.frags = Newest.frags /\ committing = w /\ running' = running /\ pc[w] = "commit"
    BY <1>2, FilledFrags DEF Committed
  <2>2. w \notin DOMAIN running
    BY <2>1 DEF Authors
  <2>3. QED BY <2>1, <2>2 DEF Merges
<1>3. CASE CountFragments(w) \/ AlreadyClaimed(w)
  BY <1>3, NewestSame DEF CountFragments, AlreadyClaimed, store, Merges
<1>4. CASE Claim(w)
  <2>1. /\ Newest' = Newest /\ committing' = committing
        /\ running' = [c \in DOMAIN running \cup {w} |-> IF c = w THEN Newest.frags ELSE running[c]]
    BY <1>4, NewestSame DEF Claim, store
  <2>2. QED BY <1>0, <2>1 DEF Merges
<1>5. QED BY <1>1, <1>2, <1>3, <1>4 DEF WriteStep

LEMMA MergesStep ==
    ASSUME Shape, Flow, Authors, ClaimHeld, Merges, [Next]_vars PROVE Merges'
<1>0. Newest.frags \in Nat
  BY NewestType DEF Manifest
<1>1. ASSUME DOMAIN running' = {} PROVE Merges'
  BY <1>1 DEF Merges
<1>2. CASE Start \/ Quarantine \/ GuardEnds \/ OpenFails \/ EnsureTable \/ CleanupSet
  <2>1. running' = running /\ DOMAIN running = {}
    BY <1>2 DEF Start, Quarantine, GuardEnds, OpenFails, EnsureTable, CleanupSet, Flow
  <2>2. QED BY <1>1, <2>1
<1>3. CASE SkipCompaction \/ UNCHANGED vars
  BY <1>3, NewestSame DEF SkipCompaction, vars, store, Merges
<1>4. CASE StartupCompaction
  <2>1. Newest' = Newest /\ running' = [c \in {Startup} |-> Newest.frags]
    BY <1>4, NewestSame DEF StartupCompaction, store
  <2>2. QED BY <1>0, <2>1 DEF Merges
<1>5. ASSUME NEW c \in Compactors, OptimizeStep(c) PROVE Merges'
  <2>1. c \in DOMAIN running
    BY <1>5 DEF OptimizeStep, OptimizeCommit, OptimizeCommitted, OptimizeEnds, OptimizeFails
  <2>2. DOMAIN running = {c}
    BY <2>1 DEF ClaimHeld
  <2>3. CASE OptimizeCommit(c)
    BY <2>2, <2>3 DEF OptimizeCommit, CreateManifest, Merges
  <2>4. CASE OptimizeCommitted(c)
    <3>1. DOMAIN running' = {c} /\ running'[c] = 0
      BY <2>2, <2>4 DEF OptimizeCommitted
    <3>2. QED BY <3>1 DEF Merges
  <2>5. CASE OptimizeEnds(c) \/ OptimizeFails(c)
    <3>1. running' = [d \in DOMAIN running \ {c} |-> running[d]]
      BY <2>5 DEF OptimizeEnds, OptimizeFails, Release
    <3>2. DOMAIN running' = {}
      BY <2>2, <3>1
    <3>3. QED BY <1>1, <3>2
  <2>6. QED BY <1>5, <2>3, <2>4, <2>5 DEF OptimizeStep
<1>6. CASE Crash
  <2>1. running' = [c \in {} |-> 0]
    BY <1>6 DEF Crash
  <2>2. DOMAIN running' = {}
    BY <2>1
  <2>3. QED BY <1>1, <2>2
<1>7. QED BY <1>2, <1>3, <1>4, <1>5, <1>6, MergesWrite DEF Next, Boot

-----------------------------------------------------------------------------
(* The fragments are few, or somebody is about to see to them.             *)

Few(n)   == n < Threshold \/ n <= 1
Handled  == \E c \in DOMAIN running : running[c] > 0 /\ committing # c /\ Newest.frags <= running[c]
NoneLeft ==
    /\ phase \in {"down", "guard", "open", "cleanup", "startup"} => missed
    /\ Threshold > 0 /\ ~missed /\ (\A w \in Writers : ~Writing(w)) => Few(Newest.frags) \/ Handled

LEMMA NoneLeftWrite ==
    ASSUME Shape, Flow, Authors, NoneLeft, NEW w \in Writers, WriteStep(w) PROVE NoneLeft'
<1>0. /\ Newest.frags \in Nat /\ Threshold \in Nat
      /\ pc \in [Writers -> {"idle", "commit", "count", "claim", "done"}]
  BY NewestType, StorageAssumption DEF Shape, TypeOK, Manifest
<1>1. ASSUME Writing(w) \/ phase = "serving", phase' = phase PROVE phase' = "serving"
  BY <1>1 DEF Flow
<1>2. CASE Write(w)
  <2>1. phase' = "serving" /\ pc'[w] = "commit"
    BY <1>0, <1>2 DEF Write
  <2>2. Writing(w)'
    BY <2>1 DEF Writing
  <2>3. QED BY <2>1, <2>2 DEF NoneLeft
<1>3. CASE Committed(w)
  <2>1. phase' = "serving" /\ pc'[w] = "count"
    BY <1>0, <1>1, <1>3 DEF Committed, Writing
  <2>2. Writing(w)'
    BY <2>1 DEF Writing
  <2>3. QED BY <2>1, <2>2 DEF NoneLeft
<1>4. CASE CountFragments(w)
  <2>1. phase' = "serving" /\ Newest' = Newest
    BY <1>1, <1>4, NewestSame DEF CountFragments, Writing, store
  <2>2. CASE pc' = [pc EXCEPT ![w] = "claim"]
    <3>1. Writing(w)'
      BY <1>0, <2>2 DEF Writing
    <3>2. QED BY <2>1, <3>1 DEF NoneLeft
  <2>3. CASE Threshold = 0 \/ Newest.frags < Threshold
    BY <1>0, <2>1, <2>3 DEF NoneLeft, Few
  <2>4. CASE missed' = TRUE
    BY <2>1, <2>4 DEF NoneLeft
  <2>5. QED BY <1>4, <2>2, <2>3, <2>4 DEF CountFragments
<1>5. CASE Claim(w)
  <2>1. phase' = "serving" /\ Newest' = Newest /\ committing' = committing /\ pc[w] = "claim"
    BY <1>1, <1>5, NewestSame DEF Claim, Writing, store
  <2>2. running' = [c \in DOMAIN running \cup {w} |-> IF c = w THEN Newest.frags ELSE running[c]]
    BY <1>5 DEF Claim
  <2>3. w \in DOMAIN running' /\ running'[w] = Newest.frags
    BY <2>2
  <2>4. committing # w
    BY <2>1 DEF Authors, Compacts
  <2>5. CASE Newest.frags > 0
    <3>1. Handled'
      BY <1>0, <2>1, <2>3, <2>4, <2>5 DEF Handled
    <3>2. QED BY <2>1, <3>1 DEF NoneLeft
  <2>6. CASE ~(Newest.frags > 0)
    <3>1. Few(Newest'.frags)
      BY <1>0, <2>1, <2>6 DEF Few
    <3>2. QED BY <2>1, <3>1 DEF NoneLeft, Few
  <2>7. QED BY <2>5, <2>6
<1>6. CASE AlreadyClaimed(w)
  BY <1>6 DEF AlreadyClaimed, NoneLeft
<1>7. QED BY <1>2, <1>3, <1>4, <1>5, <1>6 DEF WriteStep

LEMMA NoneLeftOptimize ==
    ASSUME Shape, Flow, Authors, ClaimHeld, NoneLeft, NEW c \in Compactors, OptimizeStep(c) PROVE NoneLeft'
<1>0. /\ Newest.frags \in Nat /\ Threshold \in Nat /\ \A d \in DOMAIN running : running[d] \in Nat
  BY NewestType, StorageAssumption DEF Shape, TypeOK, Manifest
<1>1. c \in DOMAIN running
  BY DEF OptimizeStep, OptimizeCommit, OptimizeCommitted, OptimizeEnds, OptimizeFails
<1>2. DOMAIN running = {c} /\ phase \in {"compacting", "serving"}
  BY <1>1 DEF ClaimHeld, Flow
<1>3. CASE OptimizeCommit(c)
  <2>1. /\ CreateManifest(c, Newest.rows, (Newest.frags - running[c]) + 1) /\ running[c] > 0
        /\ UNCHANGED <<phase, pc, missed>>
    BY <1>3 DEF OptimizeCommit
  <2>2. Newest'.frags = (Newest.frags - running[c]) + 1
    BY <2>1, CreatedFacts
  <2>3. ASSUME Few(Newest.frags) \/ Newest.frags <= running[c] PROVE Few(Newest'.frags)
    BY <1>0, <1>1, <2>1, <2>2, <2>3 DEF Few
  <2>4. Handled => Newest.frags <= running[c]
    BY <1>2 DEF Handled
  <2>5. QED BY <1>2, <2>1, <2>3, <2>4 DEF NoneLeft, Writing, Few
<1>4. ASSUME Newest'.frags = Newest.frags, Handled => Newest.frags <= 1,
             phase' \in {"compacting", "serving"}, UNCHANGED <<pc, missed>> PROVE NoneLeft'
  <2>1. NoneLeft => NoneLeft'
    BY <1>0, <1>4 DEF NoneLeft, Few, Writing
  <2>2. QED BY <2>1
<1>5. CASE OptimizeCommitted(c)
  <2>1. Newest'.frags = Newest.frags /\ committing = c /\ UNCHANGED <<phase, pc, missed>>
    BY <1>5, FilledFrags DEF OptimizeCommitted
  <2>2. ~Handled
    BY <1>2, <2>1 DEF Handled
  <2>3. QED BY <1>2, <1>4, <2>1, <2>2
<1>6. CASE OptimizeEnds(c)
  <2>1. Newest'.frags = Newest.frags /\ running[c] = 0 /\ Release(c) /\ UNCHANGED <<pc, missed>>
    BY <1>6, PrunedFrags DEF OptimizeEnds
  <2>2. ~Handled /\ phase' \in {"compacting", "serving"}
    BY <1>2, <2>1 DEF Handled, Release
  <2>3. QED BY <1>4, <2>1, <2>2
<1>7. CASE OptimizeFails(c)
  BY <1>7 DEF OptimizeFails, NoneLeft
<1>8. QED BY <1>3, <1>5, <1>6, <1>7 DEF OptimizeStep

LEMMA NoneLeftStep ==
    ASSUME Shape, Flow, Authors, ClaimHeld, NoneLeft, [Next]_vars PROVE NoneLeft'
<1>1. CASE Start \/ Quarantine \/ GuardEnds \/ OpenFails \/ EnsureTable \/ CleanupSet \/ SkipCompaction
  BY <1>1 DEF NoneLeft, Start, Quarantine, GuardEnds, OpenFails, EnsureTable, CleanupSet, SkipCompaction
<1>2. CASE StartupCompaction
  <2>1. Newest' = Newest /\ committing' = Nobody /\ running' = [c \in {Startup} |-> Newest.frags]
        /\ Newest.frags > 0 /\ phase' = "compacting"
    BY <1>2, NewestSame DEF StartupCompaction, store, Flow
  <2>2. Startup \in DOMAIN running' /\ running'[Startup] = Newest.frags /\ Startup # Nobody
    BY <2>1 DEF Startup, Nobody
  <2>3. Newest.frags \in Nat
    BY NewestType DEF Manifest
  <2>4. Handled'
    BY <2>1, <2>2, <2>3 DEF Handled
  <2>5. QED BY <2>1, <2>4 DEF NoneLeft
<1>3. CASE Crash
  BY <1>3 DEF Crash, NoneLeft
<1>4. CASE UNCHANGED vars
  BY <1>4, NewestSame DEF vars, store, NoneLeft, Handled, Writing
<1>5. QED BY <1>1, <1>2, <1>3, <1>4, NoneLeftWrite, NoneLeftOptimize DEF Next, Boot

-----------------------------------------------------------------------------
(* The theorems.                                                           *)

StorageInv ==
    /\ Shape /\ Flow /\ TornOnTop /\ Accounted
    /\ ClaimHeld /\ Authors /\ Kept /\ Merges /\ NoneLeft

LEMMA StorageInit == Init => StorageInv
<1> SUFFICES ASSUME Init PROVE StorageInv
  OBVIOUS
<1>0. {Threshold, MaxQuarantine, MaxTorn, MaxVersion, MaxCrashes} \subseteq Nat /\ MaxVersion > 0
  BY StorageAssumption
<1>1. DOMAIN manifests = {1} /\ manifests[1] = [whole |-> TRUE, rows |-> {}, frags |-> 0]
  BY DEF Init
<1>2. Latest = 1
  BY <1>1, MaxIs DEF Latest
<1>3. Newest = [whole |-> TRUE, rows |-> {}, frags |-> 0] /\ Whole = {1}
  BY <1>1, <1>2 DEF Newest, Whole
<1>4. DOMAIN running = {} /\ committing = Nobody /\ phase = "down" /\ missed = TRUE
      /\ (\A w \in Writers : pc[w] = "idle") /\ acked = {} /\ claimed = FALSE
  BY DEF Init
<1>5. Shape
  <2>1. DOMAIN manifests \subseteq Versions /\ manifests[1] \in Manifest /\ DOMAIN manifests # {}
    BY <1>0, <1>1 DEF Versions, Manifest
  <2>2. moved \in 0..MaxQuarantine /\ crashes \in 0..MaxCrashes
    BY <1>0 DEF Init
  <2>3. aside \in [Versions -> Nat] /\ torn \in [Versions -> Nat]
        /\ pc \in [Writers -> {"idle", "commit", "count", "claim", "done"}]
    BY DEF Init
  <2>4. excused = {}
    BY DEF Init
  <2>5. QED BY <1>1, <1>4, <2>1, <2>2, <2>3, <2>4 DEF Shape, TypeOK
<1>6. Flow /\ ClaimHeld /\ Authors
  BY <1>4, WritersAssumption DEF Flow, ClaimHeld, Authors, Writing, Startup, Nobody
<1>7. TornOnTop
  BY <1>1, <1>3, <1>4 DEF TornOnTop
<1>8. Accounted
  <2>1. \A v \in Versions : ~TornHere(v) /\ torn[v] = 0 /\ aside[v] = 0
    BY <1>1, <1>3 DEF TornHere, Init
  <2>2. QED BY <2>1 DEF Accounted
<1>9. Kept /\ Merges /\ NoneLeft
  <2>1. Landed = {}
    BY <1>4 DEF Landed
  <2>2. QED BY <1>4, <2>1 DEF Kept, Merges, NoneLeft
<1>10. QED BY <1>5, <1>6, <1>7, <1>8, <1>9 DEF StorageInv

LEMMA StorageStep == StorageInv /\ [Next]_vars => StorageInv'
<1> SUFFICES ASSUME StorageInv, [Next]_vars PROVE StorageInv'
  OBVIOUS
<1> USE DEF StorageInv
<1>1. Shape' /\ Flow' /\ TornOnTop' /\ Accounted'
  BY ShapeStep, FlowStep, TopStep, AccountStep
<1>2. ClaimHeld' /\ Authors'
  BY ClaimStep, AuthorsStep
<1>3. Kept'
  BY <1>2, KeptStep
<1>4. Merges' /\ NoneLeft'
  BY MergesStep, NoneLeftStep
<1>5. QED BY <1>1, <1>2, <1>3, <1>4

LEMMA InvIsNothingDeleted == StorageInv => NothingDeleted
<1> SUFFICES ASSUME StorageInv PROVE NothingDeleted
  OBVIOUS
<1>1. manifests # <<>>
  <2>1. DOMAIN << >> = {}
    OBVIOUS
  <2>2. QED BY <2>1 DEF StorageInv, Shape
<1>2. \A v \in Versions :
          torn[v] = aside[v] + (IF v \in DOMAIN manifests \ Whole /\ ~(committing # Nobody /\ v = Latest)
                                THEN 1 ELSE 0)
  BY DEF StorageInv, Accounted, TornHere
<1>3. QED BY <1>1, <1>2 DEF NothingDeleted

LEMMA InvIsLastGood == StorageInv => OpensLastGood
<1> SUFFICES ASSUME StorageInv, phase \in {"startup", "compacting", "serving"}
             PROVE  acked \ excused \subseteq Newest.rows
  BY DEF OpensLastGood
<1>1. CASE committing = Nobody
  <2>1. Newest.whole
    BY <1>1, LatestFacts DEF StorageInv, TornOnTop, UpAndRunning, Newest
  <2>2. QED BY <2>1, NewestIsGood DEF StorageInv, Landed
<1>2. CASE committing # Nobody
  BY <1>2 DEF StorageInv, Kept, Landed
<1>3. QED BY <1>1, <1>2

LEMMA InvIsCompacted == StorageInv => CompactedWhenQuiet
<1> SUFFICES ASSUME StorageInv, Quiet, Threshold > 0, Newest.frags >= Threshold, ~missed
             PROVE  Newest.frags = 1
  BY DEF CompactedWhenQuiet
<1>1. DOMAIN running = {} /\ \A w \in Writers : ~Writing(w)
  BY DEF StorageInv, ClaimHeld, Quiet, Writing
<1>2. Few(Newest.frags)
  BY <1>1 DEF StorageInv, NoneLeft, Handled
<1>3. Newest.frags \in Nat /\ Threshold \in Nat
  BY NewestType, StorageAssumption DEF StorageInv, Manifest
<1>4. QED BY <1>2, <1>3 DEF Few

\* Every manifest that was ever torn is in _versions or in quarantine, each under
\* a name of its own, and _versions is never empty: for any number of versions
\* and of crashes, and a guard that may stop anywhere.
THEOREM NothingDeletedThm == Spec => []NothingDeleted
BY StorageInit, StorageStep, InvIsNothingDeleted, PTL DEF Spec

\* The table that is served has every acknowledged write that a whole manifest
\* still had: whatever was torn, pruned or moved aside.
THEOREM OpensLastGoodThm == Spec => []OpensLastGood
BY StorageInit, StorageStep, InvIsLastGood, PTL DEF Spec

\* When the store is quiet the table is below the threshold or has one fragment,
\* unless a write met a compaction in flight or one failed, or none has run since
\* the start.
THEOREM CompactedWhenQuietThm == Spec => []CompactedWhenQuiet
BY StorageInit, StorageStep, InvIsCompacted, PTL DEF Spec

\* The store's state keeps its types: fragment counts never go below zero, though
\* a compaction subtracts what it has read.
THEOREM StorageTypes == Spec => []TypeOK
<1>1. StorageInv => TypeOK
  BY DEF StorageInv, Shape
<1>2. QED BY <1>1, StorageInit, StorageStep, PTL DEF Spec

-----------------------------------------------------------------------------
(* Queries: the rows a page leaves out.                                    *)

\* Some of the rows: all of them, or as many as asked for.
LEMMA SomeFacts ==
    ASSUME NEW rows, IsFiniteSet(rows), NEW n \in Nat, NEW s \in Some(rows, n)
    PROVE  s \subseteq rows /\ (s = rows \/ (Cardinality(s) = n /\ n < Cardinality(rows)))
<1>1. s \in SUBSET rows /\ Cardinality(s) = Least(n, Cardinality(rows))
  BY DEF Some, kSubset
<1>2. Cardinality(rows) \in Nat
  BY FS_CardinalityType
<1>3. CASE n < Cardinality(rows)
  BY <1>1, <1>3 DEF Least
<1>4. CASE ~(n < Cardinality(rows))
  <2>1. Cardinality(rows) = Cardinality(s)
    BY <1>1, <1>2, <1>4 DEF Least
  <2>2. rows = s
    BY <1>1, <2>1, FS_Subset
  <2>3. QED BY <2>2
<1>5. QED BY <1>3, <1>4

Searches == {"search", "search_memories", "search_standards", "search_code"}

\* A row that was there all along, that the filters ask for, and whose table was
\* read.
Seen(r) ==
    /\ r \in steady /\ r.table \in question.tables \ (waiting \cup failed)
    /\ Filter(question, r.table) \subseteq r.tags

\* It was read, or there are better ones, or more than can be shown.
Better(r)  == {s \in pool : s.score >= r.score}
Covered(r) ==
    \/ r \in pool
    \/ capped
    \/ question.tool \in Searches /\ Cardinality(Better(r)) > question.limit
    \/ question.tool = "get_memories" /\ Cardinality(pool) > question.limit

QueryShape ==
    /\ question \in Questions /\ there \subseteq Items /\ steady \subseteq there
    /\ pool \subseteq Items
    /\ qpc = "idle" => steady = {}
    /\ qpc = "pick" => waiting = {}

\* A list reads its one table and no other.
OneTable ==
    qpc # "idle" =>
        /\ question.tool = "get_memories" => question.tables \ waiting \subseteq {"memories"}
        /\ question.tool \in {"list_todos", "tasks"} => question.tables \ waiting \subseteq {"todos"}

AllCovered == \A r \in steady : Seen(r) => Covered(r)

QueryInv == QueryShape /\ OneTable /\ AllCovered /\ PageIsTop

LEMMA QuestionFacts ==
    ASSUME QueryShape
    PROVE  /\ question.limit \in Nat \ {0} /\ FetchLimit(question) = question.limit + 1
           /\ question.tables \subseteq Collections
           /\ ScanCap \in Nat
BY QuestionsAssumption, CapsAssumption DEF QueryShape, FetchLimit

LEMMA FiniteRows == ASSUME NEW rows \in SUBSET Items PROVE IsFiniteSet(rows) /\ Cardinality(rows) \in Nat
BY ItemsAssumption, FS_Subset, FS_CardinalityType

\* More rows cover no less.
LEMMA MoreCover ==
    ASSUME QueryShape, NEW r \in Items, Covered(r), UNCHANGED question, pool \subseteq pool', pool' \subseteq Items,
           capped => capped'
    PROVE  Covered(r)'
<1>1. question.limit \in Nat
  BY QuestionFacts
<1>2. IsFiniteSet(pool') /\ Cardinality(pool') \in Nat /\ Cardinality(pool) \in Nat
      /\ Cardinality(pool) <= Cardinality(pool')
  BY FiniteRows, FS_Subset DEF QueryShape
<1>3. Better(r)' \subseteq Items /\ Better(r) \subseteq Better(r)'
  BY DEF Better
<1>4. IsFiniteSet(Better(r)') /\ Cardinality(Better(r)') \in Nat /\ Cardinality(Better(r)) \in Nat
  BY <1>3, FiniteRows
<1>5. Cardinality(Better(r)) <= Cardinality(Better(r)')
  BY <1>3, <1>4, FS_Subset
<1>6. Cardinality(Better(r)) > question.limit => Cardinality(Better(r)') > question'.limit
  BY <1>1, <1>4, <1>5
<1>7. Cardinality(pool) > question.limit => Cardinality(pool') > question'.limit
  BY <1>1, <1>2
<1>8. QED BY <1>6, <1>7 DEF Covered

\* A row of the table being read that was there all along matches.
LEMMA ReadSees ==
    ASSUME QueryShape, NEW t, Reading(t), UNCHANGED failed, NEW r \in steady', Seen(r)'
    PROVE  r \in Items /\ IF r.table = t THEN r \in Matching(t) ELSE Seen(r)
BY DEF QueryShape, Reading, Seen, Matching

LEMMA MatchingFacts == ASSUME QueryShape, NEW t PROVE Matching(t) \in SUBSET Items
BY DEF QueryShape, Matching

LEMMA NearestCovers ==
    ASSUME QueryShape, AllCovered, NEW t, Nearest(t), question.tool \in Searches
    PROVE  pool' \subseteq Items /\ AllCovered'
<1>1. Reading(t) /\ UNCHANGED <<failed, capped, question>>
  BY DEF Nearest, Reading
<1>2. PICK rows \in Best(Matching(t), FetchLimit(question)) : pool' = pool \cup rows
  BY DEF Nearest
<1>3. rows \in Some(Matching(t), question.limit + 1) /\ question.limit \in Nat /\ question.limit + 1 \in Nat
      /\ \A s \in rows, other \in Matching(t) \ rows : s.score >= other.score
  BY <1>2, QuestionFacts DEF Best
<1>4. Matching(t) \in SUBSET Items /\ IsFiniteSet(Matching(t))
  BY MatchingFacts, FiniteRows
<1>5. rows \subseteq Matching(t) /\ (rows = Matching(t) \/ Cardinality(rows) = question.limit + 1)
  BY <1>3, <1>4, SomeFacts
<1>6. pool' \subseteq Items
  BY <1>2, <1>4, <1>5 DEF QueryShape
<1>7. ASSUME NEW r \in steady', Seen(r)' PROVE Covered(r)'
  <2>1. r \in Items /\ IF r.table = t THEN r \in Matching(t) ELSE Seen(r)
    BY <1>1, <1>7, ReadSees
  <2>2. CASE r.table = t
    <3>1. CASE r \in rows
      BY <1>2, <3>1 DEF Covered
    <3>2. CASE r \notin rows
      <4>1. Cardinality(rows) = question.limit + 1
        BY <1>5, <2>1, <2>2, <3>2
      <4>2. rows \subseteq Better(r)'
        BY <1>2, <1>3, <2>1, <2>2, <3>2 DEF Better
      <4>3. Better(r)' \in SUBSET Items
        BY <1>6 DEF Better
      <4>4. IsFiniteSet(Better(r)') /\ Cardinality(Better(r)') \in Nat
        BY <4>3, FiniteRows
      <4>5. Cardinality(rows) <= Cardinality(Better(r)')
        BY <4>2, <4>4, FS_Subset
      <4>6. Cardinality(Better(r)') > question.limit
        BY <1>3, <4>1, <4>4, <4>5
      <4>7. QED BY <1>1, <4>6 DEF Covered
    <3>3. QED BY <3>1, <3>2
  <2>3. CASE r.table # t
    <3>1. Covered(r)
      BY <2>1, <2>3 DEF AllCovered, Seen
    <3>2. QED BY <1>1, <1>2, <1>6, <2>1, <3>1, MoreCover
  <2>4. QED BY <2>2, <2>3
<1>8. QED BY <1>6, <1>7 DEF AllCovered

LEMMA CountCovers ==
    ASSUME QueryShape, AllCovered, Count PROVE pool' \subseteq Items /\ AllCovered'
<1>1. PICK t \in waiting : Reading(t) /\ pool' = pool \cup Matching(t) /\ UNCHANGED <<failed, capped>>
  BY DEF Count
<1>2. pool' \subseteq Items /\ question' = question
  BY <1>1, MatchingFacts DEF QueryShape, Reading
<1>3. ASSUME NEW r \in steady', Seen(r)' PROVE Covered(r)'
  <2>1. r \in Items /\ IF r.table = t THEN r \in Matching(t) ELSE Seen(r)
    BY <1>1, <1>3, ReadSees
  <2>2. CASE r.table = t
    BY <1>1, <2>1, <2>2 DEF Covered
  <2>3. CASE r.table # t
    <3>1. Covered(r)
      BY <2>1, <2>3 DEF AllCovered, Seen
    <3>2. QED BY <1>1, <1>2, <2>1, <3>1, MoreCover
  <2>4. QED BY <2>2, <2>3
<1>4. QED BY <1>2, <1>3 DEF AllCovered

\* A list shows the store's rows up to a limit: its own, or that of the scan.
LEMMA ListCovers ==
    ASSUME QueryShape, OneTable, GetMemories \/ ListTodos \/ ListAllTodos
    PROVE  pool' \subseteq Items /\ AllCovered'
<1> DEFINE t == IF question.tool = "get_memories" THEN "memories" ELSE "todos"
           n == IF question.tool = "get_memories" THEN question.limit + 1 ELSE ScanCap
<1>1. /\ Reading(t) /\ pool' \in Some(Matching(t), n) /\ UNCHANGED <<failed, question>>
      /\ question.tool \in {"get_memories", "list_todos", "tasks"}
      /\ question.tool # "get_memories" => capped' = (Cardinality(Matching(t)) >= n)
  <2>1. CASE GetMemories
    BY <2>1, QuestionFacts DEF GetMemories, Scroll, Reading
  <2>2. CASE ListTodos \/ ListAllTodos
    BY <2>2 DEF ListTodos, ListAllTodos, OfProject, Scroll, Reading
  <2>3. QED BY <2>1, <2>2
<1>2. n \in Nat /\ question.limit \in Nat
  BY QuestionFacts
<1>3. question.tables \ waiting \subseteq {t} /\ t \in waiting
  BY <1>1 DEF OneTable, Reading
<1> HIDE DEF t, n
<1>4. Matching(t) \in SUBSET Items /\ IsFiniteSet(Matching(t)) /\ Cardinality(Matching(t)) \in Nat
  BY MatchingFacts, FiniteRows
<1>5. pool' \subseteq Matching(t)
      /\ (pool' = Matching(t) \/ (Cardinality(pool') = n /\ n < Cardinality(Matching(t))))
  BY <1>1, <1>2, <1>4, SomeFacts
<1>6. ASSUME NEW r \in steady', Seen(r)' PROVE Covered(r)'
  <2>1. r \in Items /\ IF r.table = t THEN r \in Matching(t) ELSE Seen(r)
    BY <1>1, <1>6, ReadSees
  <2>2. r.table = t
    BY <1>3, <2>1 DEF Seen
  <2>3. CASE r \in pool'
    BY <2>3 DEF Covered
  <2>4. CASE r \notin pool'
    <3>1. Cardinality(pool') = n /\ n < Cardinality(Matching(t))
      BY <1>5, <2>1, <2>2, <2>4
    <3>2. CASE question.tool = "get_memories"
      BY <1>1, <1>2, <3>1, <3>2 DEF Covered, n
    <3>3. CASE question.tool # "get_memories"
      <4>1. Cardinality(Matching(t)) >= n
        BY <1>2, <1>4, <3>1
      <4>2. capped' = (Cardinality(Matching(t)) >= n)
        BY <1>1, <3>3
      <4>3. capped'
        BY <4>1, <4>2, Zenon
      <4>4. QED BY <4>3 DEF Covered
    <3>4. QED BY <3>2, <3>3
  <2>5. QED BY <2>3, <2>4
<1>7. QED BY <1>4, <1>5, <1>6 DEF AllCovered

\* What is shown of the rows read.
LEMMA ShownFacts ==
    ASSUME NEW rows
    PROVE  /\ Shown(question, rows) \subseteq rows
           /\ question.tool # "tasks" => Shown(question, rows) = rows
           /\ \A r \in rows : r \in Shown(question, {r}) => r \in Shown(question, rows)
BY DEF Shown

\* What the answer leaves out is accounted for.
LEMMA PickAnswers ==
    ASSUME QueryShape, AllCovered, Pick PROVE PageIsTop'
<1> DEFINE rows  == Shown(question, pool)
           limit == question.limit
<1>1. /\ waiting = {} /\ UNCHANGED <<question, waiting, pool, failed, capped, steady>>
      /\ page' \in CASE question.tool \in Counters -> {rows}
                     [] question.tool = "get_memories" -> Some(rows, question.limit)
                     [] OTHER -> Best(rows, question.limit)
      /\ more' = (question.tool \notin Counters \cup {"tasks"} /\ Cardinality(rows) > question.limit)
  BY DEF Pick, QueryShape
<1>2. limit \in Nat \ {0}
  BY QuestionFacts
<1>3. /\ rows \subseteq pool /\ rows \in SUBSET Items
      /\ question.tool # "tasks" => rows = pool
      /\ \A r \in pool : r \in Shown(question, {r}) => r \in rows
  BY ShownFacts DEF QueryShape
<1> HIDE DEF rows
<1>4. IsFiniteSet(rows) /\ Cardinality(rows) \in Nat
  BY <1>3, FiniteRows
<1>5. SUFFICES ASSUME ~capped, NEW r \in steady, r \notin page', AskedFor(r)
      PROVE  /\ question.tool \notin Counters
             /\ Cardinality(page') = limit
             /\ question.tool # "tasks" => more'
             /\ question.tool # "get_memories" => \A s \in page' : s.score >= r.score
  BY <1>1 DEF PageIsTop, AskedFor
<1>6. Covered(r) /\ r \in Items /\ r \in Shown(question, {r})
  BY <1>1, <1>5 DEF AllCovered, Seen, AskedFor, QueryShape
<1>7. CASE question.tool \in Counters
  <2>1. page' \in {rows}
    <3>1. page' \in CASE question.tool \in Counters -> {rows}
                      [] question.tool = "get_memories" -> Some(rows, question.limit)
                      [] OTHER -> Best(rows, question.limit)
      BY <1>1
    <3>2. question.tool # "get_memories"
      BY <1>7 DEF Counters
    <3>3. (CASE question.tool \in Counters -> {rows}
             [] question.tool = "get_memories" -> Some(rows, question.limit)
             [] OTHER -> Best(rows, question.limit)) = {rows}
      BY <1>7, <3>2
    <3>4. QED BY <3>1, <3>3, Zenon
  <2>2. r \in pool
    BY <1>5, <1>6, <1>7 DEF Covered, Counters, Searches
  <2>3. page' = rows /\ r \in rows
    BY <1>3, <1>6, <2>1, <2>2
  <2>4. QED BY <1>5, <2>3
<1>8. CASE question.tool \notin Counters
  <2>1. page' \in Some(rows, limit)
        /\ (question.tool # "get_memories" => \A s \in page', other \in rows \ page' : s.score >= other.score)
    BY <1>1, <1>8 DEF Best
  <2>2. page' \subseteq rows /\ (page' = rows \/ (Cardinality(page') = limit /\ limit < Cardinality(rows)))
    BY <1>2, <1>4, <2>1, SomeFacts
  <2>3. Cardinality(rows) > limit => Cardinality(page') = limit
    BY <1>2, <1>4, <2>1 DEF Some, kSubset, Least
  <2>4. ASSUME Cardinality(rows) > limit, question.tool # "tasks" PROVE more'
    <3>1. question.tool \notin Counters \cup {"tasks"} /\ Cardinality(rows) > question.limit
      BY <1>8, <2>4
    <3>2. more' = (question.tool \notin Counters \cup {"tasks"} /\ Cardinality(rows) > question.limit)
      BY <1>1
    <3>3. QED BY <3>1, <3>2, Zenon
  <2>5. CASE r \in pool
    <3>1. r \in rows
      BY <1>3, <1>6, <2>5
    <3>2. Cardinality(page') = limit /\ Cardinality(rows) > limit
      BY <1>2, <1>4, <1>5, <2>2, <3>1
    <3>3. QED BY <1>5, <1>8, <2>1, <2>4, <3>1, <3>2
  <2>6. CASE question.tool = "get_memories" /\ Cardinality(pool) > limit
    <3>1. Cardinality(rows) > limit
      BY <1>3, <2>6
    <3>2. QED BY <1>8, <2>3, <2>4, <2>6, <3>1
  <2>7. CASE question.tool \in Searches /\ Cardinality(Better(r)) > limit
    <3>1. rows = pool /\ question.tool \notin {"tasks", "get_memories"}
      BY <1>3, <2>7 DEF Searches
    <3>2. Better(r) \subseteq rows /\ IsFiniteSet(Better(r)) /\ Cardinality(Better(r)) \in Nat
      BY <1>3, <3>1, FiniteRows DEF Better
    <3>3. Cardinality(Better(r)) <= Cardinality(rows)
      BY <1>4, <3>2, FS_Subset
    <3>4. Cardinality(rows) > limit
      BY <1>2, <1>4, <2>7, <3>2, <3>3
    <3>5. Cardinality(page') = limit
      BY <2>3, <3>4
    <3>6. PICK other \in Better(r) : other \notin page'
      <4>1. page' \in SUBSET Items
        BY <1>3, <2>2
      <4>2. IsFiniteSet(page')
        BY <4>1, FiniteRows
      <4>3. CASE Better(r) \subseteq page'
        <5>1. Cardinality(Better(r)) <= Cardinality(page')
          BY <4>2, <4>3, FS_Subset
        <5>2. QED BY <1>2, <2>7, <3>2, <3>5, <5>1
      <4>4. QED BY <4>3
    <3>7. \A s \in page' : s.score \in Nat /\ s.score >= other.score
      BY <1>3, <2>1, <2>2, <3>1, <3>2, <3>6, ItemsAssumption
    <3>8. other.score >= r.score /\ other.score \in Nat /\ r.score \in Nat
      BY <1>3, <1>6, <3>2, <3>6, ItemsAssumption DEF Better
    <3>9. \A s \in page' : s.score >= r.score
      BY <3>7, <3>8
    <3>10. QED BY <1>8, <2>4, <3>1, <3>4, <3>5, <3>9
  <2>8. QED BY <1>5, <1>6, <2>5, <2>6, <2>7 DEF Covered
<1>9. QED BY <1>7, <1>8

-----------------------------------------------------------------------------

LEMMA QueryInvInit == QueryInit => QueryInv
BY DEF QueryInit, QueryInv, QueryShape, OneTable, AllCovered, PageIsTop

LEMMA QueryInvStep == QueryInv /\ [QueryNext]_qvars => QueryInv'
<1> SUFFICES ASSUME QueryInv, [QueryNext]_qvars PROVE QueryInv'
  OBVIOUS
<1>0. QueryShape /\ OneTable /\ AllCovered /\ PageIsTop
  BY DEF QueryInv
<1>1. ASSUME qpc' # "answered" PROVE PageIsTop'
  BY <1>1 DEF PageIsTop
<1>2. CASE Ask
  <2>1. QueryShape' /\ OneTable'
    BY <1>0, <1>2 DEF Ask, QueryShape, OneTable
  <2>2. AllCovered'
    BY <1>2 DEF Ask, AllCovered, Seen
  <2>3. PageIsTop'
    <3>1. CASE question.tables = {}
      BY <1>2, <3>1 DEF Ask, PageIsTop, AskedFor
    <3>2. CASE question.tables # {}
      BY <1>1, <1>2, <3>2 DEF Ask
    <3>3. QED BY <3>1, <3>2
  <2>4. QED BY <2>1, <2>2, <2>3 DEF QueryInv
<1>3. CASE Embed \/ ListProjects
  <2>1. qpc \in {"embed", "projects"} /\ qpc' \in {"read", "failed"}
        /\ UNCHANGED <<there, question, waiting, pool, failed, capped, steady>>
    BY <1>3 DEF Embed, ListProjects
  <2>2. QueryShape' /\ OneTable'
    BY <1>0, <2>1 DEF QueryShape, OneTable
  <2>3. AllCovered'
    BY <1>0, <2>1 DEF AllCovered, Seen, Covered, Better
  <2>4. QED BY <1>1, <2>1, <2>2, <2>3 DEF QueryInv
<1>4. CASE Pick
  <2>1. qpc' = "answered" /\ UNCHANGED <<there, question, waiting, pool, failed, capped, steady>> /\ qpc = "pick"
    BY <1>4 DEF Pick
  <2>2. QueryShape' /\ OneTable'
    BY <1>0, <2>1 DEF QueryShape, OneTable
  <2>3. AllCovered'
    BY <1>0, <2>1 DEF AllCovered, Seen, Covered, Better
  <2>4. QED BY <1>0, <1>4, <2>2, <2>3, PickAnswers DEF QueryInv
<1>5. ASSUME NEW t, Reading(t), pool' \subseteq Items, AllCovered',
             question.tool = "get_memories" => t = "memories",
             question.tool \in {"list_todos", "tasks"} => t = "todos"
      PROVE  QueryInv'
  <2>1. /\ qpc = "read" /\ t \in waiting /\ waiting' = waiting \ {t} /\ qpc' \in {"read", "pick"}
        /\ qpc' = "pick" => waiting' = {}
        /\ UNCHANGED <<there, question, steady>>
    BY <1>5 DEF Reading
  <2>2. QueryShape'
    BY <1>0, <1>5, <2>1 DEF QueryShape
  <2>3. OneTable'
    BY <1>0, <1>5, <2>1 DEF OneTable
  <2>4. QED BY <1>1, <1>5, <2>1, <2>2, <2>3 DEF QueryInv
<1>6. CASE SearchMemories \/ SearchStandards \/ SearchCode \/ UnifiedSearch
  <2>1. question.tool \in Searches /\ \E t : Nearest(t)
    BY <1>6 DEF SearchMemories, SearchStandards, SearchCode, UnifiedSearch, Searches
  <2>2. PICK t : Nearest(t)
    BY <2>1
  <2>3. pool' \subseteq Items /\ AllCovered'
    BY <1>0, <2>1, <2>2, NearestCovers
  <2>4. Reading(t)
    BY <2>2 DEF Nearest
  <2>5. QED BY <1>5, <2>1, <2>3, <2>4 DEF Searches
<1>7. CASE GetMemories \/ ListTodos \/ ListAllTodos
  <2>1. pool' \subseteq Items /\ AllCovered'
    BY <1>0, <1>7, ListCovers
  <2>2. CASE GetMemories
    BY <1>5, <2>1, <2>2 DEF GetMemories, Scroll
  <2>3. CASE ListTodos \/ ListAllTodos
    BY <1>5, <2>1, <2>3 DEF ListTodos, ListAllTodos, OfProject, Scroll
  <2>4. QED BY <1>7, <2>2, <2>3
<1>8. CASE Count
  <2>1. pool' \subseteq Items /\ AllCovered'
    BY <1>0, <1>8, CountCovers
  <2>2. PICK t : Reading(t)
    BY <1>8 DEF Count
  <2>3. question.tool \in Counters
    BY <1>8 DEF Count
  <2>4. QED BY <1>5, <2>1, <2>2, <2>3 DEF Counters
<1>9. ASSUME NEW t \in Collections, ReadFails(t) PROVE QueryInv'
  <2>1. failed' = failed \cup {t} /\ UNCHANGED <<there, question, steady, pool, capped>>
    BY <1>9 DEF ReadFails, Reading
  <2>2. CASE question.tool \in {"search", "list_collections"}
    <3>1. Reading(t)
      BY <1>9, <2>2 DEF ReadFails
    <3>2. pool' \subseteq Items
      BY <1>0, <2>1 DEF QueryShape
    <3>3. AllCovered'
      BY <1>0, <2>1, <3>1 DEF AllCovered, Seen, Covered, Better, Reading
    <3>4. QED BY <1>5, <2>2, <3>1, <3>2, <3>3
  <2>3. CASE question.tool \notin {"search", "list_collections"}
    <3>1. qpc = "read" /\ qpc' = "failed" /\ waiting' = waiting
      BY <1>9, <2>3 DEF ReadFails
    <3>2. QueryShape' /\ OneTable'
      BY <1>0, <2>1, <3>1 DEF QueryShape, OneTable
    <3>3. AllCovered'
      BY <1>0, <2>1, <3>1 DEF AllCovered, Seen, Covered, Better
    <3>4. QED BY <1>1, <3>1, <3>2, <3>3 DEF QueryInv
  <2>4. QED BY <2>2, <2>3
<1>10. ASSUME NEW r \in Items, Put(r) \/ Remove(r) PROVE QueryInv'
  <2>1. /\ UNCHANGED <<question, qpc, waiting, pool, failed, capped>> /\ qpc # "answered" /\ qpc # "idle"
        /\ there' \subseteq there \cup {r} /\ steady' \subseteq steady /\ steady' \subseteq there'
    BY <1>0, <1>10 DEF Put, Remove, Serving, QueryShape
  <2>2. QueryShape' /\ OneTable'
    BY <1>0, <2>1 DEF QueryShape, OneTable
  <2>3. AllCovered'
    BY <1>0, <2>1 DEF AllCovered, Seen, Covered, Better
  <2>4. QED BY <1>1, <2>1, <2>2, <2>3 DEF QueryInv
<1>11. CASE UNCHANGED qvars
  <2>1. QueryShape' /\ OneTable'
    BY <1>0, <1>11 DEF qvars, QueryShape, OneTable
  <2>2. AllCovered'
    BY <1>0, <1>11 DEF qvars, AllCovered, Seen, Covered, Better
  <2>3. PageIsTop'
    BY <1>0, <1>11 DEF qvars, answer, PageIsTop, AskedFor
  <2>4. QED BY <2>1, <2>2, <2>3 DEF QueryInv
<1>12. QED BY <1>2, <1>3, <1>4, <1>6, <1>7, <1>8, <1>9, <1>10, <1>11 DEF QueryNext, Query

\* A row that was there all along and is asked for is on the page, or the page is
\* full of rows no worse and says so: though each table is read at a time of its
\* own and writers come and go in between.
THEOREM PageIsTopThm == QuerySpec => []PageIsTop
<1>1. QueryInv => PageIsTop
  BY DEF QueryInv
<1>2. QED BY <1>1, QueryInvInit, QueryInvStep, PTL DEF QuerySpec
=============================================================================
