------------------------------ MODULE Storage ------------------------------
(***************************************************************************)
(* One LanceDB table under the server: the manifest guard that runs before *)
(* the store is opened (manifest_guard.rs), opening and start-up           *)
(* compaction (lancedb_store.rs, serve.rs) and the compactions that writes *)
(* trigger (lancedb_store.rs).                                             *)
(*                                                                         *)
(* A table is a set of manifests, one per version; LanceDB opens the       *)
(* newest.  A commit creates the next manifest and fills it: the process   *)
(* that dies in between leaves it torn, and a loss of power may tear a few *)
(* newer ones with it.  The guard moves torn manifests aside until the     *)
(* newest one is whole.                                                    *)
(*                                                                         *)
(* LanceDB is external: a commit is serial and rebases on the newest       *)
(* version, optimize merges the fragments it has read and prunes versions  *)
(* by age.  Tables share nothing but the set of names being compacted.     *)
(***************************************************************************)
EXTENDS Naturals, FiniteSets, FiniteSetsExt

CONSTANTS
    Writers,                    \* calls of the store; each writes one row
    Threshold,                  \* compact_fragment_threshold
    MaxQuarantine,              \* MAX_CONSECUTIVE_QUARANTINE
    MaxTorn,                    \* bound on the whole manifests a loss of power tears
    MaxVersion, MaxCrashes      \* bounds on the versions and the crashes explored

ASSUME StorageAssumption ==
    /\ {Threshold, MaxQuarantine, MaxTorn, MaxVersion, MaxCrashes} \subseteq Nat
    /\ MaxVersion > 0

Startup    == "startup"         \* the compaction before serving
Nobody     == "nobody"
ASSUME WritersAssumption == Startup \notin Writers /\ Nobody \notin Writers

Versions   == 1..MaxVersion
Compactors == Writers \cup {Startup}
Manifest   == [whole : BOOLEAN, rows : SUBSET Writers, frags : Nat]

VARIABLES
    manifests,  \* _versions: a function from the versions there are
    aside,      \* _corrupt_manifests: how many files each version has there
    phase,      \* of the server process
    moved,      \* how many manifests this pass of the guard quarantined
    committing, \* who is writing the newest manifest
    pc,         \* of each call
    claimed,    \* is the table in the set of tables being compacted?
    running,    \* per compaction that optimizes: the fragments it merges, 0 when done
    acked,      \* history: rows whose write returned
    excused,    \* history: acknowledged rows that only torn manifests had
    torn,       \* history: how often the manifest of each version was torn
    missed,     \* history: a write found the table claimed, a compaction failed,
                \*   or the server restarted, since the last one began
    crashes

store == <<manifests, aside>>
past  == <<acked, excused, torn>>
vars  == <<store, phase, moved, committing, pc, claimed, running, past, missed, crashes>>

Init ==
    /\ manifests = [v \in {1} |-> [whole |-> TRUE, rows |-> {}, frags |-> 0]]
    /\ aside = [v \in Versions |-> 0]
    /\ phase = "down" /\ moved = 0 /\ committing = Nobody
    /\ pc = [w \in Writers |-> "idle"]
    /\ claimed = FALSE /\ running = [c \in {} |-> 0]
    /\ acked = {} /\ excused = {} /\ torn = [v \in Versions |-> 0]
    /\ missed = TRUE
    /\ crashes = 0

-----------------------------------------------------------------------------
(* Manifests.                                                              *)

Latest == Max(DOMAIN manifests)
Whole  == {v \in DOMAIN manifests : manifests[v].whole}

\* The newest manifest, and what LanceDB opens.
Newest == manifests[Latest]

\* LanceDB creates the next manifest: there, but not written.
CreateManifest(who, rows, frags) ==
    /\ committing = Nobody /\ Newest.whole /\ Latest < MaxVersion
    /\ committing' = who
    /\ manifests' = [v \in DOMAIN manifests \cup {Latest + 1} |->
          IF v \in DOMAIN manifests THEN manifests[v]
          ELSE [whole |-> FALSE, rows |-> rows, frags |-> frags]]

FillManifest(who) ==
    /\ committing = who
    /\ committing' = Nobody
    /\ manifests' = [manifests EXCEPT ![Latest].whole = TRUE]

-----------------------------------------------------------------------------
(* The guard, one manifest at a time.                                      *)

Start ==
    /\ phase = "down"
    /\ phase' = "guard" /\ moved' = 0
    /\ UNCHANGED <<store, committing, pc, claimed, running, past, missed, crashes>>

\* A fault: a file of the same version is overwritten.
SetAsideOver(v) == aside' = [aside EXCEPT ![v] = 1]

\* quarantine_manifest takes a name that is free.
SetAside(v) == aside' = [aside EXCEPT ![v] = @ + 1]

\* A fault: a footer that cannot be read counts as torn.
QuarantineUnreadable ==
    /\ phase = "guard"
    /\ Cardinality(DOMAIN manifests) > 1
    /\ moved < MaxQuarantine
    /\ SetAside(Latest)
    /\ manifests' = [v \in DOMAIN manifests \ {Latest} |-> manifests[v]]
    /\ moved' = moved + 1
    /\ UNCHANGED <<phase, committing, pc, claimed, running, past, missed, crashes>>

Quarantine ==
    /\ phase = "guard"
    /\ Latest \notin Whole
    /\ Cardinality(DOMAIN manifests) > 1
    /\ moved < MaxQuarantine
    /\ SetAside(Latest)
    /\ manifests' = [v \in DOMAIN manifests \ {Latest} |-> manifests[v]]
    /\ moved' = moved + 1
    /\ UNCHANGED <<phase, committing, pc, claimed, running, past, missed, crashes>>

\* The guard is done: the newest is whole, or it is the only one, or too many
\* were moved, or a file could not be read, listed or moved.
GuardEnds ==
    /\ phase = "guard"
    /\ phase' = "open"
    /\ UNCHANGED <<store, moved, committing, pc, claimed, running, past, missed, crashes>>

-----------------------------------------------------------------------------
(* Opening and start-up.                                                   *)

\* LanceDB cannot read the newest manifest: the process ends, and is started
\* again.
OpenFails ==
    /\ phase = "open" /\ ~Newest.whole
    /\ phase' = "down"
    /\ UNCHANGED <<store, moved, committing, pc, claimed, running, past, missed, crashes>>

\* ensure_table: the table is there; ensure_auto_cleanup commits its settings,
\* or fails with a warning.
EnsureTable ==
    /\ phase = "open" /\ Newest.whole
    /\ \/ CreateManifest(Startup, Newest.rows, Newest.frags) /\ phase' = "cleanup"
       \/ phase' = "startup" /\ UNCHANGED <<committing, manifests>>
    /\ UNCHANGED <<aside, moved, pc, claimed, running, past, missed, crashes>>

CleanupSet ==
    /\ phase = "cleanup"
    /\ FillManifest(Startup)
    /\ phase' = "startup"
    /\ UNCHANGED <<aside, moved, pc, claimed, running, past, missed, crashes>>

\* Start-up compaction is skipped when disabled or not worth it, or cannot open
\* the table.
SkipCompaction ==
    /\ phase = "startup"
    /\ phase' = "serving"
    /\ UNCHANGED <<store, moved, committing, pc, claimed, running, past, missed, crashes>>

\* More fragments than the threshold, or (any of) them could not be counted.
StartupCompaction ==
    /\ phase = "startup" /\ ~claimed /\ Newest.frags > 0
    /\ phase' = "compacting"
    /\ claimed' = TRUE
    /\ running' = [c \in {Startup} |-> Newest.frags]
    /\ missed' = FALSE
    /\ UNCHANGED <<store, moved, committing, pc, past, crashes>>

-----------------------------------------------------------------------------
(* Writes, and the compactions they trigger.                               *)

Write(w) ==
    /\ phase = "serving" /\ pc[w] = "idle"
    /\ CreateManifest(w, Newest.rows \cup {w}, Newest.frags + 1)
    /\ pc' = [pc EXCEPT ![w] = "commit"]
    /\ UNCHANGED <<aside, phase, moved, claimed, running, past, missed, crashes>>

Committed(w) ==
    /\ pc[w] = "commit"
    /\ FillManifest(w)
    /\ pc' = [pc EXCEPT ![w] = "count"]
    /\ UNCHANGED <<aside, phase, moved, claimed, running, past, missed, crashes>>

Return(w) ==
    /\ pc' = [pc EXCEPT ![w] = "done"]
    /\ acked' = acked \cup {w}

\* A fault: exactly the threshold is not enough.
CountFragmentsAbove(w) ==
    /\ pc[w] = "count"
    /\ \/ /\ Threshold # 0 /\ Newest.frags > Threshold
          /\ pc' = [pc EXCEPT ![w] = "claim"]
          /\ UNCHANGED <<acked, missed>>
       \/ /\ Threshold = 0 \/ Newest.frags <= Threshold
          /\ Return(w) /\ UNCHANGED missed
       \/ Return(w) /\ missed' = TRUE
    /\ UNCHANGED <<store, phase, moved, committing, claimed, running, excused, torn, crashes>>

\* maybe_auto_compact: enough fragments?  A count that fails is zero.
CountFragments(w) ==
    /\ pc[w] = "count"
    /\ \/ /\ Threshold # 0 /\ Newest.frags >= Threshold
          /\ pc' = [pc EXCEPT ![w] = "claim"]
          /\ UNCHANGED <<acked, missed>>
       \/ /\ Threshold = 0 \/ Newest.frags < Threshold
          /\ Return(w) /\ UNCHANGED missed
       \/ Return(w) /\ missed' = TRUE
    /\ UNCHANGED <<store, phase, moved, committing, claimed, running, excused, torn, crashes>>

\* A fault: the claim is not looked at.
ClaimAnyway(w) ==
    /\ pc[w] = "claim"
    /\ claimed' = TRUE
    /\ running' = [c \in DOMAIN running \cup {w} |-> IF c = w THEN Newest.frags ELSE running[c]]
    /\ missed' = FALSE
    /\ Return(w)
    /\ UNCHANGED <<store, phase, moved, committing, excused, torn, crashes>>

\* claim_compaction, and the task is spawned.
Claim(w) ==
    /\ pc[w] = "claim" /\ ~claimed
    /\ claimed' = TRUE
    /\ running' = [c \in DOMAIN running \cup {w} |-> IF c = w THEN Newest.frags ELSE running[c]]
    /\ missed' = FALSE
    /\ Return(w)
    /\ UNCHANGED <<store, phase, moved, committing, excused, torn, crashes>>

AlreadyClaimed(w) ==
    /\ pc[w] = "claim" /\ claimed
    /\ missed' = TRUE
    /\ Return(w)
    /\ UNCHANGED <<store, phase, moved, committing, claimed, running, excused, torn, crashes>>

-----------------------------------------------------------------------------
(* optimize(OptimizeAction::All), by a spawned task or before serving.     *)

OptimizeCommit(c) ==
    /\ c \in DOMAIN running /\ running[c] > 0
    /\ CreateManifest(c, Newest.rows, (Newest.frags - running[c]) + 1)
    /\ UNCHANGED <<aside, phase, moved, pc, claimed, running, past, missed, crashes>>

OptimizeCommitted(c) ==
    /\ c \in DOMAIN running /\ running[c] > 0
    /\ FillManifest(c)
    /\ running' = [running EXCEPT ![c] = 0]
    /\ UNCHANGED <<aside, phase, moved, pc, claimed, past, missed, crashes>>

\* A fault: only a compaction that succeeds releases its claim.
ReleaseDone(c) ==
    /\ claimed' = (running[c] > 0)
    /\ running' = [d \in DOMAIN running \ {c} |-> running[d]]
    /\ phase' = IF c = Startup THEN "serving" ELSE phase

\* The guard of the claim is dropped; start-up goes on.
Release(c) ==
    /\ claimed' = FALSE
    /\ running' = [d \in DOMAIN running \ {c} |-> running[d]]
    /\ phase' = IF c = Startup THEN "serving" ELSE phase

\* Old versions are pruned, which ones depends on their age.
OptimizeEnds(c) ==
    /\ c \in DOMAIN running /\ running[c] = 0
    /\ \E keep \in SUBSET DOMAIN manifests :
          /\ Latest \in keep /\ (committing # Nobody => Latest - 1 \in keep)
          /\ manifests' = [v \in keep |-> manifests[v]]
    /\ Release(c)
    /\ UNCHANGED <<aside, moved, committing, pc, past, missed, crashes>>

OptimizeFails(c) ==
    /\ c \in DOMAIN running /\ committing # c
    /\ Release(c)
    /\ missed' = TRUE
    /\ UNCHANGED <<store, moved, committing, pc, past, crashes>>

-----------------------------------------------------------------------------

\* The process dies.  The manifest being written is torn, or complete, or was
\* not yet there; a loss of power also tears the newest whole ones.
Crash ==
    /\ phase # "down" /\ crashes < MaxCrashes
    /\ crashes' = crashes + 1
    /\ \E left \in {DOMAIN manifests} \cup (IF committing = Nobody THEN {} ELSE {DOMAIN manifests \ {Latest}}),
          n \in 0 .. (MaxTorn + 1) :
          LET tears == {v \in left : v > Latest - n}
              fresh == {v \in tears : v \in Whole \/ (committing # Nobody /\ v = Latest)}
              good  == {v \in left \ tears : manifests[v].whole \/ committing # Nobody}
          IN  /\ Cardinality(fresh \cap Whole) <= MaxTorn
              /\ manifests' = [v \in left |-> [manifests[v] EXCEPT !.whole = v \in good]]
              /\ torn' = [v \in Versions |-> torn[v] + IF v \in fresh THEN 1 ELSE 0]
              /\ excused' = IF good = {} THEN acked ELSE acked \ manifests[Max(good)].rows
    /\ phase' = "down" /\ moved' = 0 /\ committing' = Nobody
    /\ pc' = [w \in Writers |-> IF w \in acked THEN "done" ELSE "idle"]
    /\ claimed' = FALSE /\ running' = [c \in {} |-> 0]
    /\ missed' = TRUE
    /\ UNCHANGED <<aside, acked>>

WriteStep(w) ==
    \/ Write(w) \/ Committed(w) \/ CountFragments(w) \/ Claim(w) \/ AlreadyClaimed(w)

OptimizeStep(c) ==
    \/ OptimizeCommit(c) \/ OptimizeCommitted(c) \/ OptimizeEnds(c) \/ OptimizeFails(c)

Boot ==
    \/ Start \/ Quarantine \/ GuardEnds \/ OpenFails
    \/ EnsureTable \/ CleanupSet \/ SkipCompaction \/ StartupCompaction

Next ==
    \/ Boot \/ Crash
    \/ \E w \in Writers : WriteStep(w)
    \/ \E c \in Compactors : OptimizeStep(c)

Spec == Init /\ [][Next]_vars

\* An optimize ends, one way or the other.
Fairness == \A c \in Compactors : WF_vars(OptimizeStep(c))
FairSpec == Spec /\ Fairness

-----------------------------------------------------------------------------
(* Properties.                                                             *)

TypeOK ==
    /\ DOMAIN manifests \subseteq Versions /\ \A v \in DOMAIN manifests : manifests[v] \in Manifest
    /\ aside \in [Versions -> Nat] /\ torn \in [Versions -> Nat]
    /\ phase \in {"down", "guard", "open", "cleanup", "startup", "compacting", "serving"}
    /\ moved \in 0..MaxQuarantine
    /\ committing \in Compactors \cup {Nobody}
    /\ pc \in [Writers -> {"idle", "commit", "count", "claim", "done"}]
    /\ claimed \in BOOLEAN /\ missed \in BOOLEAN
    /\ DOMAIN running \subseteq Compactors /\ \A c \in DOMAIN running : running[c] \in Nat
    /\ acked \subseteq Writers /\ excused \subseteq Writers
    /\ crashes \in 0..MaxCrashes

\* "Quarantined (moved aside, never deleted)", "never empties _versions/": every
\* manifest that was ever torn is still in one directory or the other, each
\* file under a name of its own, and the guard leaves a manifest to look at.
NothingDeleted ==
    /\ manifests # <<>>
    /\ \A v \in Versions :
          torn[v] = aside[v] + (IF v \in DOMAIN manifests \ Whole /\ ~(committing # Nobody /\ v = Latest)
                                THEN 1 ELSE 0)

\* "Opens the last good version": whatever was torn, and however often the guard
\* ran, was cut short or gave up, the table that is served has every
\* acknowledged write that some whole manifest still had.
OpensLastGood ==
    phase \in {"startup", "compacting", "serving"} => acked \ excused \subseteq Newest.rows

\* "A given table is compacted by at most one task at a time within this process."
SingleFlight == Cardinality(DOMAIN running) <= 1

\* When the store is quiet the table is below the threshold, or has one fragment,
\* unless a write found a compaction in flight that had already read its
\* fragments, or one failed, since the last compaction; of the time between a start
\* and the first compaction after it nothing is said.
Quiet == phase = "serving" /\ ~claimed /\ \A w \in Writers : pc[w] \in {"idle", "done"}
CompactedWhenQuiet ==
    Quiet /\ Threshold > 0 /\ Newest.frags >= Threshold => missed \/ Newest.frags = 1

\* A claim is released in the end, by a compaction that fails as well.
ClaimReleased == claimed ~> ~claimed

=============================================================================
