------------------------------ MODULE CliWalk ------------------------------
(***************************************************************************)
(* What `memcan index-code` submits (walk.rs): the command walks the given *)
(* directory, with nothing to stop others from changing it meanwhile,      *)
(* keeps the files of one tech stack and cuts them into the batches that   *)
(* CliIndexing then sends.                                                 *)
(***************************************************************************)
EXTENDS Selection, SequencesExt

CONSTANTS
    Names,      \* of files and directories
    Paths,      \* the paths below the directory, as a string comparison sorts them
    Trees,      \* what may be there when the walk starts
    BatchSize   \* --batch-size

\* A path is the sequence of its components, an entry what the walk asks of it.
Root     == <<>>
Kinds    == {"directory", "left out", "symlink", "file"}  \* "left out": in SKIP_DIRS
Contents == {"fits", "too large", "unreadable", "gone"}
ASSUME WalkAssumption ==
    /\ BatchSize \in Nat
    /\ Paths \in Seq(Seq(Names) \ {Root}) /\ IsInjective(Paths)
    /\ \A p \in Range(Paths) : Front(p) \in Range(Paths) \cup {Root}
    /\ \A t \in Trees :
          /\ t \in [Range(Paths) \cup {Root} ->
                        [is : Kinds, ext : {"rs", "py", "ts", "tsx", "md"}, with : Contents \ {"gone"}]]
          /\ t[Root].is = "directory"

VARIABLES
    tree,       \* what is there now
    given,      \* --tech-stack, canonical
    walk,       \* where the command is
    dirs,       \* directories still to be read: `stack`
    listing,    \* entries of the one being read
    found,      \* files read so far
    stored,     \* the stack the files will be stored under
    packed      \* the batches

wvars == <<tree, given, walk, dirs, listing, found, stored, packed>>

Stacks == {"rust", "python", "typescript"}
ExtensionsOf(stack) ==
    CASE stack = "rust" -> {"rs"} [] stack = "python" -> {"py"} [] stack = "typescript" -> {"ts", "tsx"}
Allowed == IF given = "none" THEN UNION {ExtensionsOf(s) : s \in Stacks} ELSE ExtensionsOf(given)

\* A directory that cannot be read, or is gone by now, ends the command.
OpenDirectory ==
    /\ walk = "walking" /\ listing = {} /\ dirs # <<>>
    /\ dirs' = Front(dirs)
    /\ IF tree[Last(dirs)].with \in {"unreadable", "gone"}
       THEN walk' = "exit_error" /\ UNCHANGED listing
       ELSE /\ listing' = {p \in Range(Paths) : Front(p) = Last(dirs) /\ tree[p].with # "gone"}
            /\ UNCHANGED walk
    /\ UNCHANGED <<tree, given, found, stored, packed>>

\* One entry: a directory waits for its turn, a file is read now.
Visit(p) ==
    /\ walk = "walking" /\ p \in listing
    /\ listing' = listing \ {p}
    /\ dirs'  = IF tree[p].is = "directory" THEN Append(dirs, p) ELSE dirs
    /\ found' = IF tree[p].is = "file" /\ tree[p].ext \in Allowed /\ tree[p].with = "fits"
                THEN Append(found, p) ELSE found
    /\ UNCHANGED <<tree, given, walk, stored, packed>>

StacksOf(files) == {s \in Stacks : \E p \in files : tree[p].ext \in ExtensionsOf(s)}

\* A fault: the first language that fits names the stack.
DetectFirst(files) == IF StacksOf(files) = {} THEN "none" ELSE CHOOSE s \in StacksOf(files) : TRUE

\* detect_tech_stack: the one language of the files, if there is one.
Detect(files) ==
    IF Cardinality(StacksOf(files)) = 1 THEN CHOOSE s \in StacksOf(files) : TRUE ELSE "none"

\* chunk_into_batches.
InBatches(files) == InChunks(files, {b \in Seq(Range(Paths)) : Len(b) <= BatchSize})

\* The files are sorted; none at all is an error, and so are several languages
\* that no --tech-stack chooses from.
Pack ==
    /\ walk = "walking" /\ listing = {} /\ dirs = <<>>
    /\ stored' = IF given = "none" THEN Detect(Range(found)) ELSE given
    /\ IF found = <<>> \/ stored' = "none"
       THEN walk' = "exit_error" /\ UNCHANGED packed
       ELSE /\ walk' = "packed"
            /\ packed' = InBatches(InOrder(found, Paths))
    /\ UNCHANGED <<tree, given, dirs, listing, found>>

\* Somebody deletes or moves a file or a directory during the walk.
Vanish(p) ==
    /\ walk = "walking" /\ tree[p].with # "gone"
    /\ tree' = [q \in DOMAIN tree |-> IF IsPrefix(p, q) THEN [tree[q] EXCEPT !.with = "gone"] ELSE tree[q]]
    /\ UNCHANGED <<given, walk, dirs, listing, found, stored, packed>>

WalkInit ==
    /\ tree \in Trees
    /\ given \in Stacks \cup {"none"}
    /\ walk = "walking" /\ dirs = <<Root>> /\ listing = {} /\ found = <<>>
    /\ stored = "none" /\ packed = <<>>

WalkNext == OpenDirectory \/ Pack \/ \E p \in Range(Paths) : Visit(p) \/ Vanish(p)

WalkSpec == WalkInit /\ [][WalkNext]_wvars

-----------------------------------------------------------------------------
(* Properties.                                                             *)

\* The directories between the root and a path.
Above(p) == {q \in DOMAIN tree : IsStrictPrefix(q, p)}

\* A file of the tree that was there all the time.
Standing(p) ==
    /\ tree[p].is = "file" /\ tree[p].ext \in Allowed /\ tree[p].with = "fits"
    /\ \A q \in Above(p) : tree[q].is = "directory"

\* Whatever changes while the command walks, what it goes on to submit is, once
\* each and in the order of their names, files of the one stack they are stored
\* under; none that was there all the time is left out, and no batch is empty or
\* too large.  It gives up only on a directory it could not read, on a tree
\* without files, or on one of several languages.
BatchesCoverTree ==
    LET standing == {p \in Range(Paths) : Standing(p)}
        listed == Joined(packed)
    IN  /\ walk = "packed" =>
              /\ standing \subseteq Range(listed) /\ IsInjective(listed)
              /\ listed = Keep(Paths, Range(listed))
              /\ \A p \in Range(listed) : tree[p].ext \in ExtensionsOf(stored)
              /\ \A i \in DOMAIN packed : Len(packed[i]) \in 1..(IF BatchSize = 0 THEN 1 ELSE BatchSize)
        /\ walk = "exit_error" =>
              \/ \E p \in DOMAIN tree : tree[p].is = "directory" /\ tree[p].with \in {"unreadable", "gone"}
              \/ standing = {}
              \/ Cardinality(StacksOf(Range(found))) > 1

=============================================================================
