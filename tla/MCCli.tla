------------------------------- MODULE MCCli -------------------------------
(* TLC instance of the memcan command line: `index-code` against the queue *)
(* (CliIndexing, as in MCCliIndexing), the walk that makes its batches     *)
(* (CliWalk) and the commands of a few calls (CliCommands).  They share no *)
(* variable: a behaviour is of one of them.                                *)
EXTENDS MCCliIndexing, CliCommands, CliWalk

VARIABLE side

\* Commands: chunks of 5 characters, messages that fill them or exceed them.
Msg(what, size) == [is |-> what, size |-> size]
MCMessages    == {Msg("substance", 1), Msg("substance", 3), Msg("substance", 6), Msg("noise", 2), Msg("short", 1)}
MCTranscripts == UNION {[1..n -> MCMessages] : n \in 0..3}
Dir(allowed, remote, toplevel, itself) ==
    [allowed |-> allowed, remote |-> remote, toplevel |-> toplevel, itself |-> itself]
MCDirs == {Dir(FALSE, "none", "none", "etc"), Dir(TRUE, "tmp", "work", "sub"),
           Dir(TRUE, "none", "none", "home"), Dir(TRUE, "none", "none", "none")}

\* Walk: a file and a directory at the top, two entries in it and one below.
MCPaths == <<<<1>>, <<2>>, <<2, 1>>, <<2, 2>>, <<2, 2, 1>>>>
Entry(is, ext, with) == [is |-> is, ext |-> ext, with |-> with]
MCFile(exts)  == {Entry("file", e, "fits") : e \in exts}
MCDirectory   == Entry("directory", "md", "fits")
MCTrees ==
    {Root :> root @@ <<1>> :> one @@ <<2>> :> two @@ <<2, 1>> :> first @@ <<2, 2>> :> second @@ <<2, 2, 1>> :> below :
        root \in {MCDirectory, Entry("directory", "md", "unreadable")},
        one \in MCFile({"rs", "md"}),
        two \in {MCDirectory, Entry("left out", "md", "fits"), Entry("symlink", "md", "fits"),
                 Entry("directory", "md", "unreadable")},
        first \in MCFile({"rs", "py"}) \cup {Entry("file", "rs", "too large"), Entry("file", "py", "unreadable")},
        second \in {MCDirectory, Entry("symlink", "rs", "fits")},
        below \in MCFile({"rs", "tsx"}) \cup {Entry("symlink", "rs", "fits")}}

NoInput == [command |-> "status"]
NoTree  == [p \in Range(MCPaths) \cup {Root} |-> MCDirectory]

CommandsIdle == input = NoInput /\ place = "exit" /\ chunks = <<>> /\ taken = {} /\ record = "none" /\ told = TRUE /\ exit = 0
WalkIdle     == /\ tree = NoTree /\ given = "none" /\ walk = "exit_error" /\ dirs = <<>> /\ listing = {} /\ found = <<>>
                /\ stored = "none" /\ packed = <<>>
IndexingIdle == /\ Init /\ cli = "exit_error" /\ batch = 1 /\ attempts = 0 /\ flight = {} /\ warned = FALSE

MCInit ==
    \/ side = "indexing" /\ Init /\ CliInit /\ CommandsIdle /\ WalkIdle
    \/ side = "commands" /\ IndexingIdle /\ WalkIdle /\ CommandsInit
    \/ side = "walk"     /\ IndexingIdle /\ CommandsIdle /\ WalkInit

MCNext ==
    \/ side = "indexing" /\ CliNext      /\ UNCHANGED <<mvars, wvars, side>>
    \/ side = "commands" /\ CommandsNext /\ UNCHANGED <<allVars, wvars, side>>
    \/ side = "walk"     /\ WalkNext     /\ UNCHANGED <<allVars, mvars, side>>

MCSpec == MCInit /\ [][MCNext]_<<allVars, mvars, wvars, side>> /\ CliFairness
=============================================================================
