---------------------------- MODULE CliCommands ----------------------------
(***************************************************************************)
(* The commands of the memcan CLI that make a few calls and end (main.rs): *)
(* the hook `extract` (extract.rs), which filters and chunks what an       *)
(* assistant said and sends it to add_memory; the one-call commands; and   *)
(* `index-standards --wait`.  Here the server is what a client sees of     *)
(* TaskQueue: it takes a call or refuses it, replies may be lost, and the  *)
(* record of an operation goes through its steps or disappears.            *)
(***************************************************************************)
EXTENDS Selection, SequencesExt

CONSTANTS
    Transcripts,    \* what an assistant may have said: sequences of messages
    Dirs,           \* working directories: allowed or not, and the names they suggest
    MaxChars,       \* of a chunk: 400,000
    Separator       \* length of what is put between two messages

\* A message: what it is to the filter, and its length.
Sayings == {"substance", "short", "noise", "not an assistant's"}
ASSUME CommandsAssumption ==
    /\ MaxChars \in Nat /\ Separator \in Nat
    /\ \A t \in Transcripts : t \in Seq([is : Sayings, size : Nat])

VARIABLES
    input,      \* the command and what it is given
    place,      \* where it is
    chunks,     \* still to be sent: sequences of positions in the transcript
    taken,      \* history: chunks the server took, and for which project
    record,     \* of the standards operation
    told,       \* an error was logged, or printed to stderr
    exit        \* the exit code

mvars == <<input, place, chunks, taken, record, told, exit>>

Commands == {"add", "search", "status", "count"}
Outcomes == {"completed", "completed_degraded", "failed"}

Stop(withError, code) ==
    /\ place' = "exit" /\ told' = (told \/ withError) /\ exit' = code

-----------------------------------------------------------------------------
(* The hook.                                                               *)

\* filter_messages, after the transcript's lines that hold no assistant's text.
Kept(transcript) ==
    Keep([i \in DOMAIN transcript |-> i], {i \in DOMAIN transcript : transcript[i].is = "substance"})

\* chunk_messages: a message goes to the current chunk if it fits, or is the first.
Size(transcript, chunk) ==
    FoldLeft(LAMBDA sum, i : sum + transcript[i].size, Separator * (Len(chunk) - 1), chunk)
Chunked(transcript, messages) ==
    InChunks(messages, {c \in Seq(DOMAIN transcript) : Size(transcript, c) <= MaxChars})

\* SubagentStop sends the last message, unfiltered if it is long enough; PreCompact
\* what it keeps of a transcript.
ToSend ==
    CASE input.event = "SubagentStop" ->
            IF input.said = <<>> \/ Head(input.said).is = "short" THEN <<>> ELSE <<<<1>>>>
      [] input.event = "PreCompact" /\ input.transcript = "fine" -> Chunked(input.said, Kept(input.said))
      [] OTHER -> <<>>

\* An input that is too large or no JSON is an error, and so is a path outside the
\* user's directories; one that is blank, of another event, or names no transcript
\* is none.
Refused ==
    \/ input.event \in {"too large", "garbled"}
    \/ input.event = "SubagentStop" /\ ~input.cwd.allowed
    \/ input.event = "PreCompact" /\ input.transcript \in {"refused", "unreadable"}
    \/ input.event = "PreCompact" /\ ToSend # <<>> /\ ~input.cwd.allowed

Extract ==
    /\ place = "start" /\ input.command = "extract"
    /\ \/ Refused /\ Stop(TRUE, 0) /\ UNCHANGED chunks
       \/ ~Refused /\ ToSend = <<>> /\ Stop(FALSE, 0) /\ UNCHANGED chunks
       \/ ~Refused /\ ToSend # <<>> /\ chunks' = ToSend /\ place' = "connecting" /\ UNCHANGED <<told, exit>>
    /\ UNCHANGED <<input, taken, record>>

\* resolve_project: the repository's remote, its root, or the directory itself.
Unfit == {"none", "tmp", "temp", "/", "home"}
ResolveProject(cwd) ==
    LET fit == SelectSeq(<<cwd.remote, cwd.toplevel, cwd.itself>>, LAMBDA n : n \notin Unfit)
    IN  IF fit = <<>> THEN "none" ELSE Head(fit)
Memory == [chunk |-> Head(chunks), project |-> ResolveProject(input.cwd)]

Sent ==
    /\ place = "sending" /\ chunks # <<>>
    /\ chunks' = Tail(chunks)
    /\ taken' = taken \cup {Memory}
    /\ UNCHANGED <<input, place, record, told, exit>>

\* A fault: a chunk that cannot be sent is left out.
SendFailedGoesOn ==
    /\ place = "sending" /\ chunks # <<>>
    /\ chunks' = Tail(chunks)
    /\ taken' \in {taken, taken \cup {Memory}}
    /\ UNCHANGED <<input, place, record, told, exit>>

\* The server is busy or fails, or its reply is lost: the rest is not sent, which
\* only the log tells.
SendFailed ==
    /\ place = "sending" /\ chunks # <<>>
    /\ taken' \in {taken, taken \cup {Memory}}
    /\ Stop(TRUE, 0)
    /\ UNCHANGED <<input, chunks, record>>

AllSent ==
    /\ place = "sending" /\ chunks = <<>>
    /\ Stop(FALSE, 0)
    /\ UNCHANGED <<input, chunks, taken, record>>

-----------------------------------------------------------------------------
(* The other commands.                                                     *)

\* `index-standards` checks its arguments only once it is connected.
Begin ==
    /\ place = "start" /\ input.command # "extract"
    /\ place' = "connecting"
    /\ UNCHANGED <<input, chunks, taken, record, told, exit>>

Connect ==
    /\ place = "connecting"
    /\ place' = IF input.command = "extract" THEN "sending" ELSE "calling"
    /\ UNCHANGED <<input, chunks, taken, record, told, exit>>
ConnectFailed ==
    /\ place = "connecting"
    /\ Stop(TRUE, 0)
    /\ UNCHANGED <<input, chunks, taken, record>>

\* One call: its result is printed, or its error.
CallOnce ==
    /\ place = "calling" /\ input.command \in Commands \cup {"drop standards"}
    /\ \E fails \in BOOLEAN : Stop(fails, 0)
    /\ UNCHANGED <<input, chunks, taken, record>>

Submit ==
    /\ place = "calling" /\ input.command = "index-standards"
    /\ \/ input.arguments # "good" /\ Stop(TRUE, 1) /\ UNCHANGED record
       \/ input.arguments = "good" /\ Stop(TRUE, 0) /\ record' \in {record, "queued"}
       \/ /\ input.arguments = "good" /\ record' = "queued"
          /\ IF input.wait THEN place' = "polling" /\ UNCHANGED <<told, exit>> ELSE Stop(FALSE, 0)
    /\ UNCHANGED <<input, chunks, taken>>

\* A terminal step ends the polling; any other reply is no answer yet, one that
\* the operation is unknown among them.
PollOutcome ==
    /\ place = "polling" /\ record \in Outcomes
    /\ Stop(FALSE, IF record = "failed" THEN 1 ELSE 0)
    /\ UNCHANGED <<input, chunks, taken, record>>
PollFailed ==
    /\ place = "polling"
    /\ Stop(TRUE, 0)
    /\ UNCHANGED <<input, chunks, taken, record>>

\* The server's side of it.
Progress ==
    /\ record' \in CASE record = "queued"  -> {"storing", "gone"}
                     [] record = "storing" -> Outcomes \cup {"gone"}
                     [] record \in Outcomes /\ place = "polling" -> {"gone"}
                     [] OTHER              -> {}
    /\ UNCHANGED <<input, place, chunks, taken, told, exit>>

-----------------------------------------------------------------------------

HookInputs ==
    [command : {"extract"}, event : {"blank", "too large", "garbled", "other", "SubagentStop", "PreCompact"},
     cwd : Dirs, transcript : {"fine", "none", "refused", "unreadable"}, said : Transcripts]
OtherInputs ==
    [command : Commands \cup {"drop standards"}]
    \cup [command : {"index-standards"}, arguments : {"good", "missing"}, wait : BOOLEAN]

CommandsInit ==
    /\ input \in HookInputs \cup OtherInputs
    /\ place = "start" /\ chunks = <<>> /\ taken = {}
    /\ record = "none" /\ told = FALSE /\ exit = 0

CommandsNext ==
    \/ Extract \/ Sent \/ SendFailed \/ AllSent
    \/ Begin \/ Connect \/ ConnectFailed \/ CallOnce \/ Submit \/ PollOutcome \/ PollFailed \/ Progress

CommandsSpec == CommandsInit /\ [][CommandsNext]_mvars

-----------------------------------------------------------------------------
(* Properties.                                                             *)

Wanted ==
    CASE input.event = "SubagentStop" -> {i \in {1} \cap DOMAIN input.said : input.said[i].is # "short"}
      [] input.event = "PreCompact" /\ input.transcript = "fine" ->
            {i \in DOMAIN input.said : input.said[i].is = "substance"}
      [] OTHER -> {}

\* "Hook handler - reads stdin, filters noise, sends to MemCan server": a hook that
\* ends without an error in its log has handed over every message of substance, in
\* one chunk each, of which none is larger than the budget unless it is one message;
\* a command that waited and printed no error knows its operation's outcome.
TellsWhatIsLost ==
    place = "exit" /\ ~told =>
        /\ input.command = "extract" =>
              \A i \in Wanted : Cardinality({m \in taken : i \in Range(m.chunk)}) = 1
        /\ \A m \in taken : Len(m.chunk) > 1 => Size(input.said, m.chunk) <= MaxChars
        /\ input.command = "index-standards" /\ input.wait =>
               record \in Outcomes /\ (exit = 1 <=> record = "failed")

=============================================================================
