---------------------------- MODULE CliIndexing ----------------------------
(***************************************************************************)
(* `memcan index-code [--wait]` against the server's operation queue.      *)
(*                                                                         *)
(* The CLI submits its batches one after the other: it waits until the     *)
(* server has capacity, submits, retries while the server answers "busy",  *)
(* aborts on anything else, and finally polls every operation it was given.*)
(* A batch is an element of Ops of TaskQueue, which is the server here;    *)
(* the other calls of Ops are other clients.                               *)
(***************************************************************************)
EXTENDS TaskQueue

CONSTANTS
    Batches,        \* the CLI's batches, in order: a sequence of calls
    Pacing,         \* PACING_THRESHOLD
    MaxAttempts,    \* bound on the rounds RETRY_BUDGET leaves time for
    Wait            \* --wait

ASSUME BatchesAssumption ==
    /\ Batches \in Seq(Ops \ PipelineOps)
    /\ \A i, j \in DOMAIN Batches : Batches[i] = Batches[j] => i = j
ASSUME CliAssumption == Pacing \in Nat /\ MaxAttempts \in Nat /\ Wait \in BOOLEAN

VARIABLES
    cli,        \* where the command is
    batch,      \* index of the batch being submitted, then of the one polled
    attempts,   \* saturated or busy replies received for this batch
    flight,     \* requests on their way to the server
    warned      \* "Error polling" was printed

cliVars == <<cli, batch, attempts, flight, warned>>
allVars == <<vars, cliVars>>

CliOps  == {Batches[i] : i \in DOMAIN Batches}
Current == Batches[batch]
Exits   == {"exit_ok", "exit_error"}

CliInit ==
    /\ cli = "pacing"
    /\ batch = 1
    /\ attempts = 0
    /\ flight = {}
    /\ warned = FALSE

-----------------------------------------------------------------------------
(* Faults.                                                                 *)

\* A connection error treated like "busy": the batch is submitted again.
RetryAnyError ==
    /\ cli = "calling"
    /\ attempts < MaxAttempts
    /\ attempts' = attempts + 1
    /\ pc' = [pc EXCEPT ![Current] = "idle"]
    /\ flight' = {Current}
    /\ UNCHANGED <<counter, permits, waiters, status, cache, restarts, cli, batch, warned>>

\* A busy batch is skipped once the budget is spent.
SkipBusy ==
    /\ cli = "calling"
    /\ pc[Current] = "busy"
    /\ batch' = batch + 1
    /\ cli' = IF batch < Len(Batches) THEN "pacing" ELSE IF Wait THEN "polling" ELSE "exit_ok"
    /\ attempts' = 0
    /\ UNCHANGED <<vars, flight, warned>>

\* A pacing loop that ends only when the server has capacity.
PaceForever ==
    /\ cli = "pacing"
    /\ counter < Pacing
    /\ cli' = "calling"
    /\ attempts' = 0
    /\ flight' = flight \cup {Current}
    /\ UNCHANGED <<vars, batch, warned>>

\* A poll loop that stops only on "completed".
PollCompletedOnly ==
    /\ cli = "polling"
    /\ GetStatus(Current)
    /\ status[Current] = "completed"
    /\ IF batch < Len(Batches) THEN batch' = batch + 1 /\ UNCHANGED cli
                               ELSE cli' = "exit_ok" /\ UNCHANGED batch
    /\ UNCHANGED <<attempts, flight, warned>>

\* A poll loop that takes any reply for an answer.
PollAnyReply ==
    /\ cli = "polling"
    /\ IF Current \in Recorded THEN GetStatus(Current) ELSE UNCHANGED vars
    /\ batch' = batch + 1
    /\ cli' = IF batch < Len(Batches) THEN "polling" ELSE "exit_ok"
    /\ UNCHANGED <<attempts, flight, warned>>

-----------------------------------------------------------------------------
(* Submitting.                                                             *)

\* wait_for_capacity: below the threshold, or when the count cannot be read,
\* submit; while the server is saturated sleep and ask again, until RETRY_BUDGET
\* is spent and the batch is tried all the same.
Pace ==
    /\ cli = "pacing"
    /\ \E readable \in BOOLEAN :
          ~readable \/ counter < Pacing \/ attempts = MaxAttempts
    /\ cli' = "calling"
    /\ attempts' = 0
    /\ flight' = flight \cup {Current}
    /\ UNCHANGED <<vars, batch, warned>>

PaceWait ==
    /\ cli = "pacing"
    /\ counter >= Pacing
    /\ attempts < MaxAttempts
    /\ attempts' = attempts + 1
    /\ UNCHANGED <<vars, cli, batch, flight, warned>>

\* The next batch, or what comes after the last one.
Advance ==
    /\ attempts' = 0
    /\ IF batch < Len(Batches)
       THEN batch' = batch + 1 /\ cli' = "pacing"
       ELSE IF Wait THEN batch' = 1 /\ cli' = "polling"
                    ELSE batch' = batch /\ cli' = "exit_ok"

\* "queued" with an operation_id: SubmitOutcome::Tracked.
ReplyQueued ==
    /\ cli = "calling"
    /\ pc[Current] \in Task \cup {"done"}
    /\ Advance
    /\ UNCHANGED <<vars, flight, warned>>

\* "Server busy": back off and submit again, a new call with the same files.
ReplyBusyRetry ==
    /\ cli = "calling"
    /\ pc[Current] = "busy"
    /\ attempts < MaxAttempts
    /\ attempts' = attempts + 1
    /\ pc' = [pc EXCEPT ![Current] = "idle"]
    /\ flight' = flight \cup {Current}
    /\ UNCHANGED <<counter, permits, waiters, status, cache, restarts, cli, batch, warned>>

\* "Server busy" after RETRY_BUDGET: abort loudly.
ReplyBusyAbort ==
    /\ cli = "calling"
    /\ pc[Current] = "busy"
    /\ cli' = "exit_error"
    /\ UNCHANGED <<vars, batch, attempts, flight, warned>>

\* Any other error, a lost reply or a dead server among them: abort loudly.
\* The request may still reach the server, or may have been accepted already.
ReplyError ==
    /\ cli = "calling"
    /\ cli' = "exit_error"
    /\ UNCHANGED <<vars, batch, attempts, flight, warned>>

-----------------------------------------------------------------------------
(* Polling: poll_until_done for each tracked operation in turn.            *)

NextPoll ==
    IF batch < Len(Batches) THEN batch' = batch + 1 /\ UNCHANGED cli
                            ELSE cli' = "exit_ok" /\ UNCHANGED batch

\* A record with a terminal status ends the loop for this operation.
PollDone ==
    /\ cli = "polling"
    /\ GetStatus(Current)
    /\ status[Current] \in Terminal
    /\ NextPoll
    /\ UNCHANGED <<attempts, flight, warned>>

\* A record in an intermediate step: sleep and poll again.  (A reply without a
\* "status", such as "operation not found", polls again too and changes nothing.)
PollPending ==
    /\ cli = "polling"
    /\ GetStatus(Current)
    /\ status[Current] \notin Terminal
    /\ UNCHANGED cliVars

\* The call fails: print the error and go on to the next operation.
PollError ==
    /\ cli = "polling"
    /\ warned' = TRUE
    /\ NextPoll
    /\ UNCHANGED <<vars, attempts, flight>>

-----------------------------------------------------------------------------
(* The server's side.                                                      *)

\* A request of the CLI is received at most once per submission.
Receive(o) ==
    /\ o \in flight
    /\ Claim(o)
    /\ flight' = flight \ {o}
    /\ UNCHANGED <<cli, batch, attempts, warned>>

OtherClient(o) ==
    /\ o \notin CliOps
    /\ Claim(o) \/ GetStatus(o)
    /\ UNCHANGED cliVars

Serve(o) == (HandlerStep(o) \/ TaskStep(o)) /\ UNCHANGED cliVars

\* A restart drops the connections with their requests.
ServerRestart ==
    /\ Restart
    /\ flight' = {}
    /\ UNCHANGED <<cli, batch, attempts, warned>>

Submitting == Pace \/ PaceWait \/ ReplyQueued \/ ReplyBusyRetry \/ ReplyBusyAbort
CliNext ==
    \/ Submitting \/ ReplyError
    \/ PollDone \/ PollPending \/ PollError
    \/ \E o \in Ops : Receive(o) \/ OtherClient(o) \/ Serve(o)
    \/ ServerRestart

CliSpec == Init /\ CliInit /\ [][CliNext]_allVars

\* The command acts on the replies it gets, requests arrive unless the server
\* dies, its handlers return, and a call to a server that lost it fails.
SubmitFairness ==
    /\ WF_allVars(Submitting)
    /\ WF_allVars(ReplyError /\ flight = {} /\ pc[Current] \in {"idle", "lost"})
    /\ \A o \in Ops : /\ WF_allVars(Receive(o))
                      /\ WF_allVars(HandlerStep(o) /\ UNCHANGED cliVars)
\* The command also goes on polling.  The server's tasks may hang for ever.
CliFairness ==
    /\ SubmitFairness
    /\ WF_allVars(PollDone \/ PollPending)
CliFairSpec == CliSpec /\ CliFairness
\* A server whose tasks end.
CliServedSpec == CliFairSpec /\ \A o \in Ops : WF_allVars(Serve(o))

-----------------------------------------------------------------------------
(* Properties.                                                             *)

\* The server took the batch: its task exists, is over, or died with the server.
Accepted(o) == pc[o] \in Task \cup {"done", "lost"}

\* "a batch is never silently dropped": when the command ends well, or goes on
\* to wait, the server accepted every batch, however many busy replies, restarts
\* and rival clients it met on the way.
NothingDropped == cli \in {"polling", "exit_ok"} => \A o \in CliOps : Accepted(o)

\* A retry never resubmits files the server has already taken: an accepted call
\* is over before its batch could run again.
NoDoubleSubmission ==
    [][\A o \in CliOps : pc[o] \in Task \cup {"admitted"} => pc'[o] # "idle"]_allVars

\* With --wait and no polling error shown, success means that every operation
\* reached an outcome (which a server restart may have erased since).
WaitMeansDone ==
    cli = "exit_ok" /\ Wait /\ ~warned =>
        \A o \in CliOps : status[o] \in Terminal \/ restarts > 0

\* "rather than hanging forever (e.g. against a wedged worker)": the submission
\* ends, in success or in an error, even if no task of the server ever does.
SubmissionEnds == <>(cli \in {"polling"} \cup Exits)

\* "--wait: Wait for indexing to complete": a command that waits for operations
\* the server has all accepted returns.
WaitReturns == cli = "polling" ~> cli \in Exits

\* An operation whose outcome no poll will ever see: its record is gone, or its
\* task is over without one (index tasks own no PipelineGuard).
Lost(o) == o \notin Recorded \/ (pc[o] = "done" /\ status[o] \notin Terminal)

\* What WaitReturns comes down to in the code: once its tasks are over, a command
\* that waits returns, unless an operation's outcome is lost.
WaitReturnsUnlessLost ==
    (\A o \in CliOps : <>[](pc[o] \notin Task))
        => (cli = "polling" ~> (cli \in Exits \/ \E o \in CliOps : Lost(o)))

=============================================================================
