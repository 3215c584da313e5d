----------------------------- MODULE CliProofs -----------------------------
(***************************************************************************)
(* Proofs about the memcan command line: `index-code` against the queue    *)
(* (CliIndexing), for any batches, limits and rival clients, the commands  *)
(* of a few calls (CliCommands), for any transcripts and budgets, and the  *)
(* walk that makes the batches (CliWalk), for any trees and batch size.    *)
(***************************************************************************)
EXTENDS CliIndexing, CliCommands, CliWalk, CommonFacts, FiniteSetTheorems

\* A call that was never accepted, or not yet.
Early == {"idle", "busy", "overfull", "admitted"}

\* A call the server has not accepted has reported nothing.
NothingEarly ==
    /\ pc \in [Ops -> Phases] /\ status \in [Ops -> Steps] /\ restarts \in Nat
    /\ \A o \in Ops : pc[o] \in Early => status[o] = "none"

\* Where the command is, in its batches.
CliShape ==
    /\ cli \in {"pacing", "calling", "polling"} \cup Exits
    /\ Batches # <<>> => batch \in DOMAIN Batches
    /\ cli = "polling" => Wait

\* All batches before this one were accepted, all once it goes on to wait.
TakenSoFar ==
    \A i \in DOMAIN Batches :
        cli \in {"polling", "exit_ok"} \/ (cli \in {"pacing", "calling"} /\ i < batch)
            => Accepted(Batches[i])

\* All operations before the one it polls have reached an outcome.
SettledSoFar ==
    \A i \in DOMAIN Batches :
        (cli = "polling" /\ i < batch) \/ (cli = "exit_ok" /\ Wait)
            => warned \/ restarts > 0 \/ status[Batches[i]] \in Terminal

CliInv == NothingEarly /\ CliShape /\ TakenSoFar /\ SettledSoFar

LEMMA BatchFacts ==
    /\ DOMAIN Batches = 1..Len(Batches) /\ Len(Batches) \in Nat
    /\ \A i \in DOMAIN Batches : Batches[i] \in Ops
    /\ CliOps \subseteq Ops
BY BatchesAssumption DEF CliOps

\* A step of the server: what was accepted stays so, and an outcome is kept
\* until a restart.
Serves ==
    /\ \A o \in Ops : Accepted(o) => pc'[o] \in Task \cup {"done", "lost"}
    /\ \A o \in Ops : status[o] \in Terminal => status'[o] \in Terminal \/ restarts' > 0
    /\ restarts' \in Nat /\ restarts' >= restarts
    /\ \A o \in Ops : pc[o] \in Task \cup {"admitted"} => pc'[o] # "idle"

LEMMA TaskSteps ==
    ASSUME NothingEarly, NEW o \in Ops, TaskStep(o)
    PROVE  NothingEarly' /\ Serves
<1> USE DEF NothingEarly, Serves, Accepted, Task, Early, Phases, Handler, Terminal, Steps
<1>1. CASE Acquire(o)
  BY <1>1 DEF Acquire
<1>2. CASE StartStep(o)
  BY <1>2 DEF StartStep
<1>3. CASE Finish(o)
  BY <1>3 DEF Finish
<1>4. CASE Panic(o)
  BY <1>4 DEF Panic
<1>5. CASE ReleasePermit(o)
  <2>1. UNCHANGED <<status, restarts>>
    BY <1>5 DEF ReleasePermit
  <2>2. pc' \in [Ops -> Phases] /\ \A q \in Ops : pc'[q] \in {pc[q], "released", "running"}
    BY <1>5 DEF ReleasePermit
  <2>3. \A q \in Ops : pc'[q] # pc[q] => q = o \/ (waiters # <<>> /\ q = Head(waiters))
    BY <1>5 DEF ReleasePermit
  <2>4. QED BY <2>1, <2>2, <2>3
<1>6. CASE DropTaskGuard(o)
  BY <1>6 DEF DropTaskGuard
<1>7. CASE DropPipelineGuard(o)
  BY <1>7 DEF DropPipelineGuard
<1>8. QED BY <1>1, <1>2, <1>3, <1>4, <1>5, <1>6, <1>7 DEF TaskStep

LEMMA ServerSteps ==
    ASSUME NothingEarly, [Next]_vars PROVE NothingEarly' /\ Serves
<1> USE DEF NothingEarly, Serves, Accepted, Task, Early, Phases, Handler, Terminal, Steps
<1>1. ASSUME NEW o \in Ops, Claim(o) PROVE NothingEarly' /\ Serves
  BY <1>1 DEF Claim
<1>2. ASSUME NEW o \in Ops, HandlerStep(o) PROVE NothingEarly' /\ Serves
  BY <1>2 DEF HandlerStep, UndoClaim, Register
<1>3. ASSUME NEW o \in Ops, GetStatus(o) PROVE NothingEarly' /\ Serves
  BY <1>3 DEF GetStatus
<1>4. CASE Restart
  BY <1>4 DEF Restart
<1>5. CASE UNCHANGED vars
  BY <1>5 DEF vars
<1>6. QED BY <1>1, <1>2, <1>3, <1>4, <1>5, TaskSteps DEF Next

\* The command's place and the server's step do not disturb each other.
LEMMA Beside ==
    ASSUME CliInv, NothingEarly', Serves, UNCHANGED <<cli, batch, warned>> PROVE CliInv'
<1>1. CliShape'
  BY DEF CliInv, CliShape, Exits
<1>2. TakenSoFar'
  BY BatchFacts DEF CliInv, TakenSoFar, Serves, Accepted
<1>3. SettledSoFar'
  <2>1. restarts > 0 => restarts' > 0
    BY DEF Serves, CliInv, NothingEarly
  <2>2. QED BY <2>1, BatchFacts DEF CliInv, SettledSoFar, Serves
<1>4. QED BY <1>1, <1>2, <1>3 DEF CliInv

LEMMA CliStep == CliInv /\ [CliNext]_allVars => CliInv'
<1> SUFFICES ASSUME CliInv, [CliNext]_allVars PROVE CliInv'
  OBVIOUS
<1> USE BatchFacts
<1>0. NothingEarly /\ CliShape /\ TakenSoFar /\ SettledSoFar
  BY DEF CliInv
<1>1. CASE Pace \/ PaceWait \/ ReplyBusyAbort \/ ReplyError
  <2>1. UNCHANGED <<vars, batch, warned>>
    BY <1>1 DEF Pace, PaceWait, ReplyBusyAbort, ReplyError
  <2>2. \/ cli \in {"pacing", "calling"} /\ cli' \in {"pacing", "calling"}
        \/ cli' = "exit_error"
    BY <1>1 DEF Pace, PaceWait, ReplyBusyAbort, ReplyError
  <2>3. QED BY <1>0, <2>1, <2>2 DEF CliInv, NothingEarly, CliShape, TakenSoFar, SettledSoFar, Accepted, Exits, vars
<1>2. CASE ReplyQueued
  <2>1. cli = "calling" /\ Accepted(Current) /\ Advance /\ UNCHANGED <<vars, warned>>
    BY <1>2 DEF ReplyQueued, Accepted
  <2>2. NothingEarly'
    BY <1>0, <2>1 DEF NothingEarly, vars
  <2>3. \A i \in DOMAIN Batches : i <= batch => Accepted(Batches[i])'
    BY <1>0, <2>1 DEF TakenSoFar, CliShape, Accepted, Current, vars
  <2>4. CASE batch < Len(Batches)
    <3>1. batch' = batch + 1 /\ cli' = "pacing"
      BY <2>1, <2>4 DEF Advance
    <3>2. CliShape' /\ SettledSoFar'
      BY <1>0, <2>1, <2>4, <3>1 DEF CliShape, SettledSoFar, Exits
    <3>3. TakenSoFar'
      BY <1>0, <2>3, <2>4, <3>1 DEF CliShape, TakenSoFar
    <3>4. QED BY <2>2, <3>2, <3>3 DEF CliInv
  <2>5. CASE ~(batch < Len(Batches))
    <3>1. \A i \in DOMAIN Batches : Accepted(Batches[i])'
      BY <1>0, <2>3, <2>5 DEF CliShape
    <3>2. (cli' = "polling" /\ Wait /\ batch' = 1) \/ (cli' = "exit_ok" /\ ~Wait /\ batch' = batch)
      BY <2>1, <2>5 DEF Advance
    <3>3. CliShape'
      BY <1>0, <3>2 DEF CliShape, Exits
    <3>4. SettledSoFar'
      BY <3>2 DEF SettledSoFar
    <3>5. QED BY <2>2, <3>1, <3>3, <3>4 DEF CliInv, TakenSoFar
  <2>6. QED BY <2>4, <2>5
<1>3. CASE ReplyBusyRetry
  <2>1. /\ pc[Current] = "busy" /\ pc' = [pc EXCEPT ![Current] = "idle"]
        /\ UNCHANGED <<status, restarts, cli, batch, warned>>
    BY <1>3 DEF ReplyBusyRetry
  <2>2. NothingEarly'
    BY <1>0, <2>1 DEF NothingEarly, Early, Phases
  <2>3. \A i \in DOMAIN Batches : Accepted(Batches[i]) => Accepted(Batches[i])'
    BY <1>0, <2>1 DEF NothingEarly, Accepted, Task
  <2>4. CliShape' /\ TakenSoFar' /\ SettledSoFar'
    BY <1>0, <2>1, <2>3 DEF CliShape, TakenSoFar, SettledSoFar
  <2>5. QED BY <2>2, <2>4 DEF CliInv
<1>4. CASE PollDone \/ PollError
  <2>1. cli = "polling" /\ NextPoll
    BY <1>4 DEF PollDone, PollError
  <2>2. UNCHANGED <<pc, status, restarts>>
    BY <1>4 DEF PollDone, PollError, GetStatus, vars
  <2>3. warned' \/ (warned' = warned /\ status[Current] \in Terminal)
    BY <1>4 DEF PollDone, PollError
  <2>4. NothingEarly' /\ \A i \in DOMAIN Batches : Accepted(Batches[i])'
    BY <1>0, <2>1, <2>2 DEF NothingEarly, TakenSoFar, Accepted
  <2>5. \A i \in DOMAIN Batches : i <= batch => warned' \/ restarts' > 0 \/ status'[Batches[i]] \in Terminal
    BY <1>0, <2>1, <2>2, <2>3 DEF SettledSoFar, CliShape, Current
  <2>6. CASE batch < Len(Batches)
    <3>1. batch' = batch + 1 /\ cli' = "polling"
      BY <2>1, <2>6 DEF NextPoll
    <3>2. CliShape' /\ SettledSoFar'
      BY <1>0, <2>1, <2>5, <2>6, <3>1 DEF CliShape, SettledSoFar
    <3>3. QED BY <2>4, <3>2 DEF CliInv, TakenSoFar
  <2>7. CASE ~(batch < Len(Batches))
    <3>1. batch' = batch /\ cli' = "exit_ok"
      BY <2>1, <2>7 DEF NextPoll
    <3>2. CliShape' /\ SettledSoFar'
      BY <1>0, <2>1, <2>5, <2>7, <3>1 DEF CliShape, SettledSoFar, Exits
    <3>3. QED BY <2>4, <3>2 DEF CliInv, TakenSoFar
  <2>8. QED BY <2>6, <2>7
<1>5. ASSUME [Next]_vars, UNCHANGED <<cli, batch, warned>> PROVE CliInv'
  BY <1>0, <1>5, ServerSteps, Beside
<1>6. CASE PollPending
  <2>1. CASE Current \in Ops
    BY <1>5, <1>6, <2>1 DEF PollPending, Next, cliVars
  <2>2. CASE Current \notin Ops
    BY <1>0, <1>6, <2>2 DEF PollPending, GetStatus, cliVars, CliInv, NothingEarly, CliShape, TakenSoFar, SettledSoFar, Accepted
  <2>3. QED BY <2>1, <2>2
<1>7. ASSUME NEW o \in Ops, Receive(o) \/ OtherClient(o) \/ Serve(o) PROVE CliInv'
  BY <1>5, <1>7 DEF Receive, OtherClient, Serve, Next, cliVars
<1>8. CASE ServerRestart
  BY <1>5, <1>8 DEF ServerRestart, Next
<1>9. CASE UNCHANGED allVars
  BY <1>5, <1>9 DEF allVars, cliVars
<1>10. QED BY <1>1, <1>2, <1>3, <1>4, <1>6, <1>7, <1>8, <1>9 DEF CliNext, Submitting

LEMMA CliInvInit == Init /\ CliInit => CliInv
<1> SUFFICES ASSUME Init, CliInit PROVE CliInv
  OBVIOUS
<1>1. NothingEarly
  BY DEF Init, NothingEarly, Phases, Steps
<1>2. CliShape
  BY BatchFacts DEF CliInit, CliShape
<1>3. TakenSoFar /\ SettledSoFar
  BY BatchFacts DEF CliInit, TakenSoFar, SettledSoFar
<1>4. QED BY <1>1, <1>2, <1>3 DEF CliInv

\* When the command ends well or goes on to wait, the server accepted every batch,
\* whatever refusals, restarts and rival clients there were.
THEOREM NothingDroppedThm == CliSpec => []NothingDropped
<1>1. CliInv => NothingDropped
  BY DEF CliInv, TakenSoFar, NothingDropped, CliOps
<1>2. QED BY <1>1, CliInvInit, CliStep, PTL DEF CliSpec

\* A command that waited and showed no polling error has an outcome for every
\* operation, or the server was restarted.
THEOREM WaitMeansDoneThm == CliSpec => []WaitMeansDone
<1>1. CliInv => WaitMeansDone
  BY DEF CliInv, SettledSoFar, WaitMeansDone, CliOps
<1>2. QED BY <1>1, CliInvInit, CliStep, PTL DEF CliSpec

\* What is in the queue, or was just admitted, is not submitted again.
LEMMA NoResubmission ==
    ASSUME CliInv, [CliNext]_allVars, NEW o \in CliOps, pc[o] \in Task \cup {"admitted"}
    PROVE  pc'[o] # "idle"
<1> USE BatchFacts
<1>0. NothingEarly /\ o \in Ops
  BY DEF CliInv
<1>1. ASSUME [Next]_vars PROVE pc'[o] # "idle"
  BY <1>0, <1>1, ServerSteps DEF Serves
<1>2. CASE ReplyBusyRetry
  BY <1>0, <1>2 DEF ReplyBusyRetry, NothingEarly, Task
<1>3. CASE Pace \/ PaceWait \/ ReplyQueued \/ ReplyBusyAbort \/ ReplyError \/ PollError \/ UNCHANGED allVars
  BY <1>1, <1>3 DEF Pace, PaceWait, ReplyQueued, ReplyBusyAbort, ReplyError, PollError, allVars
<1>4. CASE PollDone \/ PollPending
  BY <1>0, <1>4 DEF PollDone, PollPending, GetStatus, Task
<1>5. ASSUME NEW q \in Ops, Receive(q) \/ OtherClient(q) \/ Serve(q) PROVE pc'[o] # "idle"
  BY <1>1, <1>5 DEF Receive, OtherClient, Serve, Next
<1>6. CASE ServerRestart
  BY <1>1, <1>6 DEF ServerRestart, Next
<1>7. QED BY <1>2, <1>3, <1>4, <1>5, <1>6 DEF CliNext, Submitting

\* A retry never resubmits a batch the server has admitted or is working on.
THEOREM NoDoubleSubmissionThm == CliSpec => NoDoubleSubmission
<1>1. CliInv /\ [CliNext]_allVars
          => [\A o \in CliOps : pc[o] \in Task \cup {"admitted"} => pc'[o] # "idle"]_allVars
  BY NoResubmission
<1>2. QED BY <1>1, CliInvInit, CliStep, PTL DEF CliSpec, NoDoubleSubmission

-----------------------------------------------------------------------------
(* The commands of a few calls.                                            *)

Sending(chunk) == [chunk |-> chunk, project |-> ResolveProject(input.cwd)]
TakenUpTo(n)   == {Sending(ToSend[k]) : k \in 1..n}
RestFrom(n)    == SubSeq(ToSend, n + 1, Len(ToSend))

\* The positions a filter keeps, each once.
LEMMA KeptFacts ==
    ASSUME NEW t \in Seq([is : Sayings, size : Nat])
    PROVE  /\ Kept(t) \in Seq(DOMAIN t) /\ Distinct(Kept(t))
           /\ \A i \in DOMAIN t : t[i].is = "substance" =>
                 \E j \in 1..Len(Kept(t)) : Kept(t)[j] = i
<1> DEFINE S == DOMAIN t
           seq == [i \in DOMAIN t |-> i]
           set == {i \in DOMAIN t : t[i].is = "substance"}
<1>1. DOMAIN t = 1..Len(t) /\ Len(t) \in Nat
  OBVIOUS
<1>2. seq \in Seq(S) /\ Len(seq) = Len(t) /\ \A i \in 1..Len(t) : seq[i] = i
  <2>1. seq = [i \in 1..Len(t) |-> i] /\ S = 1..Len(t)
    BY <1>1
  <2>2. QED BY <1>1, <2>1
<1>3. Distinct(seq)
  <2> HIDE DEF seq
  <2> QED BY <1>2 DEF Distinct
<1>4. Kept(t) = Keep(seq, set)
  BY DEF Kept
<1> HIDE DEF seq, set
<1>5. /\ Keep(seq, set) \in Seq(S)
      /\ \A i \in 1..Len(seq) : seq[i] \in set =>
            \E j \in 1..Len(Keep(seq, set)) : Keep(seq, set)[j] = seq[i]
  BY <1>2, KeepFacts
<1>6. Distinct(Keep(seq, set))
  BY <1>2, <1>3, KeepDistinct
<1>7. \A i \in DOMAIN t : t[i].is = "substance" => seq[i] \in set /\ seq[i] = i
  BY <1>1, <1>2 DEF set
<1>8. QED BY <1>1, <1>2, <1>4, <1>5, <1>6, <1>7

\* What the hook is about to send: every message wanted, each in one chunk; none
\* of several messages that is over the budget.
SendsAll ==
    /\ ToSend \in Seq(Seq(Nat))
    /\ \A i \in Wanted : \E k \in 1..Len(ToSend) : i \in Range(ToSend[k])
    /\ \A k, l \in 1..Len(ToSend) : Range(ToSend[k]) \cap Range(ToSend[l]) # {} => k = l
    /\ \A k \in 1..Len(ToSend) : Len(ToSend[k]) > 1 => Size(input.said, ToSend[k]) <= MaxChars

SubstanceIn(t, c) ==
    /\ c \in Seq(Seq(Nat))
    /\ \A i \in DOMAIN t : t[i].is = "substance" => \E k \in 1..Len(c) : i \in Range(c[k])
    /\ \A k, l \in 1..Len(c) : Range(c[k]) \cap Range(c[l]) # {} => k = l
    /\ \A k \in 1..Len(c) : Len(c[k]) > 1 => Size(t, c[k]) <= MaxChars

LEMMA ChunkedSends ==
    ASSUME NEW t \in Seq([is : Sayings, size : Nat]), NEW c, c = Chunked(t, Kept(t))
    PROVE  SubstanceIn(t, c)
<1> DEFINE S == DOMAIN t
           kept == Kept(t)
           fitting == {d \in Seq(DOMAIN t) : Size(t, d) <= MaxChars}
<1>1. /\ kept \in Seq(S) /\ Distinct(kept)
      /\ \A i \in S : t[i].is = "substance" => \E j \in 1..Len(kept) : kept[j] = i
  BY KeptFacts
<1>2. c = InChunks(kept, fitting)
  BY DEF Chunked
<1>3. \A d \in fitting : Size(t, d) <= MaxChars
  OBVIOUS
<1> HIDE DEF kept, fitting
<1>4. ChunksOf(S, kept, fitting, Len(kept), c)
  BY <1>1, <1>2, InChunksFacts
<1>5. S \subseteq Nat
  OBVIOUS
<1>6. c \in Seq(Seq(S)) /\ \A k \in 1..Len(c) : c[k] \in Seq(S) /\ Range(c[k]) = {c[k][p] : p \in 1..Len(c[k])}
  <2>1. c \in Seq(Seq(S))
    BY <1>4 DEF ChunksOf
  <2>2. \A k \in 1..Len(c) : c[k] \in Seq(S)
    BY <2>1
  <2>3. \A s \in Seq(S) : Range(s) = {s[p] : p \in 1..Len(s)}
    BY DEF Range
  <2>4. QED BY <2>1, <2>2, <2>3
<1>7. c \in Seq(Seq(Nat))
  <2>1. Seq(S) \subseteq Seq(Nat)
    BY <1>5, SeqMonotonic
  <2>2. Seq(Seq(S)) \subseteq Seq(Seq(Nat))
    BY <2>1, SeqMonotonic
  <2>3. QED BY <1>6, <2>2
<1>8. ASSUME NEW i \in S, t[i].is = "substance" PROVE \E k \in 1..Len(c) : i \in Range(c[k])
  <2>1. PICK j \in 1..Len(kept) : kept[j] = i
    BY <1>1, <1>8
  <2>2. PICK a, p : Place(c, a, p) /\ c[a][p] = kept[j]
    BY <1>4 DEF ChunksOf
  <2>3. a \in 1..Len(c) /\ p \in 1..Len(c[a]) /\ c[a][p] = i
    BY <2>1, <2>2 DEF Place
  <2>4. QED BY <1>6, <2>3
<1>9. ASSUME NEW k \in 1..Len(c), NEW l \in 1..Len(c), Range(c[k]) \cap Range(c[l]) # {} PROVE k = l
  <2>1. PICK p \in 1..Len(c[k]), q \in 1..Len(c[l]) : c[k][p] = c[l][q]
    <3>1. PICK x : x \in Range(c[k]) /\ x \in Range(c[l])
      BY <1>9
    <3>2. \A j \in 1..Len(c) : x \in Range(c[j]) => \E p \in 1..Len(c[j]) : c[j][p] = x
      <4> TAKE j \in 1..Len(c)
      <4>1. Range(c[j]) = {c[j][p] : p \in 1..Len(c[j])}
        BY <1>6
      <4>2. QED BY <4>1
    <3>3. QED BY <3>1, <3>2
  <2>2. Place(c, k, p) /\ Place(c, l, q)
    BY DEF Place
  <2>3. QED BY <1>4, <2>1, <2>2 DEF ChunksOf
<1>10. \A k \in 1..Len(c) : Len(c[k]) > 1 => Size(t, c[k]) <= MaxChars
  BY <1>3, <1>4 DEF ChunksOf
<1>11. QED BY <1>7, <1>8, <1>9, <1>10 DEF SubstanceIn

LEMMA HookSends ==
    ASSUME input \in HookInputs
    PROVE  SendsAll
<1> DEFINE t == input.said
           c == ToSend
<1>1. t \in Seq([is : Sayings, size : Nat]) /\ DOMAIN t = 1..Len(t) /\ Len(t) \in Nat
  <2>1. input.said \in Transcripts
    BY DEF HookInputs
  <2>2. input.said \in Seq([is : Sayings, size : Nat])
    BY <2>1, CommandsAssumption
  <2>3. QED BY <2>2
<1>2. CASE input.event = "SubagentStop" /\ (t = <<>> \/ Head(t).is = "short")
  <2>1. c = <<>>
    BY <1>2 DEF ToSend
  <2>2. Wanted = {}
    <3>1. Wanted = {i \in {1} \cap DOMAIN t : t[i].is # "short"}
      BY <1>2 DEF Wanted
    <3>2. QED BY <1>1, <1>2, <3>1
  <2>3. QED BY <2>1, <2>2 DEF SendsAll
<1>3. CASE input.event = "SubagentStop" /\ ~(t = <<>> \/ Head(t).is = "short")
  <2>1. c = <<<<1>>>>
    BY <1>3 DEF ToSend
  <2>2. Wanted \subseteq {1}
    BY <1>3 DEF Wanted
  <2>3. c \in Seq(Seq(Nat)) /\ Len(c) = 1 /\ c[1] = <<1>>
    BY <2>1
  <2>4. Range(<<1>>) = {1} /\ ~(Len(<<1>>) > 1)
    BY DEF Range
  <2> HIDE DEF c
  <2>5. \A k \in 1..Len(c) : k = 1
    BY <2>3
  <2>6. c = ToSend
    BY DEF c
  <2>7. 1 \in 1..Len(c)
    BY <2>3
  <2>8. \A i \in Wanted : \E k \in 1..Len(c) : i \in Range(c[k])
    BY <2>2, <2>3, <2>4, <2>7
  <2>9. \A k \in 1..Len(c) : ~(Len(c[k]) > 1)
    BY <2>3, <2>4, <2>5, Zenon
  <2>10. QED BY <2>3, <2>5, <2>6, <2>8, <2>9 DEF SendsAll
<1>4. CASE input.event = "PreCompact" /\ input.transcript = "fine"
  <2>1. c = Chunked(t, Kept(t))
    BY <1>4 DEF ToSend
  <2>2. Wanted = {i \in DOMAIN t : t[i].is = "substance"}
    BY <1>4 DEF Wanted
  <2>3. ASSUME NEW u, u = t, NEW d, d = c PROVE SubstanceIn(u, d)
    <3>1. u \in Seq([is : Sayings, size : Nat]) /\ d = Chunked(u, Kept(u))
      BY <1>1, <2>1, <2>3
    <3> HIDE DEF c, t
    <3> QED BY <3>1, ChunkedSends
  <2>4. SubstanceIn(t, c)
    <3> HIDE DEF c, t
    <3> QED BY <2>3
  <2>5. QED BY <2>2, <2>4 DEF SubstanceIn, SendsAll
<1>5. CASE input.event # "SubagentStop" /\ ~(input.event = "PreCompact" /\ input.transcript = "fine")
  <2>1. c = <<>> /\ Wanted = {}
    BY <1>5 DEF ToSend, Wanted
  <2>2. QED BY <2>1 DEF SendsAll
<1>6. QED BY <1>2, <1>3, <1>4, <1>5
\* What the command is, and the hook's way: it has dealt with the first n of its
\* chunks and, unless it said that it failed, handed each of them over.
CommandShape ==
    /\ input \in HookInputs \cup OtherInputs
    /\ place \in {"start", "connecting", "sending", "calling", "polling", "exit"}
    /\ place = "sending" => input.command = "extract"
    /\ place \in {"calling", "polling"} => input.command # "extract"
    /\ place = "polling" => input.command = "index-standards"

SoFar(n) == taken = TakenUpTo(n) /\ chunks = RestFrom(n)
HookShape ==
    /\ input.command # "extract" => taken = {}
    /\ place = "start" => taken = {}
    /\ input.command = "extract" =>
         /\ taken \subseteq TakenUpTo(Len(ToSend))
         /\ place \in {"connecting", "sending"} => \E n \in 0..Len(ToSend) : SoFar(n)
         /\ place = "exit" /\ ~told => taken = TakenUpTo(Len(ToSend))

OutcomeShape ==
    place = "exit" /\ ~told /\ input.command = "index-standards" /\ input.wait =>
        record \in Outcomes /\ (exit = 1 <=> record = "failed")

CommandsInv == CommandShape /\ HookShape /\ OutcomeShape

LEMMA CommandsInvInit == CommandsInit => CommandsInv
<1> SUFFICES ASSUME CommandsInit PROVE CommandsInv
  OBVIOUS
<1>1. CommandShape /\ OutcomeShape
  BY DEF CommandsInit, CommandShape, OutcomeShape
<1>2. HookShape
  BY DEF CommandsInit, HookShape
<1>3. QED BY <1>1, <1>2 DEF CommandsInv

\* A hook's input is one of those it may be given.
LEMMA HookInput ==
    ASSUME CommandShape, input.command = "extract"
    PROVE  input \in HookInputs
BY DEF CommandShape, OtherInputs, Commands

\* What there is to send does not change.
LEMMA SameToSend ==
    ASSUME input' = input
    PROVE  /\ ToSend' = ToSend /\ Len(ToSend)' = Len(ToSend)
           /\ \A n : TakenUpTo(n)' = TakenUpTo(n)
           /\ \A n : RestFrom(n)' = RestFrom(n)
<1>1. ToSend' = ToSend
  BY DEF ToSend
<1>2. \A n : TakenUpTo(n)' = TakenUpTo(n)
  BY <1>1 DEF TakenUpTo, Sending
<1>3. QED BY <1>1, <1>2 DEF RestFrom

\* The next chunk to send, and what is left after it.
LEMMA NextChunk ==
    ASSUME ToSend \in Seq(Seq(Nat)), NEW n \in 0..Len(ToSend), SoFar(n)
    PROVE  /\ chunks = <<>> => n = Len(ToSend)
           /\ chunks # <<>> => /\ n + 1 \in 0..Len(ToSend)
                               /\ Tail(chunks) = RestFrom(n + 1)
                               /\ taken \cup {Memory} = TakenUpTo(n + 1)
                               /\ Memory \in TakenUpTo(Len(ToSend))
<1> DEFINE c == ToSend
<1>0. c \in Seq(Seq(Nat)) /\ Len(c) \in Nat /\ n \in 0..Len(c) /\ chunks = SubSeq(c, n + 1, Len(c))
      /\ taken = {Sending(c[k]) : k \in 1..n} /\ TakenUpTo(n + 1) = {Sending(c[k]) : k \in 1..n + 1}
      /\ TakenUpTo(Len(ToSend)) = {Sending(c[k]) : k \in 1..Len(c)} /\ RestFrom(n + 1) = SubSeq(c, (n + 1) + 1, Len(c))
  BY DEF SoFar, RestFrom, TakenUpTo
<1> HIDE DEF c
<1>1. CASE n < Len(c)
  <2>1. n + 1 \in 1..Len(c) /\ Len(c) \in n + 1 .. Len(c)
    BY <1>0, <1>1
  <2>2. Head(chunks) = c[n + 1] /\ Tail(chunks) = SubSeq(c, (n + 1) + 1, Len(c))
    BY <1>0, <2>1, HeadTailOfSubSeq
  <2>3. chunks # <<>>
    <3>1. Len(chunks) = Len(c) - (n + 1) + 1
      <4>1. \A i \in n + 1 .. Len(c) : c[i] \in Seq(Nat)
        BY <1>0
      <4>2. QED BY <1>0, <1>1, <4>1, SubSeqProperties
    <3>2. Len(chunks) > 0 /\ Len(<<>>) = 0
      BY <1>0, <1>1, <3>1
    <3>3. QED BY <3>2
  <2>4. Memory = Sending(c[n + 1])
    BY <2>2 DEF Memory, Sending
  <2>5. \A k : k \in 1..n + 1 <=> k \in 1..n \/ k = n + 1
    BY <1>0
  <2>6. taken \cup {Memory} = TakenUpTo(n + 1)
    BY <1>0, <2>4, <2>5
  <2>7. Memory \in TakenUpTo(Len(ToSend))
    BY <1>0, <2>1, <2>4
  <2>8. Tail(chunks) = RestFrom(n + 1) /\ n + 1 \in 0..Len(c)
    <3>1. Tail(chunks) = RestFrom(n + 1)
      BY <1>0, <2>2, Zenon
    <3>2. n + 1 \in 0..Len(c)
      BY <2>1, <1>0
    <3>3. QED BY <3>1, <3>2
  <2>9. n + 1 \in 0..Len(ToSend)
    BY <2>8 DEF c
  <2>10. QED BY <2>3, <2>6, <2>7, <2>8, <2>9
<1>2. CASE n = Len(c)
  <2>1. chunks = <<>>
    BY <1>0, <1>2, SubSeqEmpty
  <2>2. n = Len(ToSend)
    BY <1>2 DEF c
  <2>3. QED BY <2>1, <2>2
<1>3. n < Len(c) \/ n = Len(c)
  BY <1>0
<1>4. QED BY <1>1, <1>2, <1>3

LEMMA ShapeStep == CommandShape /\ [CommandsNext]_mvars => CommandShape'
<1> SUFFICES ASSUME CommandShape, [CommandsNext]_mvars PROVE CommandShape'
  OBVIOUS
<1> USE DEF CommandShape
<1>1. CASE Extract
  BY <1>1 DEF Extract, Stop
<1>2. CASE Sent \/ SendFailed \/ AllSent
  BY <1>2 DEF Sent, SendFailed, AllSent, Stop
<1>3. CASE Begin \/ Connect \/ ConnectFailed
  BY <1>3 DEF Begin, Connect, ConnectFailed, Stop
<1>4. CASE CallOnce \/ PollOutcome \/ PollFailed
  BY <1>4 DEF CallOnce, PollOutcome, PollFailed, Stop
<1>5. CASE Submit
  BY <1>5 DEF Submit, Stop
<1>6. CASE Progress
  BY <1>6 DEF Progress
<1>7. CASE UNCHANGED mvars
  BY <1>7 DEF mvars
<1>8. QED BY <1>1, <1>2, <1>3, <1>4, <1>5, <1>6, <1>7 DEF CommandsNext

LEMMA OutcomeStep ==
    CommandShape /\ OutcomeShape /\ [CommandsNext]_mvars => OutcomeShape'
<1> SUFFICES ASSUME CommandShape, OutcomeShape, [CommandsNext]_mvars PROVE OutcomeShape'
  OBVIOUS
<1> USE DEF OutcomeShape
<1>1. CASE Extract
  BY <1>1 DEF Extract
<1>2. CASE Sent \/ SendFailed \/ AllSent
  BY <1>2 DEF Sent, SendFailed, AllSent, Stop, CommandShape
<1>3. CASE Begin \/ Connect \/ ConnectFailed \/ PollFailed
  BY <1>3 DEF Begin, Connect, ConnectFailed, PollFailed, Stop
<1>4. CASE CallOnce
  BY <1>4 DEF CallOnce, Commands
<1>5. CASE PollOutcome
  BY <1>5 DEF PollOutcome, Stop
<1>6. CASE Submit
  BY <1>6 DEF Submit, Stop
<1>7. CASE Progress
  <2>1. CASE place = "exit" /\ record \in Outcomes
    BY <1>7, <2>1 DEF Progress, Outcomes
  <2>2. CASE ~(place = "exit" /\ record \in Outcomes)
    BY <1>7, <2>2 DEF Progress
  <2>3. QED BY <2>1, <2>2
<1>8. CASE UNCHANGED mvars
  BY <1>8 DEF mvars
<1>9. QED BY <1>1, <1>2, <1>3, <1>4, <1>5, <1>6, <1>7, <1>8 DEF CommandsNext

LEMMA HookStep ==
    CommandShape /\ HookShape /\ [CommandsNext]_mvars => HookShape'
<1> SUFFICES ASSUME CommandShape, HookShape, [CommandsNext]_mvars PROVE HookShape'
  OBVIOUS
<1>0. input' = input
  BY DEF CommandsNext, mvars, Extract, Sent, SendFailed, AllSent, Begin, Connect, ConnectFailed,
         CallOnce, Submit, PollOutcome, PollFailed, Progress
<1>1. CASE input.command # "extract"
  <2>1. taken' = taken
    BY <1>1 DEF CommandsNext, mvars, Extract, Sent, SendFailed, AllSent, Begin, Connect, ConnectFailed,
                CallOnce, Submit, PollOutcome, PollFailed, Progress, CommandShape
  <2>2. QED BY <1>0, <1>1, <2>1 DEF HookShape
<1>2. CASE input.command = "extract"
  <2> DEFINE c == ToSend
             upto == [n \in Nat |-> TakenUpTo(n)]
  <2>0. c \in Seq(Seq(Nat)) /\ Len(c) \in Nat
    BY <1>2, HookInput, HookSends DEF SendsAll
  <2>1. /\ ToSend' = c /\ \A n : TakenUpTo(n)' = TakenUpTo(n) /\ RestFrom(n)' = RestFrom(n)
    BY <1>0, SameToSend
  <2>2. /\ taken \subseteq TakenUpTo(Len(c))
        /\ place \in {"connecting", "sending"} => \E n \in 0..Len(c) : SoFar(n)
        /\ place = "exit" /\ ~told => taken = TakenUpTo(Len(c))
        /\ place = "start" => taken = {}
    BY <1>2 DEF HookShape
  <2>3. SUFFICES /\ place' # "start" \/ taken' = {}
                 /\ taken' \subseteq TakenUpTo(Len(c))
                 /\ place' \in {"connecting", "sending"} =>
                        \E n \in 0..Len(c) : taken' = TakenUpTo(n) /\ chunks' = RestFrom(n)
                 /\ place' = "exit" /\ ~told' => taken' = TakenUpTo(Len(c))
    BY <1>0, <1>2, <2>1 DEF HookShape, SoFar
  <2>4. CASE Extract
    <3>1. taken' = {} /\ place' # "start" /\ TakenUpTo(0) = {}
      BY <2>2, <2>4 DEF Extract, Stop, TakenUpTo
    <3>2. CASE place' = "exit"
      <4>1. ~told' => c = <<>>
        BY <2>4, <3>2 DEF Extract, Stop
      <4>2. QED BY <3>1, <3>2, <4>1
    <3>3. CASE place' # "exit"
      <4>1. chunks' = c
        BY <2>4, <3>3 DEF Extract, Stop
      <4>2. RestFrom(0) = c
        BY <2>0, SubSeqFull DEF RestFrom
      <4>3. 0 \in 0..Len(c)
        BY <2>0
      <4>4. QED BY <3>1, <3>3, <4>1, <4>2, <4>3
    <3>4. QED BY <3>2, <3>3
  <2>5. CASE Sent
    <3>1. PICK n \in 0..Len(c) : SoFar(n)
      BY <2>2, <2>5 DEF Sent
    <3>2. /\ n + 1 \in 0..Len(c) /\ Tail(chunks) = RestFrom(n + 1)
          /\ taken \cup {Memory} = TakenUpTo(n + 1) /\ Memory \in TakenUpTo(Len(c))
      BY <2>0, <2>5, <3>1, NextChunk DEF Sent
    <3>3. /\ chunks' = Tail(chunks) /\ taken' = taken \cup {Memory} /\ place' = "sending"
      BY <2>5 DEF Sent
    <3> HIDE DEF c
    <3>4. QED BY <2>2, <3>2, <3>3
  <2>6. CASE SendFailed
    <3>1. PICK n \in 0..Len(c) : SoFar(n)
      BY <2>2, <2>6 DEF SendFailed
    <3>2. Memory \in TakenUpTo(Len(c))
      BY <2>0, <2>6, <3>1, NextChunk DEF SendFailed
    <3>3. taken' \in {taken, taken \cup {Memory}} /\ place' = "exit" /\ told'
      BY <2>6 DEF SendFailed, Stop
    <3>4. QED BY <2>2, <3>2, <3>3
  <2>7. CASE AllSent
    <3>1. PICK n \in 0..Len(c) : SoFar(n)
      BY <2>2, <2>7 DEF AllSent
    <3>2. n = Len(c)
      BY <2>0, <2>7, <3>1, NextChunk DEF AllSent
    <3>3. taken' = taken /\ taken = TakenUpTo(n) /\ place' = "exit"
      BY <2>7, <3>1 DEF AllSent, Stop, SoFar
    <3>4. QED BY <3>2, <3>3
  <2>8. CASE Begin \/ CallOnce \/ Submit \/ PollOutcome \/ PollFailed
    BY <1>2, <2>8 DEF Begin, CallOnce, Submit, PollOutcome, PollFailed, CommandShape
  <2>9. CASE Connect
    <3>1. PICK n \in 0..Len(c) : SoFar(n)
      BY <2>2, <2>9 DEF Connect
    <3>2. place' = "sending" /\ taken' = taken /\ chunks' = chunks
      BY <1>2, <2>9 DEF Connect
    <3>3. QED BY <2>2, <3>1, <3>2 DEF SoFar
  <2>10. CASE ConnectFailed
    BY <2>2, <2>10 DEF ConnectFailed, Stop
  <2>11. CASE Progress \/ UNCHANGED mvars
    <3>1. UNCHANGED <<place, taken, chunks, told>>
      BY <2>11 DEF Progress, mvars
    <3>2. QED BY <2>2, <3>1 DEF SoFar
  <2>12. QED BY <2>4, <2>5, <2>6, <2>7, <2>8, <2>9, <2>10, <2>11 DEF CommandsNext
<1>3. QED BY <1>1, <1>2

LEMMA CommandsTell == CommandsInv => TellsWhatIsLost
<1> SUFFICES ASSUME CommandsInv, place = "exit", ~told
             PROVE  /\ input.command = "extract" =>
                         \A i \in Wanted : Cardinality({m \in taken : i \in Range(m.chunk)}) = 1
                    /\ \A m \in taken : Len(m.chunk) > 1 => Size(input.said, m.chunk) <= MaxChars
                    /\ input.command = "index-standards" /\ input.wait =>
                           record \in Outcomes /\ (exit = 1 <=> record = "failed")
  BY DEF TellsWhatIsLost
<1>1. CASE input.command = "extract"
  <2> DEFINE c == ToSend
  <2>1. SendsAll
    BY <1>1, HookInput, HookSends DEF CommandsInv
  <2>2. taken = {Sending(c[k]) : k \in 1..Len(c)}
    BY <1>1 DEF CommandsInv, HookShape, TakenUpTo
  <2>3. \A k \in 1..Len(c) : Sending(c[k]).chunk = c[k]
    BY DEF Sending
  <2>4. /\ \A i \in Wanted : \E k \in 1..Len(c) : i \in Range(c[k])
        /\ \A k, l \in 1..Len(c) : Range(c[k]) \cap Range(c[l]) # {} => k = l
        /\ \A k \in 1..Len(c) : Len(c[k]) > 1 => Size(input.said, c[k]) <= MaxChars
    BY <2>1 DEF SendsAll
  <2> HIDE DEF c
  <2>5. ASSUME NEW i \in Wanted PROVE Cardinality({m \in taken : i \in Range(m.chunk)}) = 1
    <3>1. PICK k \in 1..Len(c) : i \in Range(c[k])
      BY <2>4
    <3>2. ASSUME NEW l \in 1..Len(c), i \in Range(c[l]) PROVE l = k
      BY <2>4, <3>1, <3>2
    <3>3. {m \in taken : i \in Range(m.chunk)} = {Sending(c[k])}
      <4>1. Sending(c[k]) \in taken /\ i \in Range(Sending(c[k]).chunk)
        BY <2>2, <2>3, <3>1
      <4>2. ASSUME NEW m \in taken, i \in Range(m.chunk) PROVE m = Sending(c[k])
        <5>1. PICK l \in 1..Len(c) : m = Sending(c[l])
          BY <2>2
        <5>2. i \in Range(c[l])
          BY <2>3, <4>2, <5>1
        <5>3. QED BY <3>2, <5>1, <5>2
      <4>3. QED BY <4>1, <4>2
    <3>4. QED BY <3>3, FS_Singleton
  <2>6. ASSUME NEW m \in taken, Len(m.chunk) > 1 PROVE Size(input.said, m.chunk) <= MaxChars
    <3>1. PICK l \in 1..Len(c) : m = Sending(c[l])
      BY <2>2
    <3>2. m.chunk = c[l]
      BY <2>3, <3>1
    <3>3. QED BY <2>4, <2>6, <3>2
  <2>7. QED BY <1>1, <2>5, <2>6
<1>2. CASE input.command # "extract"
  <2>1. taken = {}
    BY <1>2 DEF CommandsInv, HookShape
  <2>2. input.command = "index-standards" /\ input.wait =>
            record \in Outcomes /\ (exit = 1 <=> record = "failed")
    BY DEF CommandsInv, OutcomeShape
  <2>3. QED BY <1>2, <2>1, <2>2
<1>3. QED BY <1>1, <1>2

\* A hook that ends without an error in its log has handed over every message of
\* substance, in one chunk each and no chunk of several over the budget; a command
\* that waited for the standards and printed no error knows their outcome.
THEOREM TellsWhatIsLostThm == CommandsSpec => []TellsWhatIsLost
<1>1. CommandsInv /\ [CommandsNext]_mvars => CommandsInv'
  BY ShapeStep, HookStep, OutcomeStep DEF CommandsInv
<1>2. QED BY <1>1, CommandsInvInit, CommandsTell, PTL DEF CommandsSpec

-----------------------------------------------------------------------------
(* CliWalk: the walk, over any tree and whatever happens to it meanwhile.  *)

AllPaths == Range(Paths) \cup {Root}

\* What the walk has still to look at.
Waiting == Range(dirs) \cup listing

WalkTypes ==
    /\ tree \in [AllPaths -> [is : Kinds, ext : {"rs", "py", "ts", "tsx", "md"}, with : Contents]]
    /\ given \in Stacks \cup {"none"}
    /\ dirs \in Seq(AllPaths) /\ listing \in SUBSET Range(Paths) /\ found \in Seq(Range(Paths))
    /\ packed = <<>>

\* Nothing is met twice: a path waits in one place only or is found, and
\* nothing above it waits any more.
MetOnce ==
    /\ Distinct(dirs) /\ Distinct(found)
    /\ Range(dirs) \cap listing = {} /\ Waiting \cap Range(found) = {}
    /\ \A p \in Waiting \cup Range(found), q \in Waiting : ~IsStrictPrefix(q, p)

\* What is below a thing that is gone is gone; directories and files are kept apart.
Sorted ==
    /\ \A p, q \in AllPaths : IsPrefix(p, q) /\ tree[p].with = "gone" => tree[q].with = "gone"
    /\ \A p \in Range(dirs) : tree[p].is = "directory"
    /\ \A p \in Range(found) : tree[p].ext \in Allowed

\* A file that was there all the time is found, or waits, or a directory above it does.
Covered ==
    \A p \in Range(Paths) : Standing(p) =>
        p \in Range(found) \/ p \in listing \/ \E q \in Above(p) : q \in Waiting

Walking == WalkTypes /\ MetOnce /\ Sorted /\ Covered

WalkInv == (walk = "walking" => Walking) /\ BatchesCoverTree

\* The elements of a sequence.
LEMMA RangeIs == \A S : \A s \in Seq(S) : Range(s) = {s[i] : i \in 1..Len(s)} /\ Range(s) \in SUBSET S
  BY DEF Range

\* Only the empty sequence has none.
LEMMA RangeEmpty ==
    ASSUME NEW S, NEW s \in Seq(S)
    PROVE  Range(s) = {} <=> s = <<>>
<1>1. Range(s) = {s[i] : i \in 1..Len(s)}
  BY RangeIs
<1>2. CASE s = <<>>
  <2>1. Len(s) = 0
    BY <1>2
  <2>2. QED BY <1>1, <1>2, <2>1
<1>3. CASE s # <<>>
  <2>1. 1 \in 1..Len(s)
    BY <1>3
  <2>2. QED BY <1>1, <1>3, <2>1
<1>4. QED BY <1>2, <1>3

\* All but the last element.
LEMMA FrontIs ==
    ASSUME NEW S, NEW s \in Seq(S), s # <<>>
    PROVE  /\ Front(s) \in Seq(S) /\ Len(s) \in Nat \ {0} /\ Len(Front(s)) = Len(s) - 1
           /\ \A i \in 1..Len(Front(s)) : Front(s)[i] = s[i] /\ i \in 1..Len(s) /\ i # Len(s)
<1> DEFINE m == Len(s) - 1
           f == SubSeq(s, 1, m)
<1>1. Len(s) \in Nat \ {0} /\ m \in Nat
  OBVIOUS
<1>2. \A i \in 1..m : s[i] \in S
  BY <1>1
<1>3. f = Front(s)
  BY DEF Front
<1> HIDE DEF m
<1>4. /\ f \in Seq(S) /\ Len(f) = (IF 1 <= m THEN m - 1 + 1 ELSE 0)
      /\ \A i \in 1..(m - 1 + 1) : f[i] = s[1 + i - 1]
  BY <1>1, <1>2, SubSeqProperties
<1> HIDE DEF f
<1>5. Len(f) = m /\ \A i \in 1..m : f[i] = s[i]
  BY <1>1, <1>4
<1>6. \A i \in 1..m : i \in 1..Len(s) /\ i # Len(s)
  BY <1>1 DEF m
<1>7. QED BY <1>1, <1>3, <1>4, <1>5, <1>6 DEF m

\* What is left when the last element is taken off.
LEMMA TakeLast ==
    ASSUME NEW S, NEW s \in Seq(S), s # <<>>, Distinct(s)
    PROVE  /\ Front(s) \in Seq(S) /\ Distinct(Front(s))
           /\ Last(s) \in Range(s) /\ Range(Front(s)) = Range(s) \ {Last(s)}
<1> DEFINE f == Front(s)
<1>1. Len(s) \in Nat \ {0}
  OBVIOUS
<1>2. f \in Seq(S) /\ Len(f) = Len(s) - 1 /\ \A i \in 1..Len(f) : f[i] = s[i] /\ i \in 1..Len(s) /\ i # Len(s)
  BY FrontIs
<1>3. \A i \in 1..Len(s) : i = Len(s) \/ i \in 1..Len(f)
  BY <1>1, <1>2
<1> HIDE DEF f
<1>4. Distinct(f)
  BY <1>2 DEF Distinct
<1>5. Last(s) \in Range(s)
  BY <1>1, RangeIs DEF Last
<1>6. ASSUME NEW x \in Range(f) PROVE x \in Range(s) /\ x # Last(s)
  <2>1. PICK i \in 1..Len(f) : x = f[i]
    BY <1>2, RangeIs
  <2>2. QED BY <1>1, <1>2, <2>1, RangeIs DEF Distinct, Last
<1>7. ASSUME NEW x \in Range(s), x # Last(s) PROVE x \in Range(f)
  <2>1. PICK i \in 1..Len(s) : x = s[i]
    BY RangeIs
  <2>2. i \in 1..Len(f) /\ x = f[i]
    BY <1>2, <1>3, <1>7, <2>1 DEF Last
  <2>3. QED BY <1>2, <2>2, RangeIs
<1>8. QED BY <1>2, <1>4, <1>5, <1>6, <1>7 DEF f

\* An element that is new, put at the end.
LEMMA AddLast ==
    ASSUME NEW S, NEW s \in Seq(S), Distinct(s), NEW e \in S, e \notin Range(s)
    PROVE  Append(s, e) \in Seq(S) /\ Distinct(Append(s, e)) /\ Range(Append(s, e)) = Range(s) \cup {e}
<1> DEFINE a == Append(s, e)
<1>1. a \in Seq(S) /\ Len(a) = Len(s) + 1 /\ a[Len(s) + 1] = e /\ \A i \in 1..Len(s) : a[i] = s[i]
  BY AppendProperties
<1>2. Len(s) \in Nat
  OBVIOUS
<1> HIDE DEF a
<1>3. \A i \in 1..Len(a) : i = Len(s) + 1 \/ i \in 1..Len(s)
  BY <1>1, <1>2
<1>4. \A i \in 1..Len(s) : s[i] # e
  BY RangeIs
<1>5. ASSUME NEW i \in 1..Len(a), NEW j \in 1..Len(a), a[i] = a[j] PROVE i = j
  BY <1>1, <1>3, <1>4, <1>5 DEF Distinct
<1>6. ASSUME NEW x PROVE x \in Range(a) <=> x \in Range(s) \cup {e}
  <2>1. x \in Range(a) <=> \E i \in 1..Len(a) : x = a[i]
    BY <1>1, RangeIs
  <2>2. x \in Range(s) <=> \E i \in 1..Len(s) : x = s[i]
    BY RangeIs
  <2>3. Len(s) + 1 \in 1..Len(a) /\ \A i \in 1..Len(s) : i \in 1..Len(a)
    BY <1>1, <1>2
  <2>4. QED BY <1>1, <1>3, <2>1, <2>2, <2>3
<1>7. QED BY <1>1, <1>5, <1>6 DEF a, Distinct

\* Paths and what is above them.
LEMMA PathsAre == AllPaths \in SUBSET Seq(Names) /\ Root = <<>> /\ \A p \in Range(Paths) : p \in Seq(Names) /\ p # <<>>
<1>1. Root = <<>> /\ Root \in Seq(Names)
  BY DEF Root
<1> HIDE DEF Root
<1>2. Range(Paths) \in SUBSET (Seq(Names) \ {Root})
  BY WalkAssumption, RangeIs
<1>3. QED BY <1>1, <1>2 DEF AllPaths

\* Being above is an order, from the shorter path to the longer.
LEMMA PrefixOrder ==
    ASSUME NEW p \in Seq(Names), NEW q \in Seq(Names), NEW r \in Seq(Names)
    PROVE  /\ IsPrefix(p, q) /\ IsPrefix(q, r) => IsPrefix(p, r)
           /\ IsStrictPrefix(p, q) => Len(p) < Len(q)
           /\ IsStrictPrefix(p, q) /\ IsStrictPrefix(q, r) => IsStrictPrefix(p, r)
<1>1. IsPrefix(p, q) <=> Len(p) <= Len(q) /\ \A i \in 1..Len(p) : p[i] = q[i]
  BY DEF IsPrefix
<1>2. IsPrefix(q, r) <=> Len(q) <= Len(r) /\ \A i \in 1..Len(q) : q[i] = r[i]
  BY DEF IsPrefix
<1>3. IsPrefix(p, r) <=> Len(p) <= Len(r) /\ \A i \in 1..Len(p) : p[i] = r[i]
  BY DEF IsPrefix
<1>4. Len(p) \in Nat /\ Len(q) \in Nat /\ Len(r) \in Nat
  OBVIOUS
<1>5. IsPrefix(p, q) /\ IsPrefix(q, r) => IsPrefix(p, r)
  BY <1>1, <1>2, <1>3, <1>4
<1>6. IsPrefix(p, q) /\ Len(p) = Len(q) => p = q
  BY <1>1
<1>7. IsPrefix(q, r) /\ Len(q) = Len(r) => q = r
  BY <1>2
<1>8. IsPrefix(p, q) /\ p # q => Len(p) < Len(q)
  BY <1>1, <1>4, <1>6
<1>9. IsPrefix(q, r) /\ q # r => Len(q) < Len(r)
  BY <1>2, <1>4, <1>7
<1>10. QED BY <1>4, <1>5, <1>8, <1>9 DEF IsStrictPrefix

\* A path and the directory it is in.
LEMMA ChildOf ==
    ASSUME NEW c \in Seq(Names), c # <<>>
    PROVE  /\ Front(c) \in Seq(Names) /\ Len(c) = Len(Front(c)) + 1 /\ IsStrictPrefix(Front(c), c)
           /\ \A e \in Seq(Names) : IsStrictPrefix(e, c) => e = Front(c) \/ IsStrictPrefix(e, Front(c))
<1> DEFINE d == Front(c)
<1>1. d \in Seq(Names) /\ Len(d) = Len(c) - 1 /\ \A i \in 1..Len(d) : d[i] = c[i]
  BY FrontIs
<1>2. Len(c) \in Nat /\ Len(d) \in Nat /\ Len(c) = Len(d) + 1
  BY <1>1
<1> HIDE DEF d
<1>3. IsPrefix(d, c) /\ d # c
  BY <1>1, <1>2 DEF IsPrefix
<1>4. ASSUME NEW e \in Seq(Names), IsPrefix(e, c), e # c PROVE e = d \/ (IsPrefix(e, d) /\ e # d)
  <2>1. Len(e) <= Len(c) /\ \A i \in 1..Len(e) : e[i] = c[i]
    BY <1>4 DEF IsPrefix
  <2>2. Len(e) \in Nat /\ Len(e) # Len(c)
    BY <1>4, <2>1
  <2>3. Len(e) <= Len(d) /\ \A i \in 1..Len(e) : e[i] = d[i]
    BY <1>1, <1>2, <2>1, <2>2
  <2>4. IsPrefix(e, d)
    BY <1>1, <2>3 DEF IsPrefix
  <2>5. QED BY <2>4
<1>5. QED BY <1>1, <1>2, <1>3, <1>4 DEF d, IsStrictPrefix

\* With a path, everything above it is one.
LEMMA PrefixClosed ==
    ASSUME NEW p \in AllPaths, NEW k \in 0..Len(p)
    PROVE  SubSeq(p, 1, k) \in AllPaths
<1>1. p \in Seq(Names) /\ Len(p) \in Nat
  BY PathsAre
<1> DEFINE T == {n \in Nat : n <= Len(p) => SubSeq(p, 1, Len(p) - n) \in AllPaths}
<1>2. 0 \in T
  <2>1. SubSeq(p, 1, Len(p) - 0) = p
    BY <1>1
  <2>2. QED BY <2>1
<1>3. ASSUME NEW n \in Nat, n \in T PROVE n + 1 \in T
  <2> SUFFICES ASSUME n + 1 <= Len(p) PROVE SubSeq(p, 1, Len(p) - (n + 1)) \in AllPaths
    OBVIOUS
  <2> DEFINE q == SubSeq(p, 1, Len(p) - n)
  <2>1. q \in AllPaths
    BY <1>1, <1>3
  <2>2. Len(q) = Len(p) - n /\ q # Root
    <3>1. q \in Seq(Names) /\ Len(p) - n \in Nat /\ Len(p) - n # 0
      BY <1>1, <2>1, PathsAre
    <3>2. Len(q) = Len(p) - n
      BY <1>1, <3>1
    <3>3. QED BY <3>1, <3>2 DEF Root
  <2>3. Front(q) = SubSeq(p, 1, Len(p) - (n + 1))
    BY <1>1, <2>2 DEF Front
  <2> HIDE DEF q
  <2>4. Front(q) \in AllPaths
    BY <2>1, <2>2, WalkAssumption DEF AllPaths
  <2>5. QED BY <2>3, <2>4
<1>4. Nat \subseteq T
  <2> HIDE DEF T
  <2> QED BY <1>2, <1>3, SetInduction
<1>5. Len(p) - k \in Nat /\ Len(p) - k <= Len(p) /\ Len(p) - (Len(p) - k) = k
  BY <1>1
<1>6. QED BY <1>4, <1>5

\* Below a directory, on the way to a path, is an entry of it.
LEMMA Towards ==
    ASSUME NEW p \in AllPaths, NEW d \in AllPaths, IsStrictPrefix(d, p)
    PROVE  \E c \in Range(Paths) : Front(c) = d /\ IsPrefix(c, p)
<1> DEFINE c == SubSeq(p, 1, Len(d) + 1)
<1>1. p \in Seq(Names) /\ d \in Seq(Names) /\ Len(d) < Len(p) /\ Len(p) \in Nat /\ Len(d) \in Nat
  BY PathsAre, PrefixOrder
<1>2. c \in AllPaths
  BY <1>1, PrefixClosed
<1>3. c \in Seq(Names) /\ Len(c) = Len(d) + 1 /\ \A i \in 1..Len(c) : c[i] = p[i]
  BY <1>1
<1>4. \A i \in 1..Len(d) : d[i] = p[i]
  BY <1>1 DEF IsStrictPrefix, IsPrefix
<1> HIDE DEF c
<1>5. c \in Range(Paths)
  BY <1>1, <1>2, <1>3, PathsAre DEF AllPaths
<1>6. Front(c) = d
  <2>1. Front(c) \in Seq(Names) /\ Len(Front(c)) = Len(d) /\ \A i \in 1..Len(d) : Front(c)[i] = c[i]
    BY <1>1, <1>3 DEF Front
  <2>2. \A i \in 1..Len(d) : Front(c)[i] = d[i]
    BY <1>1, <1>3, <1>4, <2>1
  <2>3. QED BY <1>1, <2>1, <2>2, SeqEqual
<1>7. IsPrefix(c, p)
  BY <1>1, <1>3 DEF IsPrefix
<1>8. QED BY <1>5, <1>6, <1>7

\* The walk starts with the root.
LEMMA WalkInvInit == WalkInit => WalkInv
<1> SUFFICES ASSUME WalkInit PROVE WalkInv
  OBVIOUS
<1>1. /\ Range(dirs) = {Root} /\ Distinct(dirs) /\ Range(found) = {} /\ Distinct(found)
      /\ dirs \in Seq(AllPaths) /\ found \in Seq(Range(Paths))
  <2> DEFINE r == Root
  <2>1. r \in AllPaths
    BY DEF AllPaths
  <2> HIDE DEF r
  <2>2. <<r>> \in Seq(AllPaths) /\ Range(<<r>>) = {r} /\ Distinct(<<r>>)
    <3>1. <<r>> \in Seq(AllPaths) /\ Len(<<r>>) = 1 /\ <<r>>[1] = r
      BY <2>1
    <3>2. Range(<<r>>) = {<<r>>[i] : i \in 1..1}
      BY <3>1, RangeIs
    <3>3. Range(<<r>>) = {r}
      BY <3>1, <3>2
    <3>4. QED BY <3>1, <3>3 DEF Distinct
  <2>3. <<>> \in Seq(Range(Paths)) /\ Range(<<>>) = {} /\ Distinct(<<>>)
    <3>1. <<>> \in Seq(Range(Paths)) /\ Len(<<>>) = 0
      OBVIOUS
    <3>2. Range(<<>>) = {}
      BY <3>1, RangeEmpty
    <3>3. Distinct(<<>>)
      BY <3>1 DEF Distinct
    <3>4. QED BY <3>1, <3>2, <3>3
  <2>4. dirs = <<r>> /\ found = <<>>
    BY DEF WalkInit, r
  <2>5. QED BY <2>2, <2>3, <2>4 DEF r
<1>2. /\ tree \in [AllPaths -> [is : Kinds, ext : {"rs", "py", "ts", "tsx", "md"}, with : Contents \ {"gone"}]]
      /\ tree[Root].is = "directory"
  BY WalkAssumption DEF WalkInit, AllPaths
<1>3. WalkTypes
  <2>1. tree \in [AllPaths -> [is : Kinds, ext : {"rs", "py", "ts", "tsx", "md"}, with : Contents]]
    BY <1>2
  <2>2. QED BY <1>1, <2>1 DEF WalkTypes, WalkInit
<1>4. listing = {} /\ Waiting = {Root}
  BY <1>1 DEF WalkInit, Waiting
<1>5. MetOnce
  <2>1. ~IsStrictPrefix(Root, Root)
    BY DEF IsStrictPrefix
  <2>2. QED BY <1>1, <1>4, <2>1 DEF MetOnce
<1>6. Sorted
  BY <1>1, <1>2 DEF Sorted
<1>7. Covered
  <2> SUFFICES ASSUME NEW p \in Range(Paths) PROVE Root \in Above(p)
    BY <1>4 DEF Covered
  <2>1. p \in Seq(Names) /\ p # <<>> /\ Root = <<>> /\ Root \in DOMAIN tree
    BY <1>2, PathsAre DEF AllPaths
  <2>2. IsPrefix(<<>>, p)
    BY <2>1 DEF IsPrefix
  <2>3. QED BY <2>1, <2>2 DEF Above, IsStrictPrefix
<1>8. BatchesCoverTree
  BY DEF WalkInit, BatchesCoverTree
<1>9. QED BY <1>3, <1>5, <1>6, <1>7, <1>8 DEF WalkInv, Walking

\* A directory is opened: its entries take its place.
LEMMA OpenStep ==
    ASSUME walk = "walking", Walking, OpenDirectory
    PROVE  (walk' = "walking" => Walking') /\ BatchesCoverTree'
<1> DEFINE d == Last(dirs)
<1>1. /\ dirs \in Seq(AllPaths) /\ dirs # <<>> /\ listing = {} /\ dirs' = Front(dirs)
      /\ UNCHANGED <<tree, given, found, stored, packed>>
  BY DEF OpenDirectory, Walking, WalkTypes
<1>2. /\ dirs' \in Seq(AllPaths) /\ Distinct(dirs') /\ Range(dirs') = Range(dirs) \ {d}
      /\ d \in Range(dirs) /\ d \in AllPaths
  <2>1. Distinct(dirs)
    BY DEF Walking, MetOnce
  <2>2. QED BY <1>1, <2>1, TakeLast, RangeIs
<1>3. tree[d].is = "directory" /\ DOMAIN tree = AllPaths
  BY <1>2 DEF Walking, Sorted, WalkTypes
<1> HIDE DEF d
<1>4. CASE tree[d].with \in {"unreadable", "gone"}
  <2>1. walk' = "exit_error"
    BY <1>4 DEF OpenDirectory, d
  <2>2. d \in DOMAIN tree' /\ tree'[d].is = "directory" /\ tree'[d].with \in {"unreadable", "gone"}
    BY <1>1, <1>2, <1>3, <1>4
  <2>3. QED BY <2>1, <2>2 DEF BatchesCoverTree
<1>5. CASE tree[d].with \notin {"unreadable", "gone"}
  <2>1. /\ walk' = "walking"
        /\ listing' = {p \in Range(Paths) : Front(p) = d /\ tree[p].with # "gone"}
    BY <1>5 DEF OpenDirectory, d
  <2>2. \A p \in AllPaths : p \in Seq(Names)
    BY PathsAre
  <2>3. ASSUME NEW c \in listing'
        PROVE  /\ c \in Seq(Names) /\ c \in AllPaths /\ IsStrictPrefix(d, c) /\ Len(c) = Len(d) + 1
               /\ \A e \in Seq(Names) : IsStrictPrefix(e, c) => e = d \/ IsStrictPrefix(e, d)
    <3>1. c \in Range(Paths) /\ Front(c) = d
      BY <2>1
    <3>2. c \in Seq(Names) /\ c # <<>> /\ c \in AllPaths
      BY <3>1, PathsAre DEF AllPaths
    <3>3. QED BY <3>1, <3>2, ChildOf
  <2>4. /\ Waiting = Range(dirs) /\ Waiting' = (Range(dirs) \ {d}) \cup listing'
        /\ Range(found') = Range(found)
    BY <1>1, <1>2 DEF Waiting
  <2>5. /\ Range(dirs) \cap Range(found) = {}
        /\ \A p \in Range(dirs) \cup Range(found), q \in Range(dirs) : ~IsStrictPrefix(q, p)
    BY <2>4 DEF Walking, MetOnce
  <2>6. \A p \in Range(dirs) \cup Range(found) : p \in AllPaths
    BY <1>1, RangeIs DEF Walking, WalkTypes, AllPaths
  <2>7. WalkTypes'
    <3>1. listing' \in SUBSET Range(Paths)
      BY <2>1
    <3>2. QED BY <1>1, <1>2, <3>1 DEF Walking, WalkTypes
  <2>8. MetOnce'
    <3>1. Distinct(dirs') /\ Distinct(found')
      BY <1>1, <1>2 DEF Walking, MetOnce
    <3>2. \A c \in listing' : c \notin Range(dirs) /\ c \notin Range(found)
      BY <1>2, <2>3, <2>5
    <3>3. Range(dirs') \cap listing' = {} /\ Waiting' \cap Range(found') = {}
      BY <1>2, <2>4, <2>5, <3>2
    <3>4. ASSUME NEW p \in Waiting' \cup Range(found'), NEW q \in Waiting', IsStrictPrefix(q, p)
          PROVE  FALSE
      <4>1. CASE p \in Range(dirs) \cup Range(found) /\ q \in Range(dirs)
        BY <2>5, <3>4, <4>1
      <4>2. CASE p \in Range(dirs) \cup Range(found) /\ q \in listing'
        <5>1. IsStrictPrefix(d, q) /\ d \in Seq(Names) /\ q \in Seq(Names) /\ p \in Seq(Names)
          BY <1>2, <2>2, <2>3, <2>6, <4>2
        <5>2. IsStrictPrefix(d, p)
          BY <3>4, <5>1, PrefixOrder
        <5>3. QED BY <1>2, <2>5, <4>2, <5>2
      <4>3. CASE p \in listing' /\ q \in Range(dirs) \ {d}
        <5>1. q \in Seq(Names)
          BY <2>2, <2>6, <4>3
        <5>2. IsStrictPrefix(q, d)
          BY <2>3, <3>4, <4>3, <5>1
        <5>3. QED BY <1>2, <2>5, <4>3, <5>2
      <4>4. CASE p \in listing' /\ q \in listing'
        <5>1. Len(p) = Len(q) /\ p \in Seq(Names) /\ q \in Seq(Names)
          BY <2>3, <4>4
        <5>2. Len(q) < Len(p) /\ Len(p) \in Nat
          BY <3>4, <5>1, PrefixOrder
        <5>3. QED BY <5>1, <5>2
      <4>5. QED BY <2>4, <4>1, <4>2, <4>3, <4>4
    <3>5. QED BY <3>1, <3>3, <3>4 DEF MetOnce
  <2>9. Sorted'
    <3>1. Allowed' = Allowed /\ \A p \in Range(dirs') : p \in Range(dirs)
      BY <1>1, <1>2 DEF Allowed
    <3>2. QED BY <1>1, <2>4, <3>1 DEF Walking, Sorted
  <2>10. Covered'
    <3>1. \A p : (Standing(p))' <=> Standing(p)
      BY <1>1 DEF Standing, Allowed, Above
    <3>2. \A p : (Above(p))' = Above(p)
      BY <1>1 DEF Above
    <3> SUFFICES ASSUME NEW p \in Range(Paths), Standing(p), p \notin Range(found)
                 PROVE  p \in listing' \/ \E q \in Above(p) : q \in Waiting'
      BY <2>4, <3>1, <3>2 DEF Covered
    <3>3. PICK q \in Above(p) : q \in Range(dirs)
      BY <1>1, <2>4 DEF Walking, Covered
    <3>4. CASE q # d
      BY <2>4, <3>3, <3>4
    <3>5. CASE q = d
      <4>1. p \in AllPaths /\ IsStrictPrefix(d, p)
        BY <3>3, <3>5 DEF Above, AllPaths
      <4>2. PICK c \in Range(Paths) : Front(c) = d /\ IsPrefix(c, p)
        BY <1>2, <4>1, Towards
      <4>3. c \in AllPaths
        BY DEF AllPaths
      <4>4. tree[p].with # "gone"
        BY DEF Standing
      <4>5. tree[c].with # "gone"
        BY <4>1, <4>2, <4>3, <4>4 DEF Walking, Sorted
      <4>6. c \in listing'
        BY <2>1, <4>2, <4>5
      <4>7. CASE c = p
        BY <4>6, <4>7
      <4>8. CASE c # p
        <5>1. c \in Above(p)
          BY <1>3, <4>2, <4>3, <4>8 DEF Above, IsStrictPrefix
        <5>2. QED BY <2>4, <4>6, <5>1
      <4>9. QED BY <4>7, <4>8
    <3>6. QED BY <3>4, <3>5
  <2>11. BatchesCoverTree'
    BY <2>1 DEF BatchesCoverTree
  <2>12. QED BY <2>7, <2>8, <2>9, <2>10, <2>11 DEF Walking
<1>6. QED BY <1>4, <1>5

\* An entry is looked at: it waits, is found or is left out.
LEMMA VisitStep ==
    ASSUME NEW c \in Range(Paths), walk = "walking", Walking, Visit(c)
    PROVE  walk' = "walking" /\ Walking'
<1>1. /\ c \in listing /\ listing' = listing \ {c} /\ walk' = "walking"
      /\ dirs' = IF tree[c].is = "directory" THEN Append(dirs, c) ELSE dirs
      /\ found' = IF tree[c].is = "file" /\ tree[c].ext \in Allowed /\ tree[c].with = "fits"
                  THEN Append(found, c) ELSE found
      /\ UNCHANGED <<tree, given, stored, packed>>
  BY DEF Visit
<1>2. /\ dirs \in Seq(AllPaths) /\ found \in Seq(Range(Paths)) /\ c \in AllPaths
      /\ Distinct(dirs) /\ Distinct(found)
      /\ c \notin Range(dirs) /\ c \notin Range(found) /\ c \in Waiting
      /\ DOMAIN tree = AllPaths
  BY <1>1 DEF Walking, WalkTypes, MetOnce, Waiting, AllPaths
<1>3. /\ dirs' \in Seq(AllPaths) /\ Distinct(dirs')
      /\ Range(dirs') = IF tree[c].is = "directory" THEN Range(dirs) \cup {c} ELSE Range(dirs)
  <2>1. /\ Append(dirs, c) \in Seq(AllPaths) /\ Distinct(Append(dirs, c))
        /\ Range(Append(dirs, c)) = Range(dirs) \cup {c}
    BY <1>2, AddLast
  <2>2. CASE tree[c].is = "directory"
    BY <1>1, <2>1, <2>2
  <2>3. CASE tree[c].is # "directory"
    BY <1>1, <1>2, <2>3
  <2>4. QED BY <2>2, <2>3
<1>4. /\ found' \in Seq(Range(Paths)) /\ Distinct(found')
      /\ Range(found') = IF tree[c].is = "file" /\ tree[c].ext \in Allowed /\ tree[c].with = "fits"
                         THEN Range(found) \cup {c} ELSE Range(found)
  <2>1. /\ Append(found, c) \in Seq(Range(Paths)) /\ Distinct(Append(found, c))
        /\ Range(Append(found, c)) = Range(found) \cup {c}
    BY <1>2, AddLast
  <2>2. CASE tree[c].is = "file" /\ tree[c].ext \in Allowed /\ tree[c].with = "fits"
    BY <1>1, <2>1, <2>2
  <2>3. CASE ~(tree[c].is = "file" /\ tree[c].ext \in Allowed /\ tree[c].with = "fits")
    BY <1>1, <1>2, <2>3
  <2>4. QED BY <2>2, <2>3
<1>5. WalkTypes'
  BY <1>1, <1>3, <1>4 DEF Walking, WalkTypes
<1>6. MetOnce'
  <2>1. \A q \in Waiting' : q \in Waiting
    BY <1>1, <1>3 DEF Waiting
  <2>2. \A p \in Waiting' \cup Range(found') : p \in Waiting \cup Range(found)
    BY <1>2, <1>4, <2>1
  <2>3. \A p \in Waiting' \cup Range(found'), q \in Waiting' : ~IsStrictPrefix(q, p)
    BY <2>1, <2>2 DEF Walking, MetOnce
  <2>4. Range(dirs') \cap listing' = {}
    BY <1>1, <1>3 DEF Walking, MetOnce
  <2>5. Waiting' \cap Range(found') = {}
    <3>1. Waiting \cap Range(found) = {}
      BY DEF Walking, MetOnce
    <3>2. c \in Range(found') => c \notin Waiting'
      <4>1. c \in Range(found') => tree[c].is = "file"
        BY <1>2, <1>4
      <4>2. tree[c].is = "file" => c \notin Range(dirs')
        BY <1>2, <1>3
      <4>3. QED BY <1>1, <4>1, <4>2 DEF Waiting
    <3>3. \A x \in Range(found') : x = c \/ x \in Range(found)
      BY <1>4
    <3>4. QED BY <2>1, <3>1, <3>2, <3>3
  <2>6. QED BY <1>3, <1>4, <2>3, <2>4, <2>5 DEF MetOnce
<1>7. Sorted'
  <2>1. Allowed' = Allowed
    BY <1>1 DEF Allowed
  <2>2. \A p \in Range(dirs') : tree[p].is = "directory"
    BY <1>3 DEF Walking, Sorted
  <2>3. \A p \in Range(found') : tree[p].ext \in Allowed
    BY <1>4 DEF Walking, Sorted
  <2>4. QED BY <1>1, <2>1, <2>2, <2>3 DEF Walking, Sorted
<1>8. Covered'
  <2>1. \A p : (Standing(p))' <=> Standing(p)
    BY <1>1 DEF Standing, Allowed, Above
  <2>2. \A p : (Above(p))' = Above(p)
    BY <1>1 DEF Above
  <2> SUFFICES ASSUME NEW p \in Range(Paths), Standing(p)
               PROVE  p \in Range(found') \/ p \in listing' \/ \E q \in Above(p) : q \in Waiting'
    BY <2>1, <2>2 DEF Covered
  <2>3. CASE p \in Range(found)
    BY <1>4, <2>3
  <2>4. CASE p \in listing
    <3>1. CASE p = c
      BY <1>4, <3>1 DEF Standing
    <3>2. CASE p # c
      BY <1>1, <2>4, <3>2
    <3>3. QED BY <3>1, <3>2
  <2>5. ASSUME NEW q \in Above(p), q \in Waiting PROVE q \in Waiting'
    <3>1. CASE q = c
      <4>1. tree[c].is = "directory"
        BY <3>1 DEF Standing
      <4>2. QED BY <1>3, <3>1, <4>1 DEF Waiting
    <3>2. CASE q # c
      BY <1>1, <1>3, <2>5, <3>2 DEF Waiting
    <3>3. QED BY <3>1, <3>2
  <2>6. QED BY <2>3, <2>4, <2>5 DEF Walking, Covered
<1>9. QED BY <1>1, <1>5, <1>6, <1>7, <1>8 DEF Walking

\* Something is deleted meanwhile: what stands now stood before.
LEMMA VanishStep ==
    ASSUME NEW v \in Range(Paths), walk = "walking", Walking, Vanish(v)
    PROVE  walk' = "walking" /\ Walking'
<1>1. /\ UNCHANGED <<given, walk, dirs, listing, found, stored, packed>>
      /\ tree' = [q \in DOMAIN tree |-> IF IsPrefix(v, q) THEN [tree[q] EXCEPT !.with = "gone"] ELSE tree[q]]
  BY DEF Vanish
<1>2. tree \in [AllPaths -> [is : Kinds, ext : {"rs", "py", "ts", "tsx", "md"}, with : Contents]]
  BY DEF Walking, WalkTypes
<1>3. /\ DOMAIN tree = AllPaths /\ DOMAIN tree' = AllPaths
      /\ \A q \in AllPaths : /\ tree'[q].is = tree[q].is /\ tree'[q].ext = tree[q].ext
                             /\ tree'[q].with = IF IsPrefix(v, q) THEN "gone" ELSE tree[q].with
  BY <1>1, <1>2
<1>4. tree' \in [AllPaths -> [is : Kinds, ext : {"rs", "py", "ts", "tsx", "md"}, with : Contents]]
  <2>1. "gone" \in Contents
    BY DEF Contents
  <2>2. QED BY <1>1, <1>2, <2>1
<1>5. Allowed' = Allowed /\ Waiting' = Waiting
  BY <1>1 DEF Allowed, Waiting
<1>6. WalkTypes'
  BY <1>1, <1>4 DEF Walking, WalkTypes
<1>7. MetOnce'
  BY <1>1, <1>5 DEF Walking, MetOnce
<1>8. Sorted'
  <2>1. ASSUME NEW p \in AllPaths, NEW q \in AllPaths, IsPrefix(p, q), tree'[p].with = "gone"
        PROVE  tree'[q].with = "gone"
    <3>1. p \in Seq(Names) /\ q \in Seq(Names) /\ v \in Seq(Names)
      BY PathsAre
    <3>2. IsPrefix(v, p) => IsPrefix(v, q)
      BY <2>1, <3>1, PrefixOrder
    <3>3. ~IsPrefix(v, p) => tree[q].with = "gone"
      BY <1>3, <2>1 DEF Walking, Sorted
    <3>4. QED BY <1>3, <3>2, <3>3
  <2>2. (\A p \in Range(dirs) : p \in AllPaths) /\ \A p \in Range(found) : p \in AllPaths
    BY RangeIs DEF Walking, WalkTypes, AllPaths
  <2>3. \A p \in Range(dirs) : tree'[p].is = "directory"
    BY <1>3, <2>2 DEF Walking, Sorted
  <2>4. \A p \in Range(found) : tree'[p].ext \in Allowed
    BY <1>3, <2>2 DEF Walking, Sorted
  <2>5. QED BY <1>1, <1>5, <2>1, <2>3, <2>4 DEF Sorted
<1>9. Covered'
  <2>1. \A p : (Above(p))' = Above(p)
    BY <1>3 DEF Above
  <2>2. ASSUME NEW p \in Range(Paths), (Standing(p))' PROVE Standing(p)
    <3>1. p \in AllPaths /\ \A q \in Above(p) : q \in AllPaths
      BY <1>3 DEF Above, AllPaths
    <3>2. \A q \in Above(p) : tree'[q].is = "directory"
      BY <2>1, <2>2 DEF Standing
    <3>3. tree'[p].is = "file" /\ tree'[p].ext \in Allowed /\ tree'[p].with = "fits"
      BY <1>5, <2>2 DEF Standing
    <3>4. tree[p].with = "fits"
      BY <1>3, <3>1, <3>3
    <3>5. QED BY <1>3, <3>1, <3>2, <3>3, <3>4 DEF Standing
  <2>3. QED BY <1>1, <1>5, <2>1, <2>2 DEF Walking, Covered
<1>10. QED BY <1>1, <1>6, <1>7, <1>8, <1>9 DEF Walking

\* The languages of the files found, none of which is unknown.
LEMMA StacksFacts ==
    ASSUME NEW files, given = "none", \A p \in files : tree[p].ext \in Allowed, files # {}
    PROVE  /\ Cardinality(StacksOf(files)) = 1 \/ Cardinality(StacksOf(files)) > 1
           /\ Cardinality(StacksOf(files)) = 1 =>
                 /\ Detect(files) \in Stacks
                 /\ \A p \in files : tree[p].ext \in ExtensionsOf(Detect(files))
<1> DEFINE st == StacksOf(files)
<1>1. st \subseteq Stacks /\ \A p \in files : \E s \in st : tree[p].ext \in ExtensionsOf(s)
  BY DEF StacksOf, Allowed
<1>2. IsFiniteSet(Stacks)
  <2>1. IsFiniteSet({"rust", "python", "typescript"})
    <3>1. IsFiniteSet({}) /\ IsFiniteSet({"rust"})
      BY FS_EmptySet, FS_Singleton
    <3>2. IsFiniteSet({"rust"} \cup {"python"})
      BY <3>1, FS_AddElement
    <3>3. IsFiniteSet(({"rust"} \cup {"python"}) \cup {"typescript"})
      BY <3>2, FS_AddElement
    <3>4. ({"rust"} \cup {"python"}) \cup {"typescript"} = {"rust", "python", "typescript"}
      OBVIOUS
    <3>5. QED BY <3>3, <3>4
  <2>2. QED BY <2>1 DEF Stacks
<1>3. st # {}
  BY <1>1
<1>4. Detect(files) = IF Cardinality(st) = 1 THEN CHOOSE s \in st : TRUE ELSE "none"
  BY DEF Detect
<1> HIDE DEF st
<1>5. IsFiniteSet(st) /\ Cardinality(st) \in Nat /\ Cardinality(st) # 0
  BY <1>1, <1>2, <1>3, FS_Subset, FS_CardinalityType, FS_EmptySet
<1>6. Cardinality(st) = 1 \/ Cardinality(st) > 1
  <2> DEFINE n == Cardinality(st)
  <2>1. n \in Nat /\ n # 0
    BY <1>5
  <2> HIDE DEF n
  <2>2. n = 1 \/ n > 1
    BY <2>1
  <2>3. QED BY <2>2 DEF n
<1>7. ASSUME Cardinality(st) = 1
      PROVE  Detect(files) \in Stacks /\ \A p \in files : tree[p].ext \in ExtensionsOf(Detect(files))
  <2>1. PICK s : st = {s}
    BY <1>5, <1>7, FS_Singleton
  <2>2. Detect(files) = s
    BY <1>4, <1>7, <2>1
  <2>3. QED BY <1>1, <2>1, <2>2
<1>8. QED BY <1>6, <1>7 DEF st

\* The walk ends: what it found is sorted, cut into batches, and told.
LEMMA PackStep ==
    ASSUME walk = "walking", Walking, Pack
    PROVE  walk' # "walking" /\ BatchesCoverTree'
<1>1. /\ listing = {} /\ dirs = <<>> /\ UNCHANGED <<tree, given, dirs, listing, found>>
      /\ stored' = IF given = "none" THEN Detect(Range(found)) ELSE given
      /\ IF found = <<>> \/ stored' = "none"
         THEN walk' = "exit_error" /\ UNCHANGED packed
         ELSE walk' = "packed" /\ packed' = InBatches(InOrder(found, Paths))
  BY DEF Pack
<1>2. /\ found \in Seq(Range(Paths)) /\ Distinct(found) /\ given \in Stacks \cup {"none"}
      /\ \A p \in Range(found) : tree[p].ext \in Allowed
  BY DEF Walking, WalkTypes, MetOnce, Sorted
<1>3. /\ \A p : (Standing(p))' <=> Standing(p)
      /\ \A files : (StacksOf(files))' = StacksOf(files)
  BY <1>1 DEF Standing, Allowed, Above, StacksOf
<1>4. \A p \in Range(Paths) : Standing(p) => p \in Range(found)
  <2>1. Waiting = {}
    <3>1. dirs \in Seq(AllPaths)
      BY DEF Walking, WalkTypes
    <3>2. QED BY <1>1, <3>1, RangeEmpty DEF Waiting
  <2>2. QED BY <1>1, <2>1 DEF Walking, Covered
<1>5. found # <<>> => Range(found) # {}
  BY <1>2, RangeEmpty
<1>6. CASE found = <<>>
  <2>1. Range(found) = {}
    BY <1>2, <1>6, RangeEmpty
  <2>2. walk' = "exit_error" /\ \A p \in Range(Paths) : ~(Standing(p))'
    BY <1>1, <1>3, <1>4, <1>6, <2>1
  <2>3. QED BY <2>2 DEF BatchesCoverTree
<1>7. CASE found # <<>> /\ stored' = "none"
  <2>1. walk' = "exit_error"
    BY <1>1, <1>7
  <2>2. given = "none" /\ Detect(Range(found)) = "none"
    BY <1>1, <1>2, <1>7 DEF Stacks
  <2>3. Cardinality(StacksOf(Range(found))) > 1
    <3>1. "none" \notin Stacks
      BY DEF Stacks
    <3>2. QED BY <1>2, <1>5, <1>7, <2>2, <3>1, StacksFacts
  <2>4. Cardinality(StacksOf(Range(found)))' > 1
    BY <1>1, <1>3, <2>3
  <2>5. QED BY <2>1, <2>4 DEF BatchesCoverTree
<1>8. CASE found # <<>> /\ stored' # "none"
  <2> DEFINE sorted == InOrder(found, Paths)
             fit    == {b \in Seq(Range(Paths)) : Len(b) <= BatchSize}
             all    == Joined(packed')
  <2>1. walk' = "packed" /\ packed' = InChunks(sorted, fit)
    BY <1>1, <1>8 DEF InBatches
  <2>2. Paths \in Seq(Range(Paths)) /\ Distinct(Paths) /\ BatchSize \in Nat
    BY WalkAssumption, RangeIs DEF IsInjective, Distinct
  <2>3. sorted = Keep(Paths, Range(found))
    <3>1. sorted = Keep(Paths, {found[i] : i \in 1..Len(found)})
      BY <1>2, <2>2, InOrderKeeps
    <3>2. QED BY <1>2, <3>1, RangeIs
  <2> HIDE DEF sorted, fit, all
  <2>4. sorted \in Seq(Range(Paths)) /\ Distinct(sorted) /\ Range(sorted) = Range(found)
    <3> DEFINE F == Range(found)
               R == Range(Paths)
    <3>0. F \subseteq R /\ Paths \in Seq(R)
      BY <1>2, <2>2, RangeIs
    <3> HIDE DEF F
    <3>1. sorted \in Seq(R) /\ Distinct(sorted)
      BY <2>2, <2>3, KeepFacts, KeepDistinct DEF F
    <3>2. /\ \A i \in 1..Len(Paths) : Paths[i] \in F => \E j \in 1..Len(sorted) : sorted[j] = Paths[i]
          /\ \A j \in 1..Len(sorted) : \E i \in 1..Len(Paths) : sorted[j] = Paths[i] /\ Paths[i] \in F
      <4> DEFINE k == Keep(Paths, F)
      <4>1. /\ \A i \in 1..Len(Paths) : Paths[i] \in F => \E j \in 1..Len(k) : k[j] = Paths[i]
            /\ \A j \in 1..Len(k) : \E i \in 1..Len(Paths) : k[j] = Paths[i] /\ Paths[i] \in F
        BY <3>0, KeepFacts
      <4>2. sorted = k
        BY <2>3 DEF F
      <4> HIDE DEF k
      <4>3. QED BY <4>1, <4>2
    <3>3. Range(sorted) = {sorted[j] : j \in 1..Len(sorted)} /\ R = {Paths[i] : i \in 1..Len(Paths)}
      BY <2>2, <3>1, RangeIs
    <3>4. \A x : x \in Range(sorted) <=> x \in F
      BY <3>0, <3>2, <3>3
    <3>5. QED BY <3>1, <3>4 DEF F
  <2>5. all = sorted
    BY <2>1, <2>4, ChunksJoined DEF all
  <2>6. {p \in Range(Paths) : Standing(p)} \subseteq Range(all)
    BY <1>4, <2>4, <2>5
  <2>7. IsInjective(all)
    BY <2>4, <2>5 DEF IsInjective, Distinct
  <2>8. all = Keep(Paths, Range(all))
    BY <2>3, <2>4, <2>5
  <2>9. \A p \in Range(all) : tree[p].ext \in ExtensionsOf(stored')
    <3>1. CASE given = "none"
      <4>1. Cardinality(StacksOf(Range(found))) = 1
        <5>1. Detect(Range(found)) # "none"
          BY <1>1, <1>8, <3>1
        <5>2. QED BY <5>1 DEF Detect
      <4>2. QED BY <1>1, <1>2, <1>5, <1>8, <2>4, <2>5, <3>1, <4>1, StacksFacts
    <3>2. CASE given # "none"
      BY <1>1, <1>2, <2>4, <2>5, <3>2 DEF Allowed
    <3>3. QED BY <3>1, <3>2
  <2>10. \A i \in DOMAIN packed' : Len(packed'[i]) \in 1..(IF BatchSize = 0 THEN 1 ELSE BatchSize)
    <3> DEFINE R == Range(Paths)
               c == packed'
    <3>0. ChunksOf(R, sorted, fit, Len(sorted), InChunks(sorted, fit))
      BY <2>4, InChunksFacts
    <3>1. /\ c \in Seq(Seq(R))
          /\ \A i \in 1..Len(c) : c[i] # <<>> /\ (Len(c[i]) > 1 => c[i] \in fit)
      BY <2>1, <3>0 DEF ChunksOf
    <3>2. \A b \in fit : Len(b) <= BatchSize
      BY DEF fit
    <3> HIDE DEF c, R
    <3>3. ASSUME NEW i \in DOMAIN c PROVE Len(c[i]) \in 1..(IF BatchSize = 0 THEN 1 ELSE BatchSize)
      <4>1. i \in 1..Len(c) /\ c[i] \in Seq(R)
        BY <3>1
      <4>2. c[i] # <<>> /\ (Len(c[i]) > 1 => Len(c[i]) <= BatchSize)
        BY <3>1, <3>2, <4>1
      <4> DEFINE n == Len(c[i])
      <4>3. n \in Nat /\ n # 0
        BY <4>1, <4>2
      <4> HIDE DEF n
      <4>4. BatchSize \in Nat /\ (n > 1 => n <= BatchSize)
        BY <2>2, <4>2 DEF n
      <4>5. n \in 1..(IF BatchSize = 0 THEN 1 ELSE BatchSize)
        BY <4>3, <4>4
      <4>6. QED BY <4>5 DEF n
    <3>4. QED BY <3>3 DEF c
  <2>11. {p \in Range(Paths) : (Standing(p))'} = {p \in Range(Paths) : Standing(p)}
    BY <1>3
  <2>12. QED BY <1>1, <2>1, <2>6, <2>7, <2>8, <2>9, <2>10, <2>11 DEF BatchesCoverTree, all
<1>9. QED BY <1>1, <1>6, <1>7, <1>8

\* Whatever changes while the command walks, what it goes on to submit is, once
\* each and in the order of their names, files of the one stack they are stored
\* under, with every file that was there all the time; it gives up only for a
\* reason: a directory it could not read, no files, or several languages.
THEOREM BatchesCoverTreeThm == WalkSpec => []BatchesCoverTree
<1>1. WalkInv /\ [WalkNext]_wvars => WalkInv'
  <2> SUFFICES ASSUME WalkInv, [WalkNext]_wvars PROVE WalkInv'
    OBVIOUS
  <2>1. CASE OpenDirectory
    <3>1. walk = "walking"
      BY <2>1 DEF OpenDirectory
    <3>2. QED BY <2>1, <3>1, OpenStep DEF WalkInv
  <2>2. CASE Pack
    <3>1. walk = "walking"
      BY <2>2 DEF Pack
    <3>2. QED BY <2>2, <3>1, PackStep DEF WalkInv
  <2>3. ASSUME NEW p \in Range(Paths), Visit(p) PROVE WalkInv'
    <3>1. walk = "walking"
      BY <2>3 DEF Visit
    <3>2. walk' = "walking" /\ Walking'
      BY <2>3, <3>1, VisitStep DEF WalkInv
    <3>3. QED BY <3>2 DEF WalkInv, BatchesCoverTree
  <2>4. ASSUME NEW p \in Range(Paths), Vanish(p) PROVE WalkInv'
    <3>1. walk = "walking"
      BY <2>4 DEF Vanish
    <3>2. walk' = "walking" /\ Walking'
      BY <2>4, <3>1, VanishStep DEF WalkInv
    <3>3. QED BY <3>2 DEF WalkInv, BatchesCoverTree
  <2>5. CASE UNCHANGED wvars
    <3>1. /\ tree' = tree /\ given' = given /\ walk' = walk /\ dirs' = dirs /\ listing' = listing
          /\ found' = found /\ stored' = stored /\ packed' = packed
      BY <2>5 DEF wvars
    <3>2. Walking' <=> Walking
      BY <3>1 DEF Walking, WalkTypes, MetOnce, Sorted, Covered, Waiting, Allowed, Standing, Above
    <3>3. BatchesCoverTree' <=> BatchesCoverTree
      BY <3>1 DEF BatchesCoverTree, Standing, Allowed, Above, StacksOf
    <3>4. QED BY <3>1, <3>2, <3>3 DEF WalkInv
  <2>6. QED BY <2>1, <2>2, <2>3, <2>4, <2>5 DEF WalkNext
<1>2. WalkInv => BatchesCoverTree
  BY DEF WalkInv
<1>3. QED BY <1>1, <1>2, WalkInvInit, PTL DEF WalkSpec

=============================================================================
