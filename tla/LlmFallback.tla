---------------------------- MODULE LlmFallback ----------------------------
(***************************************************************************)
(* FallbackLlmProvider (llm_fallback.rs): chat and context_window over a   *)
(* primary LLM backend and, if one is configured, a fallback, each behind  *)
(* its own circuit breaker.                                                *)
(*                                                                         *)
(* A caller of Callers is one request at a time, over and over again.      *)
(***************************************************************************)
EXTENDS CircuitBreaker

CONSTANT HasFallback    \* is a fallback configured?

ASSUME FallbackAssumption ==
    /\ HasFallback \in BOOLEAN
    /\ Deps = IF HasFallback THEN {"primary", "fallback"} ELSE {"primary"}

VARIABLES
    phase,      \* of the server: initializing a slot, serving, or failed to start
    kind,       \* per caller: chat or context_window
    verdict,    \*   how the primary dealt with its request
    outage      \* history: the backends that were ever unavailable

vars == <<breakerVars, pc, dep, answer, fresh, phase, kind, verdict, outage>>
request == <<kind, verdict>>

Init ==
    /\ BreakerInit
    /\ phase \in {"init_primary", "serving"}    \* init() is skipped without distillation
    /\ pc = [r \in Callers |-> "idle"]
    /\ dep = [r \in Callers |-> "primary"]
    /\ answer = [r \in Callers |-> "none"]
    /\ kind = [r \in Callers |-> "none"]
    /\ verdict = [r \in Callers |-> "none"]
    /\ outage = {}

-----------------------------------------------------------------------------
(* Faults.                                                                 *)

\* Every error of the primary is taken to the fallback.
FallsBackOnError(r, v) ==
    dep[r] = "primary" /\ HasFallback /\ (kind[r] = "window" \/ v # "ok")

-----------------------------------------------------------------------------
(* Start: init() of the slots, before anybody is served.                   *)

InitSlot(d, ok, next) ==
    /\ state' = [state EXCEPT ![d] = IF ok THEN "healthy" ELSE "down"]
    /\ expired' = [expired EXCEPT ![d] = FALSE]
    /\ noted' = [noted EXCEPT ![d] = ~ok]
    /\ fresh' = [fresh EXCEPT ![d] = ~ok]
    /\ outage' = IF ok THEN outage ELSE outage \cup {d}
    /\ phase' = next
    /\ UNCHANGED <<pc, dep, answer, request>>

InitPrimary ==
    /\ phase = "init_primary"
    /\ \/ InitSlot("primary", TRUE, "serving")
       \/ InitSlot("primary", FALSE, IF HasFallback THEN "init_fallback" ELSE "failed")

InitFallback ==
    /\ phase = "init_fallback"
    /\ \E ok \in BOOLEAN : InitSlot("fallback", ok, IF ok THEN "serving" ELSE "failed")

-----------------------------------------------------------------------------
(* Requests.                                                               *)

\* chat or context_window is called: first the breaker of the primary.
Start(r) ==
    /\ phase = "serving"
    /\ pc[r] = "idle"
    /\ \E k \in {"chat", "window"} : kind' = [kind EXCEPT ![r] = k]
    /\ Goto(r, "check")
    /\ UNCHANGED <<breakerVars, dep, answer, fresh, phase, verdict, outage>>

\* A chat goes on to the fallback when the primary's breaker is open or the
\* primary was unavailable; a context_window asks both in any case.
FallsBack(r, v) ==
    dep[r] = "primary" /\ HasFallback
    /\ (kind[r] = "window" \/ v \in {"refused", "unavailable"})

\* What follows when the current backend has dealt with the request.
Leave(r, v) ==
    /\ answer' = [answer EXCEPT ![r] = "none"]
    /\ \/ /\ FallsBack(r, v)
          /\ Goto(r, "check")
          /\ dep' = [dep EXCEPT ![r] = "fallback"]
          /\ verdict' = [verdict EXCEPT ![r] = v]
          /\ UNCHANGED kind
       \/ /\ ~FallsBack(r, v)
          /\ Goto(r, "idle")
          /\ dep' = [dep EXCEPT ![r] = "primary"]
          /\ verdict' = [verdict EXCEPT ![r] = "none"]
          /\ kind' = [kind EXCEPT ![r] = "none"]
    /\ UNCHANGED <<breakerVars, fresh, phase>>

Refused(r) ==
    /\ pc[r] = "refused"
    /\ Leave(r, "refused")
    /\ UNCHANGED outage

\* Slot::chat: the backend is sent the messages; its answer will be reported.
Chat(r) ==
    /\ pc[r] = "admitted"
    /\ kind[r] = "chat"
    /\ \E a \in Answers :
          /\ answer' = [answer EXCEPT ![r] = a]
          /\ outage' = IF a = "unavailable" THEN outage \cup {dep[r]} ELSE outage
    /\ Goto(r, "store")
    /\ UNCHANGED <<breakerVars, dep, fresh, phase, request>>

\* The backend's context window, known or not: nothing is reported.
Window(r) ==
    /\ pc[r] = "admitted"
    /\ kind[r] = "window"
    /\ Leave(r, "window")
    /\ UNCHANGED outage

Reported(r) ==
    /\ pc[r] = "reported"
    /\ Leave(r, answer[r])
    /\ UNCHANGED outage

Step(r) ==
    \/ BreakerStep(r) /\ UNCHANGED <<phase, request, outage>>
    \/ Refused(r) \/ Chat(r) \/ Window(r) \/ Reported(r)
Time(d) == Elapse(d) /\ UNCHANGED <<phase, request, outage>>

Next ==
    \/ InitPrimary \/ InitFallback
    \/ \E r \in Callers : Start(r) \/ Step(r)
    \/ \E d \in Deps : Time(d)

Spec == Init /\ [][Next]_vars

\* Requests are polled, backends answer or their clients give up, time passes.
Fairness ==
    /\ \A r \in Callers : WF_vars(Step(r))
    /\ \A d \in Deps : WF_vars(Time(d))
FairSpec == Spec /\ Fairness

-----------------------------------------------------------------------------
(* Properties.                                                             *)

TypeOK ==
    /\ state \in [Deps -> States]
    /\ expired \in [Deps -> BOOLEAN] /\ noted \in [Deps -> BOOLEAN]
    /\ fresh \in [Deps -> BOOLEAN]
    /\ pc \in [Callers -> {"idle"} \cup CallPhases]
    /\ dep \in [Callers -> Deps]
    /\ answer \in [Callers -> {"none"} \cup Answers]
    /\ phase \in {"init_primary", "init_fallback", "serving", "failed"}
    /\ kind \in [Callers -> {"none", "chat", "window"}]
    /\ verdict \in [Callers -> {"none", "refused", "unavailable", "window"}]
    /\ outage \subseteq Deps

\* "falling back only when the primary is unavailable": the messages of a chat
\* reach the fallback only if the primary was unavailable for this request, or
\* its breaker was open; and if that was so after a real outage of the primary,
\* not because it rejected some request's content.
ContentStaysLocal ==
    \A r \in Callers : kind[r] = "chat" /\ dep[r] = "fallback" =>
        verdict[r] \in {"refused", "unavailable"} /\ "primary" \in outage

\* "marks a serving backend Down for a fault it did not cause": never. The breaker
\* of a backend that always answered is closed, whatever overlaps.
OnlyOutagesTrip ==
    \A d \in Deps : state[d] # "healthy" \/ noted[d] => d \in outage

\* A failure is not forgotten before its timeout: a recorded time that has
\* expired is never older than a recent failure, but for the moment between
\* the failure's two stores.
TimeoutHonoured == \A d \in Deps : fresh[d] /\ expired[d] => Unstamped(d)

\* A backend that answers again is used again, and shown healthy without an
\* error: also when its probes are context_window calls, which report nothing,
\* and when reports of failures are still on their way.
Answering(d) == ~\E r \in Callers : dep[r] = d /\ answer[r] = "unavailable"
Asked(d)     == \E r \in Callers : dep[r] = d /\ kind[r] = "chat" /\ pc[r] = "check"
Recovers ==
    \A d \in Deps : <>[]Answering(d) /\ []<>Asked(d)
                      => <>[](state[d] = "healthy" /\ ~noted[d])

=============================================================================
