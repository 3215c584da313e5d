--------------------------- MODULE CircuitBreaker ---------------------------
(***************************************************************************)
(* DependencyHealth (health.rs): a lock-free circuit breaker.              *)
(*                                                                         *)
(* The record of a dependency is three separate atomics: the state, the    *)
(* time of the last report and the last error.  check() and the reports    *)
(* read and write them one after the other, and nothing keeps the callers  *)
(* apart.  The module has the steps of one call of check(), report_failure()*)
(* or report_success(); what callers do between calls is for the modules    *)
(* that extend it.  Reading the clock and storing what it said is one step: *)
(* no caller is suspended for a whole recovery timeout between the two.     *)
(***************************************************************************)
CONSTANTS
    Deps,       \* the dependencies
    Callers     \* concurrent requests

VARIABLES
    state,      \* the state of each dependency
    expired,    \* has the recovery timeout passed since its last_checked_nanos?
    noted,      \* is there a last_error?
    pc, dep,    \* per caller: where it is, which dependency it deals with
    answer,     \*   what that dependency answered
    fresh       \* history: a failure was recorded less than a timeout ago

breakerVars == <<state, expired, noted>>

States  == {"healthy", "down", "half_open"}
Answers == {"ok", "content", "unavailable"}
CallPhases == {"check", "look", "probe", "admitted", "refused",
               "store", "stamp", "note", "reported"}

BreakerInit ==
    /\ state = [d \in Deps |-> "healthy"]
    /\ expired = [d \in Deps |-> FALSE]     \* last_checked_nanos is 0, the epoch is now
    /\ noted = [d \in Deps |-> FALSE]
    /\ fresh = [d \in Deps |-> FALSE]

Goto(r, place) == pc' = [pc EXCEPT ![r] = place]

-----------------------------------------------------------------------------
(* Faults.                                                                 *)

\* Half-open admits nobody but the caller that made it half-open.
LoadStateStrict(r) ==
    /\ pc[r] = "check"
    /\ Goto(r, CASE state[dep[r]] = "healthy" -> "admitted"
                 [] state[dep[r]] = "half_open" -> "refused"
                 [] OTHER -> "look")
    /\ UNCHANGED <<breakerVars, dep, answer, fresh>>

\* Every error is recorded as a failure.
StoreStateAnyError(r) ==
    LET failed == answer[r] # "ok" IN
    /\ pc[r] = "store"
    /\ state' = [state EXCEPT ![dep[r]] = IF failed THEN "down" ELSE "healthy"]
    /\ fresh' = [fresh EXCEPT ![dep[r]] = failed]
    /\ Goto(r, "stamp")
    /\ UNCHANGED <<expired, noted, dep, answer>>

-----------------------------------------------------------------------------
(* check().                                                                *)

\* Healthy and half-open dependencies may be called.
LoadState(r) ==
    /\ pc[r] = "check"
    /\ Goto(r, IF state[dep[r]] = "down" THEN "look" ELSE "admitted")
    /\ UNCHANGED <<breakerVars, dep, answer, fresh>>

\* Of one that was down the time of the last report is read.
LoadStamp(r) ==
    /\ pc[r] = "look"
    /\ Goto(r, IF expired[dep[r]] THEN "probe" ELSE "refused")
    /\ UNCHANGED <<breakerVars, dep, answer, fresh>>

\* The compare-exchange from down to half-open; either way the call is allowed.
TryHalfOpen(r) ==
    /\ pc[r] = "probe"
    /\ state' = [state EXCEPT ![dep[r]] = IF @ = "down" THEN "half_open" ELSE @]
    /\ Goto(r, "admitted")
    /\ UNCHANGED <<expired, noted, dep, answer, fresh>>

-----------------------------------------------------------------------------
(* report_failure(), report_success(): three stores.                       *)

StoreState(r) ==
    LET failed == answer[r] = "unavailable" IN
    /\ pc[r] = "store"
    /\ state' = [state EXCEPT ![dep[r]] = IF failed THEN "down" ELSE "healthy"]
    /\ fresh' = [fresh EXCEPT ![dep[r]] = failed]
    /\ Goto(r, "stamp")
    /\ UNCHANGED <<expired, noted, dep, answer>>

StoreStamp(r) ==
    /\ pc[r] = "stamp"
    /\ expired' = [expired EXCEPT ![dep[r]] = FALSE]
    /\ Goto(r, "note")
    /\ UNCHANGED <<state, noted, dep, answer, fresh>>

StoreNote(r) ==
    /\ pc[r] = "note"
    /\ noted' = [noted EXCEPT ![dep[r]] = answer[r] = "unavailable"]
    /\ Goto(r, "reported")
    /\ UNCHANGED <<state, expired, dep, answer, fresh>>

\* A failure whose state is stored and whose time is not.
Unstamped(d) ==
    \E r \in Callers : pc[r] = "stamp" /\ dep[r] = d /\ answer[r] = "unavailable"

\* The recovery timeout passes since the last report of d, and with it since any
\* failure recorded before that report.
Elapse(d) ==
    /\ ~expired[d]
    /\ expired' = [expired EXCEPT ![d] = TRUE]
    /\ fresh' = [fresh EXCEPT ![d] = @ /\ Unstamped(d)]
    /\ UNCHANGED <<state, noted, pc, dep, answer>>

BreakerStep(r) ==
    \/ LoadState(r) \/ LoadStamp(r) \/ TryHalfOpen(r)
    \/ StoreState(r) \/ StoreStamp(r) \/ StoreNote(r)

=============================================================================
