----------------------------- MODULE LlmProofs -----------------------------
(***************************************************************************)
(* Proofs about the LLM backends: LlmFallback, for any number of callers,  *)
(* with a fallback or without one; LlmClient, for any slots; and LlmConfig *)
(* for any contents of the environment and of the two files.               *)
(***************************************************************************)
EXTENDS LlmFallback, LlmConfig, LlmClient, TLAPS

Reporting == {"store", "stamp", "note", "reported"}

\* What a request is doing agrees with what it is.
Shape ==
    /\ phase = "init_fallback" => HasFallback
    /\ \A r \in Callers : pc[r] = "idle" => dep[r] = "primary"
    /\ \A r \in Callers : pc[r] \in Reporting => kind[r] = "chat" /\ answer[r] \in Answers

\* A caller that found a breaker open, or holds an outage to report, is right.
Witnessed ==
    \A r \in Callers :
        pc[r] \in {"look", "probe", "refused"} \/ answer[r] = "unavailable"
            => dep[r] \in outage

Safe == OnlyOutagesTrip /\ Witnessed /\ ContentStaysLocal

LEMMA DepsKnown ==
    /\ "primary" \in Deps
    /\ HasFallback => "fallback" \in Deps
    /\ \A d \in Deps : d \in {"primary", "fallback"}
BY FallbackAssumption

-----------------------------------------------------------------------------
(* Types.                                                                  *)

LEMMA LeaveTyped ==
  ASSUME TypeOK, Shape, NEW r \in Callers, NEW v,
         v \in {"refused", "unavailable"} \/ (v = "window" /\ kind[r] = "window")
             \/ ~FallsBack(r, v),
         Leave(r, v), outage' = outage
  PROVE  TypeOK' /\ Shape'
<1>1. CASE FallsBack(r, v)
  <2>1. /\ pc' = [pc EXCEPT ![r] = "check"] /\ dep' = [dep EXCEPT ![r] = "fallback"]
        /\ verdict' = [verdict EXCEPT ![r] = v] /\ kind' = kind
        /\ answer' = [answer EXCEPT ![r] = "none"]
        /\ UNCHANGED <<state, expired, noted, fresh, phase>>
    BY <1>1 DEF Leave, Goto, breakerVars
  <2>2. HasFallback /\ v \in {"refused", "unavailable", "window"}
    BY <1>1 DEF FallsBack
  <2>3. TypeOK'
    BY <2>1, <2>2, DepsKnown DEF TypeOK, CallPhases
  <2>4. Shape'
    BY <2>1 DEF TypeOK, Shape, Reporting
  <2>5. QED BY <2>3, <2>4
<1>2. CASE ~FallsBack(r, v)
  <2>1. /\ pc' = [pc EXCEPT ![r] = "idle"] /\ dep' = [dep EXCEPT ![r] = "primary"]
        /\ verdict' = [verdict EXCEPT ![r] = "none"] /\ kind' = [kind EXCEPT ![r] = "none"]
        /\ answer' = [answer EXCEPT ![r] = "none"]
        /\ UNCHANGED <<state, expired, noted, fresh, phase>>
    BY <1>2 DEF Leave, Goto, breakerVars
  <2>2. TypeOK'
    BY <2>1, DepsKnown DEF TypeOK
  <2>3. Shape'
    BY <2>1 DEF TypeOK, Shape, Reporting
  <2>4. QED BY <2>2, <2>3
<1>3. QED BY <1>1, <1>2

LEMMA TypedInit == Init => TypeOK /\ Shape
<1> SUFFICES ASSUME Init PROVE TypeOK /\ Shape
  OBVIOUS
<1>1. state \in [Deps -> States]
  BY DEF Init, BreakerInit, States
<1>2. TypeOK
  BY <1>1, DepsKnown DEF Init, BreakerInit, TypeOK
<1>3. Shape
  BY DEF Init, Shape, Reporting
<1>4. QED BY <1>2, <1>3

LEMMA TypedStep == TypeOK /\ Shape /\ [Next]_vars => TypeOK' /\ Shape'
<1> SUFFICES ASSUME TypeOK, Shape, [Next]_vars PROVE TypeOK' /\ Shape'
  OBVIOUS
<1> USE DEF TypeOK, Shape, Reporting, Goto, breakerVars
<1>1. CASE InitPrimary
  <2>1. UNCHANGED <<pc, dep, answer, kind, verdict>>
    BY <1>1 DEF InitPrimary, InitSlot, request
  <2>2. /\ state' \in [Deps -> States] /\ expired' \in [Deps -> BOOLEAN]
        /\ noted' \in [Deps -> BOOLEAN] /\ fresh' \in [Deps -> BOOLEAN]
    BY <1>1 DEF InitPrimary, InitSlot, States
  <2>3. /\ outage' \subseteq Deps /\ phase' \in {"init_fallback", "serving", "failed"}
        /\ phase' = "init_fallback" => HasFallback
    BY <1>1, DepsKnown DEF InitPrimary, InitSlot
  <2>4. TypeOK' BY <2>1, <2>2, <2>3
  <2>5. Shape' BY <2>1, <2>3
  <2>6. QED BY <2>4, <2>5
<1>2. CASE InitFallback
  <2>1. UNCHANGED <<pc, dep, answer, kind, verdict>>
    BY <1>2 DEF InitFallback, InitSlot, request
  <2>2. /\ state' \in [Deps -> States] /\ expired' \in [Deps -> BOOLEAN]
        /\ noted' \in [Deps -> BOOLEAN] /\ fresh' \in [Deps -> BOOLEAN]
    <3>1. PICK ok \in BOOLEAN : InitSlot("fallback", ok, IF ok THEN "serving" ELSE "failed")
      BY <1>2 DEF InitFallback
    <3>2. state' \in [Deps -> States] /\ expired' \in [Deps -> BOOLEAN]
      BY <3>1 DEF InitSlot, States
    <3>3. noted' \in [Deps -> BOOLEAN] /\ fresh' \in [Deps -> BOOLEAN]
      BY <3>1 DEF InitSlot
    <3>4. QED BY <3>2, <3>3
  <2>3. /\ outage' \subseteq Deps /\ phase' \in {"init_fallback", "serving", "failed"}
        /\ phase' = "init_fallback" => HasFallback
    BY <1>2, DepsKnown DEF InitFallback, InitSlot
  <2>4. TypeOK' BY <2>1, <2>2, <2>3
  <2>5. Shape' BY <2>1, <2>3
  <2>6. QED BY <2>4, <2>5
<1>3. ASSUME NEW r \in Callers, Start(r) PROVE TypeOK' /\ Shape'
  BY <1>3 DEF Start, CallPhases
<1>4. ASSUME NEW r \in Callers, BreakerStep(r), UNCHANGED <<phase, request, outage>>
      PROVE  TypeOK' /\ Shape'
  <2>1. CASE LoadState(r)
    BY <1>4, <2>1 DEF LoadState, request, CallPhases
  <2>2. CASE LoadStamp(r)
    BY <1>4, <2>2 DEF LoadStamp, request, CallPhases
  <2>3. CASE TryHalfOpen(r)
    BY <1>4, <2>3 DEF TryHalfOpen, request, CallPhases, States
  <2>4. CASE StoreState(r)
    BY <1>4, <2>4 DEF StoreState, request, CallPhases, States
  <2>5. CASE StoreStamp(r)
    BY <1>4, <2>5 DEF StoreStamp, request, CallPhases
  <2>6. CASE StoreNote(r)
    BY <1>4, <2>6 DEF StoreNote, request, CallPhases
  <2>7. QED BY <1>4, <2>1, <2>2, <2>3, <2>4, <2>5, <2>6 DEF BreakerStep
<1>5. ASSUME NEW r \in Callers, Refused(r) PROVE TypeOK' /\ Shape'
  BY <1>5, LeaveTyped DEF Refused
<1>6. ASSUME NEW r \in Callers, Chat(r) PROVE TypeOK' /\ Shape'
  BY <1>6 DEF Chat, request, CallPhases
<1>7. ASSUME NEW r \in Callers, Window(r) PROVE TypeOK' /\ Shape'
  BY <1>7, LeaveTyped DEF Window
<1>8. ASSUME NEW r \in Callers, Reported(r) PROVE TypeOK' /\ Shape'
  BY <1>8, LeaveTyped DEF Reported, FallsBack
<1>9. ASSUME NEW d \in Deps, Time(d) PROVE TypeOK' /\ Shape'
  BY <1>9 DEF Time, Elapse, request
<1>10. CASE UNCHANGED vars
  BY <1>10 DEF vars, request
<1>11. QED
  BY <1>1, <1>2, <1>3, <1>4, <1>5, <1>6, <1>7, <1>8, <1>9, <1>10 DEF Next, Step

\* Every reachable state of the fallback provider is well typed.
THEOREM FallbackTypeCorrect == Spec => []TypeOK
BY TypedInit, TypedStep, PTL DEF Spec

THEOREM Typed == Spec => [](TypeOK /\ Shape)
BY TypedInit, TypedStep, PTL DEF Spec

-----------------------------------------------------------------------------
(* Outages.                                                                *)

LEMMA LeaveSafe ==
  ASSUME TypeOK, Shape, Safe, NEW r \in Callers, NEW v,
         Leave(r, v), outage' = outage,
         v \in {"refused", "unavailable"} => dep[r] \in outage
  PROVE  Safe'
<1>1. /\ state' = state /\ noted' = noted /\ answer' = [answer EXCEPT ![r] = "none"]
      /\ \A w \in Callers \ {r} : /\ pc'[w] = pc[w] /\ dep'[w] = dep[w]
                                  /\ kind'[w] = kind[w] /\ verdict'[w] = verdict[w]
                                  /\ answer'[w] = answer[w]
      /\ pc'[r] \in {"check", "idle"} /\ answer'[r] = "none"
  BY DEF Leave, Goto, breakerVars, TypeOK
<1>2. OnlyOutagesTrip'
  BY <1>1 DEF Safe, OnlyOutagesTrip
<1>3. Witnessed'
  BY <1>1 DEF Safe, Witnessed
<1>4. ContentStaysLocal'
  <2>1. CASE FallsBack(r, v)
    <3>1. kind'[r] = kind[r] /\ verdict'[r] = v
      BY <2>1 DEF Leave, TypeOK
    <3>2. kind[r] = "chat" => v \in {"refused", "unavailable"} /\ "primary" \in outage
      BY <2>1 DEF FallsBack
    <3>3. QED BY <1>1, <3>1, <3>2 DEF Safe, ContentStaysLocal
  <2>2. CASE ~FallsBack(r, v)
    <3>1. dep'[r] = "primary"
      BY <2>2 DEF Leave, TypeOK
    <3>2. QED BY <1>1, <3>1 DEF Safe, ContentStaysLocal
  <2>3. QED BY <2>1, <2>2
<1>5. QED BY <1>2, <1>3, <1>4 DEF Safe

LEMMA SafeInit == Init => Safe
BY DEF Init, BreakerInit, Safe, OnlyOutagesTrip, Witnessed, ContentStaysLocal

LEMMA SafeStep == TypeOK /\ Shape /\ Safe /\ [Next]_vars => Safe'
<1> SUFFICES ASSUME TypeOK, Shape, Safe, [Next]_vars PROVE Safe'
  OBVIOUS
<1> USE DEF Safe, OnlyOutagesTrip, Witnessed, ContentStaysLocal, Goto, breakerVars
<1>1. CASE InitPrimary
  BY <1>1, DepsKnown DEF InitPrimary, InitSlot, request, TypeOK
<1>2. CASE InitFallback
  BY <1>2, DepsKnown DEF InitFallback, InitSlot, request, TypeOK
<1>3. ASSUME NEW r \in Callers, Start(r) PROVE Safe'
  <2>1. /\ dep' = dep /\ verdict' = verdict /\ outage' = outage /\ answer' = answer
        /\ state' = state /\ noted' = noted /\ pc[r] = "idle" /\ pc'[r] = "check"
        /\ \A w \in Callers \ {r} : pc'[w] = pc[w] /\ kind'[w] = kind[w]
    BY <1>3 DEF Start, TypeOK
  <2>2. dep[r] # "fallback"
    BY <2>1 DEF Shape
  <2>3. QED BY <2>1, <2>2
<1>4. ASSUME NEW r \in Callers, BreakerStep(r), UNCHANGED <<phase, request, outage>> PROVE Safe'
  <2>0. kind' = kind /\ verdict' = verdict /\ outage' = outage
    BY <1>4 DEF request
  <2>1. CASE LoadState(r)
    BY <2>0, <2>1 DEF LoadState, TypeOK
  <2>2. CASE LoadStamp(r)
    BY <2>0, <2>2 DEF LoadStamp, TypeOK
  <2>3. CASE TryHalfOpen(r)
    BY <2>0, <2>3 DEF TryHalfOpen, TypeOK
  <2>4. CASE StoreState(r)
    BY <2>0, <2>4 DEF StoreState, TypeOK
  <2>5. CASE StoreStamp(r)
    BY <2>0, <2>5 DEF StoreStamp, TypeOK
  <2>6. CASE StoreNote(r)
    BY <2>0, <2>6 DEF StoreNote, TypeOK
  <2>7. QED BY <1>4, <2>1, <2>2, <2>3, <2>4, <2>5, <2>6 DEF BreakerStep
<1>5. ASSUME NEW r \in Callers, Refused(r) PROVE Safe'
  BY <1>5, LeaveSafe DEF Refused
<1>6. ASSUME NEW r \in Callers, Chat(r) PROVE Safe'
  BY <1>6 DEF Chat, request, TypeOK
<1>7. ASSUME NEW r \in Callers, Window(r) PROVE Safe'
  BY <1>7, LeaveSafe DEF Window
<1>8. ASSUME NEW r \in Callers, Reported(r) PROVE Safe'
  <2>1. answer[r] \in Answers /\ pc[r] = "reported"
    BY <1>8 DEF Reported, Shape, Reporting
  <2>2. QED BY <1>8, <2>1, LeaveSafe DEF Reported, Answers
<1>9. ASSUME NEW d \in Deps, Time(d) PROVE Safe'
  BY <1>9 DEF Time, Elapse, request
<1>10. CASE UNCHANGED vars
  BY <1>10 DEF vars, request
<1>11. QED
  BY <1>1, <1>2, <1>3, <1>4, <1>5, <1>6, <1>7, <1>8, <1>9, <1>10 DEF Next, Step

THEOREM FallbackSafe == Spec => []Safe
<1>1. Spec => [](TypeOK /\ Shape)
  BY Typed
<1>2. QED BY <1>1, SafeInit, SafeStep, PTL DEF Spec

\* The messages of a chat reach the fallback only after a real outage of the primary.
THEOREM ContentKeptLocal == Spec => []ContentStaysLocal
<1>1. Safe => ContentStaysLocal BY DEF Safe
<1>2. QED BY <1>1, FallbackSafe, PTL

\* The breaker of a backend that always answered is never opened.
THEOREM NoFalseTrip == Spec => []OnlyOutagesTrip
<1>1. Safe => OnlyOutagesTrip BY DEF Safe
<1>2. QED BY <1>1, FallbackSafe, PTL

-----------------------------------------------------------------------------
(* The recovery timeout.                                                   *)

LEMMA StampKept ==
  ASSUME NEW d \in Deps, Unstamped(d), dep' = dep,
         \A r \in Callers : pc[r] = "stamp" => pc'[r] = "stamp" /\ answer'[r] = answer[r]
  PROVE  Unstamped(d)'
BY DEF Unstamped

LEMMA TimeoutStep == TypeOK /\ Shape /\ TimeoutHonoured /\ [Next]_vars => TimeoutHonoured'
<1> SUFFICES ASSUME TypeOK, Shape, TimeoutHonoured, [Next]_vars PROVE TimeoutHonoured'
  OBVIOUS
\* A step that touches neither times nor the callers between two stores.
<1>0. ASSUME fresh' = fresh, expired' = expired,
             \A r \in Callers : pc[r] = "stamp" =>
                 pc'[r] = "stamp" /\ answer'[r] = answer[r] /\ dep'[r] = dep[r]
      PROVE  TimeoutHonoured'
  BY <1>0 DEF TimeoutHonoured, Unstamped
<1> USE DEF Goto, breakerVars
<1>1. CASE InitPrimary
  <2>1. pc' = pc /\ dep' = dep /\ answer' = answer
    BY <1>1 DEF InitPrimary, InitSlot
  <2>2. \A d \in Deps : fresh'[d] /\ expired'[d] => fresh[d] /\ expired[d]
    BY <1>1, DepsKnown DEF InitPrimary, InitSlot, TypeOK
  <2>3. QED BY <2>1, <2>2 DEF TimeoutHonoured, Unstamped
<1>2. CASE InitFallback
  <2>1. pc' = pc /\ dep' = dep /\ answer' = answer
    BY <1>2 DEF InitFallback, InitSlot
  <2>2. \A d \in Deps : fresh'[d] /\ expired'[d] => fresh[d] /\ expired[d]
    BY <1>2, DepsKnown DEF InitFallback, InitSlot, TypeOK, Shape
  <2>3. QED BY <2>1, <2>2 DEF TimeoutHonoured, Unstamped
<1>3. ASSUME NEW r \in Callers, Start(r) PROVE TimeoutHonoured'
  BY <1>0, <1>3 DEF Start, TypeOK
<1>4. ASSUME NEW r \in Callers, BreakerStep(r) PROVE TimeoutHonoured'
  <2>1. CASE LoadState(r)
    BY <1>0, <2>1 DEF LoadState, TypeOK
  <2>2. CASE LoadStamp(r)
    BY <1>0, <2>2 DEF LoadStamp, TypeOK
  <2>3. CASE TryHalfOpen(r)
    BY <1>0, <2>3 DEF TryHalfOpen, TypeOK
  <2>4. CASE StoreState(r)
    <3>1. /\ pc' = [pc EXCEPT ![r] = "stamp"] /\ dep' = dep /\ answer' = answer
          /\ fresh' = [fresh EXCEPT ![dep[r]] = (answer[r] = "unavailable")]
          /\ expired' = expired
      BY <2>4 DEF StoreState
    <3>2. ASSUME NEW d \in Deps, fresh'[d], expired'[d], d = dep[r] PROVE Unstamped(d)'
      <4>1. answer[r] = "unavailable" BY <3>1, <3>2 DEF TypeOK
      <4>2. pc'[r] = "stamp" BY <3>1 DEF TypeOK
      <4>3. QED BY <3>1, <3>2, <4>1, <4>2 DEF Unstamped
    <3>3. ASSUME NEW d \in Deps, fresh'[d], expired'[d], d # dep[r] PROVE Unstamped(d)'
      <4>1. Unstamped(d) BY <3>1, <3>3 DEF TypeOK, TimeoutHonoured
      <4>2. \A q \in Callers : pc[q] = "stamp" => pc'[q] = "stamp" /\ answer'[q] = answer[q]
        BY <3>1 DEF TypeOK
      <4>3. QED BY <3>1, <4>1, <4>2, StampKept
    <3>4. QED BY <3>2, <3>3 DEF TimeoutHonoured
  <2>5. CASE StoreStamp(r)
    <3>1. /\ pc' = [pc EXCEPT ![r] = "note"] /\ dep' = dep /\ answer' = answer
          /\ fresh' = fresh /\ expired' = [expired EXCEPT ![dep[r]] = FALSE]
      BY <2>5 DEF StoreStamp
    <3>2. ASSUME NEW d \in Deps, fresh'[d], expired'[d] PROVE Unstamped(d)'
      <4>1. d # dep[r] /\ Unstamped(d)
        BY <3>1, <3>2 DEF TypeOK, TimeoutHonoured
      <4>2. PICK q \in Callers : pc[q] = "stamp" /\ dep[q] = d /\ answer[q] = "unavailable"
        BY <4>1 DEF Unstamped
      <4>3. pc'[q] = "stamp"
        BY <3>1, <4>1, <4>2 DEF TypeOK
      <4>4. QED BY <3>1, <4>2, <4>3 DEF Unstamped
    <3>3. QED BY <3>2 DEF TimeoutHonoured
  <2>6. CASE StoreNote(r)
    BY <1>0, <2>6 DEF StoreNote, TypeOK
  <2>7. QED BY <1>4, <2>1, <2>2, <2>3, <2>4, <2>5, <2>6 DEF BreakerStep
<1>5. ASSUME NEW r \in Callers, NEW v, Leave(r, v), pc[r] # "stamp" PROVE TimeoutHonoured'
  BY <1>0, <1>5 DEF Leave, TypeOK
<1>6. ASSUME NEW r \in Callers, Chat(r) PROVE TimeoutHonoured'
  BY <1>0, <1>6 DEF Chat, TypeOK
<1>7. ASSUME NEW r \in Callers, Refused(r) \/ Window(r) \/ Reported(r) PROVE TimeoutHonoured'
  BY <1>5, <1>7 DEF Refused, Window, Reported
<1>8. ASSUME NEW d \in Deps, Time(d) PROVE TimeoutHonoured'
  <2>1. /\ pc' = pc /\ dep' = dep /\ answer' = answer
        /\ expired' = [expired EXCEPT ![d] = TRUE]
        /\ fresh' = [fresh EXCEPT ![d] = @ /\ Unstamped(d)]
    BY <1>8 DEF Time, Elapse
  <2>2. ASSUME NEW e \in Deps, fresh'[e], expired'[e] PROVE Unstamped(e)
    BY <2>1, <2>2 DEF TypeOK, TimeoutHonoured
  <2>3. QED BY <2>1, <2>2 DEF TimeoutHonoured, Unstamped
<1>9. CASE UNCHANGED vars
  BY <1>0, <1>9 DEF vars
<1>10. QED
  BY <1>1, <1>2, <1>3, <1>4, <1>6, <1>7, <1>8, <1>9 DEF Next, Step

\* No recent failure has an expired time, but for the moment between its two stores.
THEOREM TimeoutSafe == Spec => []TimeoutHonoured
<1>1. Init => TimeoutHonoured
  BY DEF Init, BreakerInit, TimeoutHonoured
<1>2. Spec => [](TypeOK /\ Shape)
  BY Typed
<1>3. QED BY <1>1, <1>2, TimeoutStep, PTL DEF Spec

-----------------------------------------------------------------------------
(* The client of a slot.                                                   *)

\* What it was made for.
Proper(c) ==
    /\ CloudSlot => c.api = (IF slot.kind = "anthropic" THEN "anthropic" ELSE "openai")
    /\ ~CloudSlot => c.api = "ollama" /\ c.via \in {"ollama-rs", "genai"}
    /\ c.via = "ollama-rs" => c.model.space = "none"
    /\ CloudSlot => c.via = "genai"
    /\ c.dest = Nowhere \/ c.dest.host = Home

\* What it sends: to its slot's host, in its slot's protocol, and a chat as
\* the backend wants it.
Sound(w) ==
    /\ DOMAIN w = {"what", "dest", "api", "key", "body", "space", "adaptive", "options", "prompt"}
    /\ CloudSlot => w.api = (IF slot.kind = "anthropic" THEN "anthropic" ELSE "openai")
    /\ ~CloudSlot => w.api = "ollama"
    /\ w.dest # Nowhere /\ (w.key \/ CloudSlot \/ hops = 0) => w.dest.host = Home
    /\ hops = 0 => ~Rejected(w)

\* The last chat that a backend in order had.
Answered == fine # "no" => result = "ok" \/ LacksVersion \/ (BreaksJsonMode /\ fine = "json")

ClientInv ==
    /\ slot \in ClientSlots /\ features \in Features /\ hops \in Nat
    /\ CloudSlot => hops = 0
    /\ OwnModel => /\ \A c \in client : Proper(c)
                   /\ \A w \in wire : Sound(w)
                   /\ Answered

LEMMA SendSound ==
    ASSUME ClientInv, NEW what, NEW c \in client, NEW o, Send(what, c, o)
    PROVE  ClientInv'
<1>1. /\ UNCHANGED <<slot, features, client>> /\ hops' = 0 /\ fine' = "no"
      /\ wire' = {[what |-> what, dest |-> c.dest, api |-> c.api, key |-> c.key, body |-> TRUE,
                   space |-> IF c.via = "genai" THEN "none" ELSE c.model.space,
                   adaptive |-> c.model.adaptive, options |-> Parameters(c, o), prompt |-> Prompt(c, o)]}
  BY DEF Send
<1>2. ASSUME OwnModel, NEW w \in wire' PROVE Sound(w)'
  <2>1. Proper(c)
    BY <1>2 DEF ClientInv
  <2>2. w = [what |-> what, dest |-> c.dest, api |-> c.api, key |-> c.key, body |-> TRUE,
             space |-> IF c.via = "genai" THEN "none" ELSE c.model.space,
             adaptive |-> c.model.adaptive, options |-> Parameters(c, o), prompt |-> Prompt(c, o)]
    BY <1>1
  <2>3. /\ DOMAIN w = {"what", "dest", "api", "key", "body", "space", "adaptive", "options", "prompt"}
        /\ w.dest = c.dest /\ w.api = c.api /\ w.options = Parameters(c, o)
        /\ w.space = IF c.via = "genai" THEN "none" ELSE c.model.space
    BY <2>2
  <2>4. w.space = "none" \/ CloudSlot
    BY <2>1, <2>3 DEF Proper
  <2>5. (w.options.temperature => ~CloudSlot) /\ (c.api = "anthropic" => w.options.max_tokens /\ ~w.options.json)
    <3>1. /\ w.options.temperature = (o.temperature /\ ~CloudSlot)
          /\ w.options.max_tokens = (o.max_tokens \/ c.api = "anthropic")
          /\ w.options.json = (o.json /\ c.api # "anthropic")
      BY <2>3 DEF Parameters
    <3>2. QED BY <3>1, Zenon
  <2>6. c.api = "anthropic" /\ w.adaptive => w.options.effort = "low"
    <3>1. w.adaptive <=> c.model.adaptive
      BY <2>2
    <3>2. w.options.effort = Effort(c)
      BY <2>3 DEF Parameters
    <3>3. QED BY <3>1, <3>2 DEF Effort
  <2>7. ~Rejected(w)
    BY <2>1, <2>3, <2>4, <2>5, <2>6 DEF Rejected, Proper, CloudSlot
  <2>8. CloudSlot' = CloudSlot /\ Home' = Home /\ (Rejected(w))' = Rejected(w)
    BY <1>1 DEF CloudSlot, Home, Rejected
  <2>9. QED BY <1>1, <2>1, <2>3, <2>7, <2>8 DEF Sound, Proper, CloudSlot, Rejected, Home
<1>3. OwnModel => Answered'
  BY <1>1 DEF Answered
<1>4. QED BY <1>1, <1>2, <1>3 DEF ClientInv, OwnModel, Proper, CloudSlot, Home

LEMMA EndSound ==
    ASSUME ClientInv, NEW outcome, NEW mode, End(outcome, mode),
           OwnModel => mode = "no" \/ outcome = "ok" \/ LacksVersion \/ (BreaksJsonMode /\ mode = "json")
    PROVE  ClientInv'
<1>1. /\ UNCHANGED <<slot, features, client>> /\ wire' = {} /\ hops' = 0
      /\ result' = outcome /\ fine' = mode
  BY DEF End
<1>2. OwnModel => Answered'
  BY <1>1 DEF Answered, LacksVersion, BreaksJsonMode
<1>3. QED BY <1>1, <1>2 DEF ClientInv, OwnModel, Proper, CloudSlot, Home

LEMMA BuildSound == ASSUME ClientInv, Build PROVE ClientInv'
<1>1. UNCHANGED <<slot, features, wire, hops, fine>> /\ client = {} /\ result = "none"
  BY DEF Build
<1>2. OwnModel => Answered'
  BY <1>1 DEF ClientInv, Answered, LacksVersion, BreaksJsonMode
<1>3. slot \in ClientSlots
  BY DEF ClientInv
<1>4. ASSUME OwnModel, NEW c \in client' PROVE Proper(c)
  <2>1. CASE client' = client
    BY <1>1, <1>4, <2>1
  <2>2. CASE OllamaRs /\ ~CloudSlot
    <3>1. c = [via |-> "ollama-rs", api |-> "ollama", dest |-> ParseHostPort(slot.url), key |-> slot.key = "good",
               model |-> [slot.model EXCEPT !.space = IF @ = "ollama" THEN "none" ELSE @]]
      BY <1>4, <2>2 DEF OllamaRs, Made
    <3>2. c.model.space = "none"
      BY <1>3, <1>4, <2>2, <3>1, SlotsAssumption DEF OwnModel, CloudSlot
    <3>3. c.dest.host = Home
      <4>1. c.dest = ParseHostPort(slot.url)
        BY <3>1
      <4>2. CASE ~slot.url.sound
        BY <4>1, <4>2 DEF ParseHostPort, LocalOllama, Port, Home
      <4>3. CASE slot.url.sound
        BY <4>1, <4>3 DEF ParseHostPort, Port, Home
      <4>4. QED BY <4>2, <4>3
    <3>4. QED BY <2>2, <3>1, <3>2, <3>3 DEF Proper, CloudSlot
  <2>3. CASE GenaiOllama /\ ~CloudSlot
    <3> DEFINE model == [slot.model EXCEPT !.space = IF @ = "none" THEN "ollama" ELSE @]
    <3>1. model.space = "ollama"
      BY <1>3, <1>4, <2>3, SlotsAssumption DEF OwnModel, CloudSlot
    <3>2. c = [via |-> "genai", api |-> model.space,
               dest |-> IF ~slot.url.sound \/ slot.key = "garbled" THEN Nowhere
                        ELSE IF model.space = "ollama" THEN Port(slot.url.host, slot.url.port)
                        ELSE Port(model.space, "any"),
               key |-> slot.key # "none", model |-> model]
      BY <1>4, <2>3 DEF GenaiOllama, Made
    <3> HIDE DEF model
    <3>3. c.via = "genai" /\ c.api = "ollama" /\ (c.dest = Nowhere \/ c.dest.host = Home)
      <4>1. /\ c.via = "genai" /\ c.api = "ollama"
            /\ c.dest = IF ~slot.url.sound \/ slot.key = "garbled" THEN Nowhere
                        ELSE IF model.space = "ollama" THEN Port(slot.url.host, slot.url.port)
                        ELSE Port(model.space, "any")
        BY <3>1, <3>2
      <4>2. CASE ~slot.url.sound \/ slot.key = "garbled"
        BY <3>1, <4>1, <4>2
      <4>3. CASE slot.url.sound /\ slot.key # "garbled"
        BY <3>1, <4>1, <4>3 DEF Port, Home
      <4>4. QED BY <4>2, <4>3
    <3>4. QED BY <2>3, <3>3 DEF Proper, CloudSlot
  <2>4. CASE GenaiCloud /\ CloudSlot
    <3>1. c = [via |-> "genai", api |-> IF slot.kind = "anthropic" THEN "anthropic" ELSE "openai",
               dest |-> Port(slot.url.host, slot.url.port), key |-> TRUE, model |-> slot.model]
      BY <1>4, <2>4 DEF GenaiCloud, Made
    <3>2. slot.url.sound
      BY <1>3, <2>4, SlotsAssumption DEF CloudSlot
    <3>3. QED BY <2>4, <3>1, <3>2 DEF Proper, Home, Port
  <2>5. QED BY <2>1, <2>2, <2>3, <2>4 DEF Build
<1>5. QED BY <1>1, <1>2, <1>4 DEF ClientInv, OwnModel, Proper, Sound, CloudSlot, Home, Rejected

LEMMA RedirectSound ==
    ASSUME ClientInv, ~CloudSlot, NEW w \in wire, w.dest # Nowhere, NEW status, NEW dest,
           OwnModel => dest = Nowhere \/ dest.host = Home \/ dest # w.dest \/ ~w.key,
           Redirect(w, status, dest)
    PROVE  ClientInv'
<1> DEFINE sent == [w EXCEPT !.dest = dest, !.body = @ /\ status = 307,
                             !.key = @ /\ (dest = w.dest \/ w.api = "anthropic")]
<1>1. UNCHANGED <<slot, features, client, result, fine>> /\ hops' = hops + 1 /\ wire' = {sent}
  BY DEF Redirect
<1>2. hops' \in Nat /\ hops' # 0
  BY <1>1 DEF ClientInv
<1>3. ASSUME OwnModel PROVE Sound(sent)'
  <2>1. Sound(w)
    BY <1>3 DEF ClientInv
  <2>2. /\ DOMAIN sent = DOMAIN w /\ sent.api = w.api /\ sent.dest = dest
        /\ sent.key => w.key /\ (dest = w.dest \/ w.api = "anthropic")
    BY <2>1 DEF Sound
  <2>3. sent.key => dest.host = Home
    BY <2>1, <2>2 DEF Sound
  <2>4. QED BY <1>1, <1>2, <2>1, <2>2, <2>3 DEF Sound, CloudSlot, Home
<1>4. OwnModel => Answered'
  BY <1>1 DEF ClientInv, Answered, LacksVersion, BreaksJsonMode
<1>5. QED BY <1>1, <1>2, <1>3, <1>4 DEF ClientInv, OwnModel, Proper, CloudSlot, Home

LEMMA ReplySound == ASSUME ClientInv, NEW w \in wire, Reply(w) PROVE ClientInv'
<1>1. CASE Unanswered(w)
  BY <1>1, EndSound DEF Unanswered
<1>2. CASE Served(w)
  <2>1. ~Rejected(w) \/ ~OwnModel
    BY <1>2 DEF Served, ClientInv, Sound
  <2>2. CASE End(IF Rejected(w) THEN Verdict(400) ELSE "ok", Mode(w))
    BY <2>1, <2>2, EndSound
  <2>3. CASE BreaksJsonMode /\ w.options.json /\ End(Verdict(400), Mode(w))
    <3>1. Mode(w) = "json"
      BY <2>3 DEF Mode
    <3>2. QED BY <2>3, <3>1, EndSound
  <2>4. CASE LacksVersion /\ End(Verdict(404), Mode(w))
    BY <2>4, EndSound
  <2>5. QED BY <1>2, <2>2, <2>3, <2>4 DEF Served
<1>3. CASE Answer(w)
  BY <1>3, EndSound DEF Answer, AnswerText
<1>4. ASSUME NEW c \in client, NEW status \in Statuses, Failed(w, status) PROVE ClientInv'
  <2>1. CASE End(Verdict(status), "no") \/ End("no window", "no") \/ End("failed", "no")
    BY <2>1, EndSound
  <2>2. ASSUME NEW d \in client, Send("pull", d, NoOptions) PROVE ClientInv'
    BY <2>2, SendSound
  <2>3. \/ End(Verdict(status), "no") \/ End("no window", "no") \/ End("failed", "no")
        \/ \E d \in client : Send("pull", d, NoOptions)
    BY <1>4, Zenon DEF Failed
  <2>4. QED BY <2>1, <2>2, <2>3
<1>5. ASSUME w.dest # Nowhere, NEW c \in client, NEW status \in Statuses, Follows(c), NEW dest, Redirect(w, status, dest)
      PROVE ClientInv'
  <2>1. OwnModel /\ dest = w.dest /\ w.key => dest.host = Home
    BY <1>5 DEF ClientInv, Sound
  <2>2. QED BY <1>5, <2>1, RedirectSound DEF Follows
<1>6. QED BY <1>1, <1>2, <1>3, <1>4, <1>5 DEF Reply

LEMMA ClientInvHolds == ClientSpec => []ClientInv
<1>1. ClientInit => ClientInv
  BY DEF ClientInit, ClientInv, Answered
<1>2. ClientInv /\ [ClientNext]_lvars => ClientInv'
  <2> SUFFICES ASSUME ClientInv, [ClientNext]_lvars PROVE ClientInv'
    OBVIOUS
  <2>1. CASE Build
    BY <2>1, BuildSound
  <2>2. ASSUME NEW c \in client, SendChat(c) \/ AskWindow(c) \/ InitModel(c) PROVE ClientInv'
    BY <2>2, SendSound DEF SendChat, AskWindow, InitModel
  <2>3. ASSUME NEW w \in wire, Reply(w) PROVE ClientInv'
    BY <2>3, ReplySound
  <2>4. CASE UNCHANGED lvars
    BY <2>4 DEF lvars, ClientInv, OwnModel, Proper, Sound, CloudSlot, Home, Rejected, Answered, LacksVersion, BreaksJsonMode
  <2>5. QED BY <2>1, <2>2, <2>3, <2>4 DEF ClientNext
<1>3. QED BY <1>1, <1>2, PTL DEF ClientSpec

\* Whatever its model is called, and wherever endpoints redirect to, the client
\* of a slot sends its requests to the slot's own host, in the slot's protocol,
\* and a key to no other host.
THEOREM SentHomeThm == ClientSpec => []SentHome
<1>1. ClientInv => SentHome
  BY DEF ClientInv, SentHome, Sound
<1>2. QED BY <1>1, ClientInvHolds, PTL

\* Whatever options a chat has, the client asks a backend in order for nothing
\* that backend rejects, but where the server warned of it at its start: every chat
\* of an Anthropic slot without /v1, JSON mode at Anthropic's OpenAI endpoint.
THEOREM SoundIsServedThm == ClientSpec => []SoundIsServed
<1>1. ClientInv => SoundIsServed
  BY DEF ClientInv, SoundIsServed, Answered
<1>2. QED BY <1>1, ClientInvHolds, PTL

-----------------------------------------------------------------------------
(* The configuration.                                                      *)

\* A value is where it was written, and ./.env counts if it was read there.
EnvFrom ==
    /\ DOMAIN env \subseteq Names
    /\ \A n \in DOMAIN env :
          /\ \A v, w \in env[n] : v = w
          /\ n[2] \in {"api_key", "base_url"} =>
                \A v \in env[n] : v.at = <<n, v.at[2]>> /\ (v.at[2] = "cwd" <=> n \in cwdVars)
    /\ given \in Files /\ cwdVars \subseteq DOMAIN env
    /\ stage = "start" => env = given["env"] /\ cwdVars = {}

\* The key and the URL of a slot are those of the variables they are said to be
\* of, and no deprecated variable is for an Ollama slot.
SlotFrom(role, slt) ==
    /\ DOMAIN slt = {"kind", "model", "api_key", "base_url"}
    /\ \A what \in {"api_key", "base_url"} : slt[what] = Get(env, SuppliedBy(origins, role, what))
    /\ slt.kind = "ollama" => role \notin origins.role

Settled == stage \in {"validate", "loaded", "ready", "broken"}
SettingsFrom ==
    Settled =>
        /\ SlotFrom("primary", settings.primary)
        /\ \A slt \in settings.fallback : SlotFrom("fallback", slt)
ProviderFrom ==
    /\ stage \in {"loaded", "ready"} => Invalid = {}
    /\ stage = "ready" =>
          provider = [primary |-> Primary(NoOrigins).slot, fallback |-> {r.slot : r \in Fallbacks(NoOrigins)}]

ConfigInv == EnvFrom /\ SettingsFrom /\ ProviderFrom

LEMMA EnvInit == ConfigInit => EnvFrom
<1> SUFFICES ASSUME ConfigInit PROVE EnvFrom
  OBVIOUS
<1>1. given \in Files /\ env = given["env"] /\ cwdVars = {} /\ stage = "start" /\ "env" \in Layers
  BY DEF ConfigInit, Layers
<1>2. DOMAIN given["env"] \subseteq Names
  BY <1>1, ConfigAssumption
<1>3. ASSUME NEW n \in DOMAIN env
      PROVE  /\ \A v, w \in env[n] : v = w
             /\ n[2] \in {"api_key", "base_url"} => \A v \in env[n] : v.at = <<n, "env">>
  BY <1>1, <1>3, ValuesAssumption
<1>4. QED BY <1>1, <1>2, <1>3 DEF EnvFrom

\* Reading one more file.
LEMMA EnvOverlaid ==
    ASSUME EnvFrom, NEW l \in Layers, l # "env", env' = Overlay(env, given[l]), given' = given,
           cwdVars' = IF l = "cwd" THEN DOMAIN given[l] \ DOMAIN env ELSE cwdVars,
           l = "cwd" => cwdVars = {}, stage' # "start"
    PROVE  EnvFrom'
<1>1. given[l] = given[l] /\ DOMAIN given[l] \subseteq Names
  BY ConfigAssumption DEF EnvFrom
<1>2. /\ DOMAIN env' = DOMAIN env \cup DOMAIN given[l]
      /\ \A n \in DOMAIN env' : env'[n] = IF n \in DOMAIN env THEN env[n] ELSE given[l][n]
  BY DEF Overlay
<1>3. ASSUME NEW n \in DOMAIN env'
      PROVE  /\ \A v, w \in env'[n] : v = w
             /\ n[2] \in {"api_key", "base_url"} =>
                    \A v \in env'[n] : v.at = <<n, v.at[2]>> /\ (v.at[2] = "cwd" <=> n \in cwdVars')
  <2>1. CASE n \in DOMAIN env
    <3>1. env'[n] = env[n] /\ (n \in cwdVars' <=> n \in cwdVars)
      BY <1>2, <2>1
    <3>2. QED BY <2>1, <3>1 DEF EnvFrom
  <2>2. CASE n \notin DOMAIN env
    <3>1. env'[n] = given[l][n] /\ n \in DOMAIN given[l] /\ given \in Files
      BY <1>2, <1>3, <2>2 DEF EnvFrom
    <3>2. n \in cwdVars' <=> l = "cwd"
      BY <2>2, <3>1 DEF EnvFrom
    <3>3. /\ \A v, w \in given[l][n] : v = w
          /\ n[2] \in {"api_key", "base_url"} => \A v \in given[l][n] : v.at = <<n, l>>
      BY <3>1, ValuesAssumption
    <3>4. QED BY <3>1, <3>2, <3>3
  <2>3. QED BY <2>1, <2>2
<1>4. cwdVars' \subseteq DOMAIN env' /\ DOMAIN env' \subseteq Names
  BY <1>1, <1>2 DEF EnvFrom
<1>5. QED BY <1>3, <1>4 DEF EnvFrom

\* A slot that takes over what it lacks.
LEMMA AdoptFacts ==
    ASSUME NEW slt, DOMAIN slt = {"kind", "model", "api_key", "base_url"}, NEW legacy, NEW whats
    PROVE  LET new == Adopt(slt, legacy, whats) IN
           /\ DOMAIN new = {"kind", "model", "api_key", "base_url"}
           /\ \A what \in DOMAIN slt :
                 new[what] = IF what \in Adopted(slt, legacy, whats) THEN legacy[what] ELSE slt[what]
BY DEF Adopt

\* What MapLegacy makes of the slots read.
LEMMA MapFrom ==
    ASSUME NEW primary, NEW fallback, NEW legacy, NEW fk,
           primary = ReadSlot(env, "primary", primary.kind),
           fallback = ReadSlot(env, "fallback", fallback.kind),
           legacy = ReadSlot(env, "openrouter", "openrouter"),
           fk \subseteq {fallback.kind},
           origins' = MapLegacy(primary, fk, fallback, legacy).origins, env' = env
    PROVE  /\ SlotFrom("primary", MapLegacy(primary, fk, fallback, legacy).primary)'
           /\ SlotFrom("fallback", MapLegacy(primary, fk, fallback, legacy).fallback)'
<1> DEFINE mapped == MapLegacy(primary, fk, fallback, legacy)
           role == LegacyRole(primary, fk, legacy)
           way == role = {"primary"} /\ GivesWay(primary, fk, fallback, legacy)
           named == IF way THEN [primary EXCEPT !.model = legacy.model] ELSE primary
           moved == way /\ primary.model # {} /\ fk = {"ollama"}
           some == {"api_key", "base_url"}
           all == {"model", "api_key", "base_url"}
           fields == {"kind", "model", "api_key", "base_url"}
<1>1. /\ mapped.primary = IF role = {"primary"} THEN Adopt(named, legacy, some) ELSE primary
      /\ mapped.fallback = IF role = {"fallback"} THEN Adopt(fallback, legacy, all)
                           ELSE IF moved THEN [fallback EXCEPT !.model = primary.model] ELSE fallback
      /\ mapped.origins.role = role
      /\ mapped.origins.supplied =
            IF role = {"primary"} THEN Adopted(primary, legacy, some) \cup (IF way THEN {"model"} ELSE {})
            ELSE IF role = {"fallback"} THEN Adopted(fallback, legacy, all) ELSE {}
  BY DEF MapLegacy
<1>2. /\ DOMAIN primary = fields /\ DOMAIN fallback = fields
      /\ \A what \in some : /\ primary[what] = Get(env, <<"primary", what>>)
                            /\ fallback[what] = Get(env, <<"fallback", what>>)
                            /\ legacy[what] = Get(env, <<"openrouter", what>>)
  <2>1. /\ DOMAIN primary = fields
        /\ \A what \in some : primary[what] = Get(env, <<"primary", what>>)
    BY DEF ReadSlot
  <2>2. /\ DOMAIN fallback = fields
        /\ \A what \in some : fallback[what] = Get(env, <<"fallback", what>>)
    BY DEF ReadSlot
  <2>3. \A what \in some : legacy[what] = Get(env, <<"openrouter", what>>)
    BY DEF ReadSlot
  <2>4. QED BY <2>1, <2>2, <2>3
<1>3. /\ role = {} \/ role = {"primary"} \/ role = {"fallback"}
      /\ "primary" \in role => primary.kind # "ollama"
      /\ "fallback" \in role => fallback.kind # "ollama"
  BY DEF LegacyRole, ReadsLegacy
<1>4. DOMAIN named = fields /\ named.kind = primary.kind /\ \A what \in some : named[what] = primary[what]
  BY <1>2
<1>5. origins' = mapped.origins /\ env' = env
  OBVIOUS
<1> HIDE DEF mapped, role, way, named, moved
<1>6. CASE role = {"primary"}
  <2>1. /\ mapped.primary = Adopt(named, legacy, some)
        /\ \A what \in some : what \in mapped.origins.supplied <=> what \in Adopted(named, legacy, some)
    BY <1>1, <1>4, <1>6 DEF Adopted
  <2>2. /\ DOMAIN mapped.primary = fields /\ mapped.primary.kind = named.kind
        /\ \A what \in some : mapped.primary[what] = IF what \in mapped.origins.supplied THEN legacy[what] ELSE named[what]
    BY <1>4, <2>1, AdoptFacts DEF Adopted
  <2>3. \A what \in some : mapped.primary[what] = Get(env, SuppliedBy(mapped.origins, "primary", what))
    BY <1>1, <1>2, <1>4, <1>6, <2>2 DEF SuppliedBy
  <2>4. /\ DOMAIN mapped.fallback = fields
        /\ \A what \in some : mapped.fallback[what] = fallback[what]
    BY <1>1, <1>2, <1>6
  <2>5. \A what \in some : mapped.fallback[what] = Get(env, SuppliedBy(mapped.origins, "fallback", what))
    BY <1>1, <1>2, <1>6, <2>4 DEF SuppliedBy
  <2>6. "fallback" \notin mapped.origins.role /\ mapped.primary.kind # "ollama"
    BY <1>1, <1>3, <1>4, <1>6, <2>2
  <2>7. QED BY <1>5, <2>2, <2>3, <2>4, <2>5, <2>6 DEF SlotFrom, mapped
<1>7. CASE role = {"fallback"}
  <2>1. /\ mapped.fallback = Adopt(fallback, legacy, all)
        /\ \A what \in some : what \in mapped.origins.supplied <=> what \in Adopted(fallback, legacy, all)
    BY <1>1, <1>7
  <2>2. /\ DOMAIN mapped.fallback = fields /\ mapped.fallback.kind = fallback.kind
        /\ \A what \in some : mapped.fallback[what] = IF what \in mapped.origins.supplied THEN legacy[what] ELSE fallback[what]
    BY <1>2, <2>1, AdoptFacts DEF Adopted
  <2>3. \A what \in some : mapped.fallback[what] = Get(env, SuppliedBy(mapped.origins, "fallback", what))
    BY <1>1, <1>2, <1>7, <2>2 DEF SuppliedBy
  <2>4. mapped.primary = primary
    BY <1>1, <1>7
  <2>5. \A what \in some : mapped.primary[what] = Get(env, SuppliedBy(mapped.origins, "primary", what))
    BY <1>1, <1>2, <1>7, <2>4 DEF SuppliedBy
  <2>6. "primary" \notin mapped.origins.role /\ mapped.fallback.kind # "ollama"
    BY <1>1, <1>3, <1>7, <2>2
  <2>7. QED BY <1>2, <1>5, <2>2, <2>3, <2>4, <2>5, <2>6 DEF SlotFrom, mapped
<1>8. CASE role = {}
  <2>1. mapped.primary = primary /\ mapped.origins.role = {} /\ ~moved
    BY <1>1, <1>8 DEF moved, way
  <2>2. mapped.fallback = fallback
    BY <1>1, <1>8, <2>1
  <2>3. QED BY <1>2, <1>5, <2>1, <2>2 DEF SlotFrom, SuppliedBy, mapped
<1>9. QED BY <1>3, <1>6, <1>7, <1>8

\* A variable has at most one value.
LEMMA GetOne == ASSUME EnvFrom, NEW n PROVE \A v, w \in Get(env, n) : v = w
BY DEF EnvFrom, Get

\* What ReadSettings makes of the variables.
LEMMA ReadFrom == ASSUME EnvFrom, ReadSettings PROVE SettingsFrom' /\ ProviderFrom'
<1> DEFINE pk == Get(env, <<"primary", "provider">>)
           fk == Get(env, <<"fallback", "provider">>)
           pkind == IF pk = {} THEN "ollama" ELSE CHOOSE k \in pk : TRUE
           fkind == IF fk = {} THEN "ollama" ELSE CHOOSE k \in fk : TRUE
           primary  == ReadSlot(env, "primary", pkind)
           fallback == ReadSlot(env, "fallback", fkind)
           legacy   == ReadSlot(env, "openrouter", "openrouter")
           mapped   == MapLegacy(primary, fk, fallback, legacy)
<1>1. /\ settings'.primary = mapped.primary /\ settings'.fallback \subseteq {mapped.fallback}
      /\ origins' = mapped.origins /\ env' = env /\ stage' = "validate"
  BY DEF ReadSettings
<1>2. fk \subseteq {fkind}
  BY GetOne
<1>3. primary.kind = pkind /\ fallback.kind = fkind
  <2> HIDE DEF pkind, fkind
  <2>1. QED BY DEF ReadSlot
<1>4. ASSUME NEW first, NEW second, first = mapped.primary, second = mapped.fallback
      PROVE  SlotFrom("primary", first)' /\ SlotFrom("fallback", second)'
  <2>1. fk \subseteq {fallback.kind}
    BY <1>2, <1>3
  <2> HIDE DEF pkind, fkind, fk
  <2>2. primary = ReadSlot(env, "primary", primary.kind) /\ fallback = ReadSlot(env, "fallback", fallback.kind)
        /\ legacy = ReadSlot(env, "openrouter", "openrouter")
    BY <1>3
  <2>3. origins' = MapLegacy(primary, fk, fallback, legacy).origins /\ env' = env
    BY <1>1
  <2>4. first = MapLegacy(primary, fk, fallback, legacy).primary
        /\ second = MapLegacy(primary, fk, fallback, legacy).fallback
    BY <1>4
  <2> HIDE DEF primary, fallback, legacy
  <2>5. QED BY <2>1, <2>2, <2>3, <2>4, MapFrom
<1> HIDE DEF mapped
<1>5. SettingsFrom'
  <2>1. SlotFrom("primary", settings.primary)'
    <3>1. PICK first : first = mapped.primary
      OBVIOUS
    <3>2. SlotFrom("primary", first)' /\ settings'.primary = first
      BY <1>1, <1>4, <3>1
    <3>3. QED BY <3>2 DEF SlotFrom
  <2>2. ASSUME NEW slt \in settings'.fallback PROVE SlotFrom("fallback", slt)'
    <3>1. slt = mapped.fallback
      BY <1>1, <2>2
    <3>2. QED BY <1>4, <3>1
  <2>3. QED BY <2>1, <2>2 DEF SettingsFrom
<1>6. QED BY <1>1, <1>5 DEF ProviderFrom

\* Where the value of a variable was written.
LEMMA ValueAt ==
    ASSUME EnvFrom, NEW n, n[2] \in {"api_key", "base_url"}, NEW v \in Get(env, n)
    PROVE  n \in Names /\ v.at[1] = n /\ v.at # BuiltIn /\ (v.at[2] = "cwd" <=> n \in cwdVars)
<1>1. n \in DOMAIN env /\ v \in env[n]
  BY DEF Get
<1>2. n \in Names /\ v.at = <<n, v.at[2]>> /\ (v.at[2] = "cwd" <=> n \in cwdVars)
  BY <1>1 DEF EnvFrom
<1>3. n[1] # "built in"
  BY <1>2 DEF Names, Roles
<1>4. PICK l : v.at = <<n, l>>
  BY <1>2
<1>5. v.at[1] = n
  BY <1>4
<1>6. BuiltIn[1][1] = "built in"
  BY DEF BuiltIn
<1>7. v.at # BuiltIn
  BY <1>3, <1>5, <1>6
<1>8. QED BY <1>2, <1>5, <1>7

LEMMA Trusted ==
    ASSUME NEW resolved, Untrusted(resolved, cwdVars) = {}, NEW nk, NEW nu,
           resolved.keyVar = {nk}, resolved.urlVar = {nu}, nu \in cwdVars
    PROVE  nk \in cwdVars
<1>1. Err("untrusted", resolved.urlVar \cup resolved.keyVar) # {}
  BY DEF Err
<1>2. QED BY <1>1 DEF Untrusted

\* A key is for the URL it is used with.
GoesHome(slt) ==
    \A k \in Written(slt.api_key), u \in Written(slt.base_url) :
        /\ k[1][1] = "openrouter" <=> u[1][1] = "openrouter"
        /\ u[2] = "cwd" => k[2] = "cwd"
        /\ k[1][1] = "ollama" =>
              SameOrigin(OrLocal(slt.base_url), OrLocal(Get(env, <<"ollama", "base_url">>)))

LEMMA OllamaHome ==
    ASSUME EnvFrom, NEW role \in Roles, NEW slt, SlotFrom(role, slt), slt.kind = "ollama",
           Untrusted(ResolveOllama(env, role, slt), cwdVars) = {}
    PROVE  GoesHome(ResolveOllama(env, role, slt).slot)
<1> DEFINE host == Get(env, <<"ollama", "base_url">>)
           key  == Get(env, <<"ollama", "api_key">>)
           url  == IF slt.base_url # {} THEN slt.base_url ELSE host
           inherited == slt.api_key = {} /\ key # {} /\ SameOrigin(OrLocal(url), OrLocal(host))
           resolved == ResolveOllama(env, role, slt)
           nk == IF inherited THEN <<"ollama", "api_key">> ELSE <<role, "api_key">>
           nu == IF slt.base_url # {} THEN <<role, "base_url">> ELSE <<"ollama", "base_url">>
<1>1. /\ slt.api_key = Get(env, <<role, "api_key">>) /\ slt.base_url = Get(env, <<role, "base_url">>)
  BY DEF SlotFrom, SuppliedBy
<1>2. /\ resolved.slot.api_key = IF inherited THEN key ELSE slt.api_key
      /\ resolved.slot.base_url = url
      /\ resolved.keyVar = IF inherited THEN {<<"ollama", "api_key">>} ELSE {<<role, "api_key">> : k \in slt.api_key}
      /\ resolved.urlVar = IF slt.base_url # {} THEN {<<role, "base_url">>} ELSE {<<"ollama", "base_url">> : u \in host}
  BY DEF ResolveOllama
<1>3. inherited => SameOrigin(OrLocal(url), OrLocal(host))
  OBVIOUS
<1>4. role \notin {"openrouter", "ollama"}
  BY DEF Roles
<1> HIDE DEF inherited, resolved, key
<1>5. resolved.slot.api_key = Get(env, nk) /\ resolved.slot.base_url = Get(env, nu)
  BY <1>1, <1>2 DEF key
<1>6. (resolved.slot.api_key # {} => resolved.keyVar = {nk}) /\ (resolved.slot.base_url # {} => resolved.urlVar = {nu})
  BY <1>2
<1>7. nk[2] = "api_key" /\ nu[2] = "base_url" /\ nk[1] # "openrouter" /\ nu[1] # "openrouter"
      /\ (nk[1] = "ollama" => inherited)
  BY <1>4
<1> HIDE DEF nk, nu, url, host
<1>8. ASSUME NEW v \in resolved.slot.api_key, NEW w \in resolved.slot.base_url
      PROVE  /\ v.at[1][1] = "openrouter" <=> w.at[1][1] = "openrouter"
             /\ w.at[2] = "cwd" => v.at[2] = "cwd"
             /\ v.at[1][1] = "ollama" => SameOrigin(OrLocal(url), OrLocal(host))
  <2>1. v.at[1] = nk /\ (v.at[2] = "cwd" <=> nk \in cwdVars)
    BY <1>5, <1>7, <1>8, ValueAt
  <2>2. w.at[1] = nu /\ (w.at[2] = "cwd" <=> nu \in cwdVars)
    BY <1>5, <1>7, <1>8, ValueAt
  <2>3. nu \in cwdVars => nk \in cwdVars
    BY <1>6, <1>8, Trusted DEF resolved
  <2>4. QED BY <1>3, <1>7, <2>1, <2>2, <2>3
<1>9. QED BY <1>2, <1>8 DEF GoesHome, Written, resolved, host

LEMMA CloudHome ==
    ASSUME EnvFrom, NEW role \in Roles, NEW slt, SlotFrom(role, slt), slt.kind # "ollama",
           ResolveCloud(origins, role, slt).error = {},
           Untrusted(ResolveCloud(origins, role, slt), cwdVars) = {}
    PROVE  GoesHome(ResolveCloud(NoOrigins, role, slt).slot)
<1> DEFINE nk == SuppliedBy(origins, role, "api_key")
           nu == SuppliedBy(origins, role, "base_url")
           resolved == ResolveCloud(origins, role, slt)
           url == IF slt.base_url # {} THEN slt.base_url ELSE DefaultUrl(slt.kind)
           used == ResolveCloud(NoOrigins, role, slt).slot
<1>1. slt.api_key = Get(env, nk) /\ slt.base_url = Get(env, nu) /\ DOMAIN slt = {"kind", "model", "api_key", "base_url"}
  BY DEF SlotFrom
<1>2. used.api_key = slt.api_key /\ used.base_url = url
  BY <1>1 DEF ResolveCloud
<1>3. resolved.keyVar = {nk} /\ resolved.urlVar = {nu : u \in slt.base_url}
  BY DEF ResolveCloud
<1>4. slt.base_url # {} => Paired(nk, {nu})
  <2> HIDE DEF nk, nu
  <2>1. ASSUME NEW what, NEW names PROVE Err(what, names) # {}
    BY DEF Err
  <2>2. ASSUME NEW what PROVE Missing(origins, role, what) # {}
    BY <2>1 DEF Missing
  <2>3. Paired(nk, {nu : u \in slt.base_url})
    BY <2>1, <2>2 DEF ResolveCloud, nk, nu
  <2>4. slt.base_url # {} => {nu : u \in slt.base_url} = {nu}
    OBVIOUS
  <2>5. QED BY <2>3, <2>4
<1>5. /\ nk[2] = "api_key" /\ nu[2] = "base_url"
      /\ nk[1] # "ollama"
  BY DEF SuppliedBy, Roles
<1>6. ASSUME NEW d \in DefaultUrl(slt.kind) PROVE d.at = BuiltIn
  BY <1>6 DEF DefaultUrl
<1> HIDE DEF nk, nu, used, resolved
<1>7. ASSUME NEW v \in used.api_key, NEW w \in used.base_url, w.at # BuiltIn
      PROVE  /\ v.at[1][1] = "openrouter" <=> w.at[1][1] = "openrouter"
             /\ w.at[2] = "cwd" => v.at[2] = "cwd"
             /\ v.at[1][1] # "ollama"
  <2>1. w \in slt.base_url
    BY <1>2, <1>6, <1>7
  <2>2. v.at[1] = nk /\ (v.at[2] = "cwd" <=> nk \in cwdVars)
    BY <1>1, <1>2, <1>5, <1>7, ValueAt
  <2>3. w.at[1] = nu /\ (w.at[2] = "cwd" <=> nu \in cwdVars)
    BY <1>1, <1>5, <2>1, ValueAt
  <2>4. resolved.urlVar = {nu}
    BY <1>3, <2>1
  <2>5. nu \in cwdVars => nk \in cwdVars
    BY <1>3, <2>4, Trusted DEF resolved
  <2>6. nk[1] = "openrouter" <=> nu[1] = "openrouter"
    BY <1>4, <2>1 DEF Paired
  <2>7. QED BY <1>5, <2>2, <2>3, <2>5, <2>6
<1>8. QED BY <1>7 DEF GoesHome, Written, used

LEMMA ResolvedHome ==
    ASSUME EnvFrom, NEW role \in Roles, NEW slt, SlotFrom(role, slt),
           Resolve(env, origins, role, slt).error = {},
           Untrusted(Resolve(env, origins, role, slt), cwdVars) = {}
    PROVE  GoesHome(Resolve(env, NoOrigins, role, slt).slot)
<1>1. CASE slt.kind = "ollama"
  BY <1>1, OllamaHome DEF Resolve
<1>2. CASE slt.kind # "ollama"
  BY <1>2, CloudHome DEF Resolve
<1>3. QED BY <1>1, <1>2

LEMMA ConfigInvInit == ConfigInit => ConfigInv
<1> SUFFICES ASSUME ConfigInit PROVE ConfigInv
  OBVIOUS
<1>1. stage = "start"
  BY DEF ConfigInit
<1>2. QED BY <1>1, EnvInit DEF ConfigInv, SettingsFrom, ProviderFrom, Settled

LEMMA ConfigInvStep == ConfigInv /\ [ConfigNext]_cvars => ConfigInv'
<1> SUFFICES ASSUME ConfigInv, [ConfigNext]_cvars PROVE ConfigInv'
  OBVIOUS
<1> USE DEF ConfigInv
<1>1. CASE LoadCwd
  <2>1. EnvFrom'
    <3>1. /\ env' = Overlay(env, given["cwd"]) /\ given' = given /\ stage' # "start"
          /\ cwdVars' = DOMAIN given["cwd"] \ DOMAIN env /\ cwdVars = {} /\ "cwd" \in Layers
      BY <1>1 DEF LoadCwd, EnvFrom, Layers
    <3>2. QED BY <3>1, EnvOverlaid
  <2>2. QED BY <1>1, <2>1 DEF LoadCwd, SettingsFrom, ProviderFrom, Settled
<1>2. CASE LoadConfig
  <2>1. EnvFrom'
    <3>1. /\ env' = Overlay(env, given["config"]) /\ given' = given /\ stage' # "start"
          /\ cwdVars' = cwdVars /\ "config" \in Layers
      BY <1>2 DEF LoadConfig, Layers
    <3>2. QED BY <3>1, EnvOverlaid
  <2>2. QED BY <1>2, <2>1 DEF LoadConfig, SettingsFrom, ProviderFrom, Settled
<1>3. CASE UnknownProvider
  BY <1>3 DEF UnknownProvider, Refuse, EnvFrom, SettingsFrom, ProviderFrom, Settled
<1>4. CASE ReadSettings
  <2>1. EnvFrom'
    BY <1>4 DEF ReadSettings, EnvFrom
  <2>2. QED BY <1>4, <2>1, ReadFrom
<1>5. CASE Validate
  <2>1. UNCHANGED <<given, env, cwdVars, settings, origins, provider>> /\ stage = "validate" /\ stage' \in {"refused", "loaded"}
        /\ (stage' = "loaded" => Invalid = {})
    BY <1>5 DEF Validate, Refuse
  <2>2. EnvFrom' /\ SettingsFrom'
    BY <2>1 DEF EnvFrom, SettingsFrom, Settled, SlotFrom
  <2>3. Invalid' = Invalid
    BY <2>1 DEF Invalid, Errors, Primary, Fallbacks
  <2>4. QED BY <2>1, <2>2, <2>3 DEF ProviderFrom
<1>6. CASE CreateProvider
  <2>1. UNCHANGED <<given, env, cwdVars, settings, origins>> /\ stage = "loaded" /\ stage' \in {"broken", "ready"}
        /\ (stage' = "ready" => provider' = [primary |-> Primary(NoOrigins).slot,
                                             fallback |-> {r.slot : r \in Fallbacks(NoOrigins)}])
    BY <1>6 DEF CreateProvider
  <2>2. EnvFrom' /\ SettingsFrom'
    BY <2>1 DEF EnvFrom, SettingsFrom, Settled, SlotFrom
  <2>3. Invalid' = Invalid /\ Primary(NoOrigins)' = Primary(NoOrigins) /\ Fallbacks(NoOrigins)' = Fallbacks(NoOrigins)
    BY <2>1 DEF Invalid, Errors, Primary, Fallbacks, NoOrigins
  <2>4. QED BY <2>1, <2>2, <2>3 DEF ProviderFrom
<1>7. CASE UNCHANGED cvars
  <2>1. UNCHANGED <<given, env, cwdVars, settings, origins, provider, stage>>
    BY <1>7 DEF cvars
  <2>2. EnvFrom' /\ SettingsFrom'
    BY <2>1 DEF EnvFrom, SettingsFrom, Settled, SlotFrom
  <2>3. Invalid' = Invalid /\ Primary(NoOrigins)' = Primary(NoOrigins) /\ Fallbacks(NoOrigins)' = Fallbacks(NoOrigins)
    BY <2>1 DEF Invalid, Errors, Primary, Fallbacks, NoOrigins
  <2>4. QED BY <2>1, <2>2, <2>3 DEF ProviderFrom
<1>8. QED BY <1>1, <1>2, <1>3, <1>4, <1>5, <1>6, <1>7 DEF ConfigNext

LEMMA ConfigInvHolds == ConfigSpec => []ConfigInv
BY ConfigInvInit, ConfigInvStep, PTL DEF ConfigSpec

\* Whatever the environment and the two files say, no key is sent to a URL it
\* was not configured with.
THEOREM KeysGoHomeThm == ConfigSpec => []KeysGoHome
<1>1. ConfigInv => KeysGoHome
  <2> SUFFICES ASSUME ConfigInv, stage = "ready", NEW slt \in Used PROVE GoesHome(slt)
    BY DEF KeysGoHome, GoesHome
  <2>1. Errors(origins) = {} /\ Untrusted(Primary(origins), cwdVars) = {}
        /\ \A r \in Fallbacks(origins) : Untrusted(r, cwdVars) = {}
    BY DEF ConfigInv, ProviderFrom, Invalid, FirstOf
  <2>2. Primary(origins).error = {} /\ \A r \in Fallbacks(origins) : r.error = {}
    BY <2>1 DEF Errors, FirstOf
  <2>3. provider = [primary |-> Primary(NoOrigins).slot, fallback |-> {r.slot : r \in Fallbacks(NoOrigins)}]
    BY DEF ConfigInv, ProviderFrom
  <2>4. SlotFrom("primary", settings.primary) /\ \A s \in settings.fallback : SlotFrom("fallback", s)
    BY DEF ConfigInv, SettingsFrom, Settled
  <2>5. CASE slt = provider.primary
    <3>1. slt = Resolve(env, NoOrigins, "primary", settings.primary).slot /\ "primary" \in Roles
      BY <2>3, <2>5 DEF Primary, Roles
    <3>2. QED BY <2>1, <2>2, <2>4, <3>1, ResolvedHome DEF Primary, ConfigInv
  <2>6. CASE slt \in provider.fallback
    <3>1. PICK s \in settings.fallback : slt = Resolve(env, NoOrigins, "fallback", s).slot
      BY <2>3, <2>6 DEF Fallbacks
    <3>2. Resolve(env, origins, "fallback", s) \in Fallbacks(origins) /\ "fallback" \in Roles
      BY DEF Fallbacks, Roles
    <3>3. QED BY <2>1, <2>2, <2>4, <3>1, <3>2, ResolvedHome DEF ConfigInv
  <2>7. QED BY <2>5, <2>6 DEF Used
<1>2. QED BY <1>1, ConfigInvHolds, PTL

\* A slot of a pre-slot file, once it is read.
OldSlotRead(kd) ==
    IF kd = "openrouter"
    THEN [kind |-> kd, model |-> Get(env, <<"openrouter", "model">>),
          api_key |-> Get(env, <<"openrouter", "api_key">>), base_url |-> Get(env, <<"openrouter", "base_url">>)]
    ELSE [kind |-> kd, model |-> Get(env, <<"primary", "model">>), api_key |-> {}, base_url |-> {}]

\* It is said of which variables it is.
OldSlotOf(role, slt) ==
    /\ slt.kind \in {"ollama", "openrouter"} /\ slt = OldSlotRead(slt.kind)
    /\ slt.kind = "openrouter" =>
          /\ role \in origins.role /\ "api_key" \in origins.supplied
          /\ slt.base_url # {} => "base_url" \in origins.supplied

OldKind == IF Get(env, <<"primary", "provider">>) = {} THEN "ollama"
           ELSE CHOOSE k \in Get(env, <<"primary", "provider">>) : TRUE
OldSettings ==
    /\ settings.primary.kind = OldKind /\ OldSlotOf("primary", settings.primary)
    /\ {slt.kind : slt \in settings.fallback} = Get(env, <<"fallback", "provider">>) \ {OldKind}
    /\ \A slt \in settings.fallback : OldSlotOf("fallback", slt)

OldInv ==
    PreSlot /\ ~OneModel =>
        /\ stage \notin {"refused", "broken"}
        /\ stage \in {"validate", "loaded"} => OldSettings
        /\ stage = "ready" => provider = OldProvider

\* What a pre-slot file has and has not.
LEMMA PreSlotFacts ==
    ASSUME EnvFrom, PreSlot
    PROVE  /\ \A r \in Roles : Get(env, <<r, "api_key">>) = {} /\ Get(env, <<r, "base_url">>) = {}
           /\ Get(env, <<"fallback", "model">>) = {}
           /\ \A n : Get(env, n) # {} => n \notin cwdVars
           /\ Get(env, <<"openrouter", "model">>) # {} /\ Get(env, <<"openrouter", "api_key">>) # {}
<1>1. \A n : Get(env, n) # {} => n \in PreSlotNames /\ n \notin cwdVars
  BY DEF PreSlot, Get
<1>2. ASSUME NEW r \in Roles PROVE <<r, "api_key">> \notin PreSlotNames /\ <<r, "base_url">> \notin PreSlotNames
  BY DEF PreSlotNames, Roles
<1>3. <<"fallback", "model">> \notin PreSlotNames
  BY DEF PreSlotNames
<1>4. QED BY <1>1, <1>2, <1>3 DEF PreSlot

LEMMA PreSlotKinds ==
    ASSUME EnvFrom, PreSlot
    PROVE  /\ Get(env, <<"primary", "provider">>) \subseteq {OldKind} /\ OldKind \in {"ollama", "openrouter"}
           /\ Get(env, <<"fallback", "provider">>) \subseteq {"ollama", "openrouter"}
           /\ OldKind = "ollama" => "openrouter" \in Get(env, <<"fallback", "provider">>)
<1>1. \A v, w \in Get(env, <<"primary", "provider">>) : v = w
  BY GetOne
<1>2. Get(env, <<"primary", "provider">>) \subseteq {OldKind}
      /\ (Get(env, <<"primary", "provider">>) # {} => OldKind \in Get(env, <<"primary", "provider">>))
  BY <1>1 DEF OldKind
<1>3. QED BY <1>2 DEF PreSlot, OldKind

LEMMA MapOld ==
    ASSUME EnvFrom, PreSlot, ~OneModel, NEW primary, NEW fallback, NEW legacy, NEW fk, NEW fkind,
           fk = Get(env, <<"fallback", "provider">>), fk \subseteq {fkind},
           primary = ReadSlot(env, "primary", OldKind),
           fallback = ReadSlot(env, "fallback", fkind),
           legacy = ReadSlot(env, "openrouter", "openrouter"),
           origins' = MapLegacy(primary, fk, fallback, legacy).origins, env' = env
    PROVE  /\ MapLegacy(primary, fk, fallback, legacy).primary.kind = OldKind
           /\ OldSlotOf("primary", MapLegacy(primary, fk, fallback, legacy).primary)'
           /\ fk = {fkind} /\ ~DropFallback(primary, fk, fallback, legacy) =>
                 /\ fkind # OldKind
                 /\ MapLegacy(primary, fk, fallback, legacy).fallback.kind = fkind
                 /\ OldSlotOf("fallback", MapLegacy(primary, fk, fallback, legacy).fallback)'
           /\ DropFallback(primary, fk, fallback, legacy) => fk = {OldKind}
<1> DEFINE mapped == MapLegacy(primary, fk, fallback, legacy)
           role == LegacyRole(primary, fk, legacy)
           way == role = {"primary"} /\ GivesWay(primary, fk, fallback, legacy)
           named == IF way THEN [primary EXCEPT !.model = legacy.model] ELSE primary
           moved == way /\ primary.model # {} /\ fk = {"ollama"}
           some == {"api_key", "base_url"}
           all == {"model", "api_key", "base_url"}
           P == Get(env, <<"primary", "model">>)
           M == Get(env, <<"openrouter", "model">>)
           K == Get(env, <<"openrouter", "api_key">>)
           U == Get(env, <<"openrouter", "base_url">>)
<1>1. /\ mapped.primary = IF role = {"primary"} THEN Adopt(named, legacy, some) ELSE primary
      /\ mapped.fallback = IF role = {"fallback"} THEN Adopt(fallback, legacy, all)
                           ELSE IF moved THEN [fallback EXCEPT !.model = primary.model] ELSE fallback
      /\ mapped.origins.role = role
      /\ mapped.origins.supplied =
            IF role = {"primary"} THEN Adopted(primary, legacy, some) \cup (IF way THEN {"model"} ELSE {})
            ELSE IF role = {"fallback"} THEN Adopted(fallback, legacy, all) ELSE {}
  BY DEF MapLegacy
<1>2. /\ primary = [kind |-> OldKind, model |-> P, api_key |-> {}, base_url |-> {}]
      /\ fallback = [kind |-> fkind, model |-> {}, api_key |-> {}, base_url |-> {}]
      /\ legacy = [kind |-> "openrouter", model |-> M, api_key |-> K, base_url |-> U]
      /\ M # {} /\ K # {}
  BY PreSlotFacts DEF ReadSlot, Roles
<1>3. /\ OldKind \in {"ollama", "openrouter"} /\ fk \subseteq {"ollama", "openrouter"}
      /\ OldKind = "ollama" => fk = {"openrouter"}
  BY PreSlotKinds
<1>4. ~Unset(legacy) /\ Unset(fallback)
  BY <1>2 DEF Unset
<1>5. fk = {"ollama"} => P # M
  BY DEF OneModel
<1> HIDE DEF P, M, K, U
<1>6. OldSlotRead("openrouter")' = [kind |-> "openrouter", model |-> M, api_key |-> K, base_url |-> U]
      /\ OldSlotRead("ollama")' = [kind |-> "ollama", model |-> P, api_key |-> {}, base_url |-> {}]
  BY DEF OldSlotRead, P, M, K, U
<1>7. CASE OldKind = "openrouter"
  <2>1. role = {"primary"}
    BY <1>2, <1>4, <1>7 DEF LegacyRole, ReadsLegacy
  <2>2. ~PerSlotFormat(primary, fk, fallback)
    BY <1>2, <1>3, <1>4, <1>7 DEF PerSlotFormat
  <2>3. way <=> P # M
    BY <1>2, <2>1, <2>2 DEF GivesWay
  <2>4. named = [kind |-> "openrouter", model |-> M, api_key |-> {}, base_url |-> {}]
    BY <1>2, <1>7, <2>3
  <2> HIDE DEF named, role, way, mapped
  <2>5. Adopt(named, legacy, some) = [kind |-> "openrouter", model |-> M, api_key |-> K, base_url |-> U]
    BY <1>2, <2>4 DEF Adopt, Adopted
  <2>6. mapped.primary = OldSlotRead("openrouter")' /\ mapped.primary.kind = "openrouter"
        /\ mapped.primary.base_url = U
    BY <1>1, <1>6, <2>1, <2>5
  <2>7. "api_key" \in mapped.origins.supplied /\ (U # {} => "base_url" \in mapped.origins.supplied)
        /\ "primary" \in mapped.origins.role
    BY <1>1, <1>2, <2>1 DEF Adopted
  <2>8. OldSlotOf("primary", mapped.primary)'
    BY <2>6, <2>7 DEF OldSlotOf, mapped
  <2>9. DropFallback(primary, fk, fallback, legacy) <=> fk = {"openrouter"}
    BY <1>2, <1>4, <1>7, <2>1 DEF DropFallback, role
  <2>10. ASSUME fk = {fkind}, fkind = "ollama" PROVE OldSlotOf("fallback", mapped.fallback)' /\ mapped.fallback.kind = fkind
    <3>1. mapped.fallback = IF way /\ P # {} THEN [fallback EXCEPT !.model = P] ELSE fallback
      BY <1>1, <1>2, <2>1, <2>10
    <3>2. mapped.fallback = [kind |-> "ollama", model |-> P, api_key |-> {}, base_url |-> {}]
      BY <1>2, <1>5, <2>3, <2>10, <3>1
    <3>3. QED BY <1>6, <2>10, <3>2 DEF OldSlotOf
  <2>11. QED BY <1>3, <1>7, <2>6, <2>8, <2>9, <2>10 DEF mapped
<1>8. CASE OldKind = "ollama"
  <2>1. role = {"fallback"} /\ fk = {"openrouter"} /\ fkind = "openrouter"
    BY <1>2, <1>3, <1>4, <1>8 DEF LegacyRole, ReadsLegacy
  <2>2. ~DropFallback(primary, fk, fallback, legacy)
    BY <2>1 DEF DropFallback
  <2> HIDE DEF named, role, way, mapped
  <2>3. Adopt(fallback, legacy, all) = [kind |-> "openrouter", model |-> M, api_key |-> K, base_url |-> U]
    BY <1>2, <2>1 DEF Adopt, Adopted
  <2>4. mapped.primary = OldSlotRead("ollama")' /\ mapped.primary.kind = "ollama"
    BY <1>1, <1>2, <1>6, <1>8, <2>1
  <2>5. mapped.fallback = OldSlotRead("openrouter")' /\ mapped.fallback.kind = "openrouter"
        /\ mapped.fallback.base_url = U
    BY <1>1, <1>6, <2>1, <2>3
  <2>6. "api_key" \in mapped.origins.supplied /\ (U # {} => "base_url" \in mapped.origins.supplied)
        /\ "fallback" \in mapped.origins.role
    BY <1>1, <1>2, <2>1 DEF Adopted
  <2>7. OldSlotOf("primary", mapped.primary)' /\ OldSlotOf("fallback", mapped.fallback)'
    BY <2>4, <2>5, <2>6 DEF OldSlotOf, mapped
  <2>8. QED BY <1>8, <2>1, <2>2, <2>4, <2>5, <2>7 DEF mapped
<1>9. QED BY <1>3, <1>7, <1>8

\* A slot of a pre-slot file passes every check, and is what it was.
LEMMA ResolvedOld ==
    ASSUME EnvFrom, PreSlot, NEW role \in Roles, NEW slt, OldSlotOf(role, slt), NEW o, o \in {origins, NoOrigins}
    PROVE  /\ Resolve(env, o, role, slt).error = {} /\ Resolve(env, o, role, slt).slot = OldSlot(slt.kind)
           /\ o = origins => Untrusted(Resolve(env, o, role, slt), cwdVars) = {}
<1> DEFINE M == Get(env, <<"openrouter", "model">>)
           K == Get(env, <<"openrouter", "api_key">>)
           U == Get(env, <<"openrouter", "base_url">>)
           P == Get(env, <<"primary", "model">>)
           host == Get(env, <<"ollama", "base_url">>)
           key  == Get(env, <<"ollama", "api_key">>)
<1>1. M # {} /\ K # {} /\ ~(M \subseteq Prefixed)
      /\ (\A u \in U : u.scheme = "https") /\ (\A u \in host : u.scheme # "broken")
      /\ (U # {} => <<"openrouter", "base_url">> \notin cwdVars)
      /\ (host # {} => <<"ollama", "base_url">> \notin cwdVars)
  BY PreSlotFacts DEF PreSlot
<1> HIDE DEF M, K, U, P, host, key
<1>2. CASE slt.kind = "openrouter"
  <2>1. slt = [kind |-> "openrouter", model |-> M, api_key |-> K, base_url |-> U]
    BY <1>2 DEF OldSlotOf, OldSlotRead, M, K, U
  <2>2. \A u \in U : ~Insecure(u) /\ u.scheme # "broken"
    BY <1>1 DEF Insecure
  <2> DEFINE url == IF U # {} THEN U ELSE DefaultUrl("openrouter")
             keyVar == SuppliedBy(o, role, "api_key")
             urlVar == {SuppliedBy(o, role, "base_url") : u \in U}
  <2>3. url # {}
    BY DEF DefaultUrl
  <2>4. Paired(keyVar, urlVar)
    <3>1. CASE o = origins
      <4>1. keyVar = <<"openrouter", "api_key">> /\ (U # {} => SuppliedBy(o, role, "base_url") = <<"openrouter", "base_url">>)
        BY <1>2, <2>1, <3>1 DEF OldSlotOf, SuppliedBy
      <4>2. QED BY <4>1 DEF Paired
    <3>2. CASE o = NoOrigins
      <4>1. keyVar = <<role, "api_key">> /\ SuppliedBy(o, role, "base_url") = <<role, "base_url">> /\ role # "openrouter"
        BY <3>2 DEF SuppliedBy, NoOrigins, Roles
      <4>2. QED BY <4>1 DEF Paired
    <3>3. QED BY <3>1, <3>2
  <2>5. o = origins => Untrusted(ResolveCloud(o, role, slt), cwdVars) = {}
    <3>1. ResolveCloud(o, role, slt).urlVar = {SuppliedBy(o, role, "base_url") : u \in U}
      BY <2>1 DEF ResolveCloud
    <3>2. o = origins /\ U # {} => SuppliedBy(o, role, "base_url") = <<"openrouter", "base_url">>
      BY <1>2, <2>1 DEF OldSlotOf, SuppliedBy
    <3>3. QED BY <1>1, <3>1, <3>2 DEF Untrusted
  <2> HIDE DEF keyVar, urlVar
  <2>6. ResolveCloud(o, role, slt).error = {}
    BY <1>1, <2>1, <2>2, <2>3, <2>4 DEF ResolveCloud, keyVar, urlVar
  <2>7. ResolveCloud(o, role, slt).slot = [kind |-> "openrouter", model |-> M, api_key |-> K, base_url |-> url]
    BY <2>1 DEF ResolveCloud
  <2>8. OldSlot("openrouter") = [kind |-> "openrouter", model |-> M, api_key |-> K, base_url |-> url]
    BY DEF OldSlot, M, K, U
  <2>9. QED BY <1>2, <2>5, <2>6, <2>7, <2>8 DEF Resolve
<1>3. CASE slt.kind = "ollama"
  <2>1. slt = [kind |-> "ollama", model |-> P, api_key |-> {}, base_url |-> {}]
    BY <1>3 DEF OldSlotOf, OldSlotRead, P
  <2>2. SameOrigin(OrLocal(host), OrLocal(host))
    <3>1. OrLocal(host).scheme # "broken"
      <4>1. CASE host = {}
        BY <4>1 DEF OrLocal, LocalUrl
      <4>2. CASE host # {}
        <5>1. OrLocal(host) \in host
          BY <4>2 DEF OrLocal
        <5>2. QED BY <1>1, <5>1
      <4>3. QED BY <4>1, <4>2
    <3>2. QED BY <3>1 DEF SameOrigin
  <2>3. ResolveOllama(env, role, slt).slot =
            [kind |-> "ollama", model |-> IF P # {} THEN P ELSE {Stock}, api_key |-> key, base_url |-> host]
    <3>1. ResolveOllama(env, role, slt).slot =
            [kind |-> "ollama", model |-> IF P # {} THEN P ELSE {Stock},
             api_key |-> IF key # {} /\ SameOrigin(OrLocal(host), OrLocal(host)) THEN key ELSE {}, base_url |-> host]
      BY <2>1 DEF ResolveOllama, key, host
    <3>2. QED BY <2>2, <3>1
  <2>4. ResolveOllama(env, role, slt).error = {}
        /\ ResolveOllama(env, role, slt).urlVar = {<<"ollama", "base_url">> : u \in host}
    BY <2>1 DEF ResolveOllama, host
  <2>5. Untrusted(ResolveOllama(env, role, slt), cwdVars) = {}
    BY <1>1, <2>4 DEF Untrusted
  <2>6. OldSlot("ollama") = [kind |-> "ollama", model |-> IF P # {} THEN P ELSE {Stock}, api_key |-> key, base_url |-> host]
    BY DEF OldSlot, P, key, host
  <2>7. QED BY <1>3, <2>3, <2>4, <2>5, <2>6 DEF Resolve
<1>4. QED BY <1>2, <1>3 DEF OldSlotOf

LEMMA OldRead == ASSUME EnvFrom, PreSlot, ~OneModel, ReadSettings PROVE OldSettings'
<1> DEFINE pk == Get(env, <<"primary", "provider">>)
           fk == Get(env, <<"fallback", "provider">>)
           fkind == IF fk = {} THEN "ollama" ELSE CHOOSE k \in fk : TRUE
           primary  == ReadSlot(env, "primary", OldKind)
           fallback == ReadSlot(env, "fallback", fkind)
           legacy   == ReadSlot(env, "openrouter", "openrouter")
           mapped   == MapLegacy(primary, fk, fallback, legacy)
           dropped  == fk = {} \/ DropFallback(primary, fk, fallback, legacy)
<1>1. /\ settings'.primary = mapped.primary /\ settings'.fallback = IF dropped THEN {} ELSE {mapped.fallback}
      /\ origins' = mapped.origins /\ env' = env
  BY DEF ReadSettings, OldKind
<1>2. fk \subseteq {fkind}
  BY GetOne
<1> HIDE DEF fkind
<1>3. ASSUME NEW first, NEW second, first = mapped.primary, second = mapped.fallback
      PROVE  /\ first.kind = OldKind /\ OldSlotOf("primary", first)'
             /\ fk = {fkind} /\ ~DropFallback(primary, fk, fallback, legacy) =>
                    fkind # OldKind /\ second.kind = fkind /\ OldSlotOf("fallback", second)'
             /\ DropFallback(primary, fk, fallback, legacy) => fk = {OldKind}
  <2>1. /\ fk = Get(env, <<"fallback", "provider">>) /\ primary = ReadSlot(env, "primary", OldKind)
        /\ fallback = ReadSlot(env, "fallback", fkind) /\ legacy = ReadSlot(env, "openrouter", "openrouter")
        /\ origins' = MapLegacy(primary, fk, fallback, legacy).origins /\ env' = env
        /\ first = MapLegacy(primary, fk, fallback, legacy).primary
        /\ second = MapLegacy(primary, fk, fallback, legacy).fallback
    BY <1>1, <1>3
  <2> HIDE DEF primary, fallback, legacy, fk
  <2>2. QED BY <1>2, <2>1, MapOld
<1>4. OldKind' = OldKind /\ Get(env, <<"fallback", "provider">>)' = fk
  BY <1>1 DEF OldKind
<1> HIDE DEF mapped
<1>5. PICK first : first = mapped.primary
  OBVIOUS
<1>6. PICK second : second = mapped.fallback
  OBVIOUS
<1>7. settings'.primary.kind = OldKind' /\ OldSlotOf("primary", settings.primary)'
  <2>1. settings'.primary = first
    BY <1>1, <1>5
  <2>2. first.kind = OldKind /\ OldSlotOf("primary", first)'
    BY <1>3, <1>5, <1>6
  <2>3. QED BY <1>4, <2>1, <2>2 DEF OldSlotOf
<1>8. ASSUME NEW slt \in settings'.fallback PROVE slt = second /\ ~dropped /\ fk = {fkind}
  BY <1>1, <1>2, <1>6, <1>8
<1>9. \A slt \in settings'.fallback : OldSlotOf("fallback", slt)'
  BY <1>3, <1>5, <1>6, <1>8
<1>10. {slt.kind : slt \in settings'.fallback} = fk \ {OldKind}
  <2>1. CASE dropped
    <3>1. settings'.fallback = {} /\ fk \subseteq {OldKind}
      BY <1>1, <1>3, <1>5, <1>6, <2>1
    <3>2. QED BY <3>1
  <2>2. CASE ~dropped
    <3>1. settings'.fallback = {second} /\ fk = {fkind}
      BY <1>1, <1>2, <1>6, <2>2
    <3>2. fkind # OldKind /\ second.kind = fkind
      BY <1>3, <1>5, <1>6, <2>2, <3>1
    <3>3. QED BY <3>1, <3>2
  <2>3. QED BY <2>1, <2>2
<1>11. QED BY <1>4, <1>7, <1>9, <1>10 DEF OldSettings

LEMMA OldErrors ==
    ASSUME EnvFrom, PreSlot, OldSettings, NEW o, o \in {origins, NoOrigins}
    PROVE  /\ Errors(o) = {} /\ (o = origins => Invalid = {})
           /\ [primary |-> Primary(o).slot, fallback |-> {r.slot : r \in Fallbacks(o)}] = OldProvider
<1>1. /\ Primary(o).error = {} /\ Primary(o).slot = OldSlot(OldKind)
      /\ o = origins => Untrusted(Primary(o), cwdVars) = {}
  <2>1. "primary" \in Roles /\ OldSlotOf("primary", settings.primary) /\ settings.primary.kind = OldKind
    BY DEF OldSettings, Roles
  <2>2. QED BY <2>1, ResolvedOld DEF Primary
<1>2. ASSUME NEW slt \in settings.fallback
      PROVE  /\ Resolve(env, o, "fallback", slt).error = {}
             /\ Resolve(env, o, "fallback", slt).slot = OldSlot(slt.kind)
             /\ o = origins => Untrusted(Resolve(env, o, "fallback", slt), cwdVars) = {}
  <2>1. OldSlotOf("fallback", slt) /\ "fallback" \in Roles
    BY DEF OldSettings, Roles
  <2>2. QED BY <2>1, ResolvedOld
<1>3. Errors(o) = {}
  <2>1. \A r \in Fallbacks(o) : r.error = {}
    BY <1>2 DEF Fallbacks
  <2>2. UNION {r.error : r \in Fallbacks(o)} = {}
    BY <2>1
  <2>3. QED BY <1>1, <2>2 DEF Errors, FirstOf
<1>4. o = origins => Invalid = {}
  <2>1. ASSUME o = origins PROVE UNION {Untrusted(r, cwdVars) : r \in Fallbacks(o)} = {}
    <3>1. \A r \in Fallbacks(o) : Untrusted(r, cwdVars) = {}
      BY <1>2, <2>1 DEF Fallbacks
    <3>2. QED BY <3>1
  <2>2. QED BY <1>1, <1>3, <2>1 DEF Invalid, FirstOf
<1>5. {r.slot : r \in Fallbacks(o)} = {OldSlot(kd) : kd \in Get(env, <<"fallback", "provider">>) \ {OldKind}}
  <2>1. {r.slot : r \in Fallbacks(o)} = {OldSlot(slt.kind) : slt \in settings.fallback}
    BY <1>2 DEF Fallbacks
  <2>2. {slt.kind : slt \in settings.fallback} = Get(env, <<"fallback", "provider">>) \ {OldKind}
    BY DEF OldSettings
  <2>3. {OldSlot(slt.kind) : slt \in settings.fallback} = {OldSlot(kd) : kd \in {slt.kind : slt \in settings.fallback}}
    OBVIOUS
  <2>4. QED BY <2>1, <2>2, <2>3
<1>6. OldProvider = [primary |-> OldSlot(OldKind),
                     fallback |-> {OldSlot(kd) : kd \in Get(env, <<"fallback", "provider">>) \ {OldKind}}]
  BY DEF OldProvider, OldKind
<1>7. QED BY <1>1, <1>3, <1>4, <1>5, <1>6

LEMMA OldInvStep == ConfigInv /\ OldInv /\ [ConfigNext]_cvars => OldInv'
<1> SUFFICES ASSUME ConfigInv, OldInv, [ConfigNext]_cvars, (PreSlot /\ ~OneModel)'
    PROVE  /\ stage' \notin {"refused", "broken"}
           /\ stage' \in {"validate", "loaded"} => OldSettings'
           /\ stage' = "ready" => provider' = OldProvider'
  BY DEF OldInv
<1>1. CASE LoadCwd \/ LoadConfig
  BY <1>1 DEF LoadCwd, LoadConfig
<1>2. CASE ~(LoadCwd \/ LoadConfig)
  <2>1. UNCHANGED <<env, cwdVars>>
    BY <1>2 DEF ConfigNext, UnknownProvider, Refuse, ReadSettings, Validate, CreateProvider, cvars
  <2>2. PreSlot /\ ~OneModel /\ EnvFrom
    BY <2>1 DEF PreSlot, OneModel, ConfigInv
  <2>3. /\ stage \notin {"refused", "broken"}
        /\ stage \in {"validate", "loaded"} => OldSettings
        /\ stage = "ready" => provider = OldProvider
    BY <2>2 DEF OldInv
  <2>4. OldProvider' = OldProvider
    BY <2>1 DEF OldProvider, OldSlot
  <2>5. UNCHANGED <<settings, origins>> => OldSettings' = OldSettings
    BY <2>1 DEF OldSettings, OldSlotOf, OldSlotRead, OldKind
  <2>6. CASE UnknownProvider
    <3>1. ASSUME NEW r \in Roles PROVE Get(env, <<r, "provider">>) \subseteq Kinds
      BY <2>2, PreSlotKinds DEF Roles, Kinds
    <3>2. Unknown = {}
      BY <3>1 DEF Unknown
    <3>3. QED BY <2>6, <3>2 DEF UnknownProvider
  <2>7. CASE ReadSettings
    <3>1. OldSettings' /\ stage' = "validate"
      BY <2>2, <2>7, OldRead DEF ReadSettings
    <3>2. QED BY <3>1
  <2>8. CASE Validate
    <3>1. OldSettings /\ stage = "validate"
      BY <2>3, <2>8 DEF Validate
    <3>2. Invalid = {}
      BY <2>2, <3>1, OldErrors
    <3>3. stage' = "loaded" /\ UNCHANGED <<settings, origins>>
      BY <2>8, <3>2 DEF Validate
    <3>4. QED BY <2>5, <3>1, <3>3
  <2>9. CASE CreateProvider
    <3>1. OldSettings
      BY <2>3, <2>9 DEF CreateProvider
    <3>2. Errors(NoOrigins) = {}
          /\ [primary |-> Primary(NoOrigins).slot, fallback |-> {r.slot : r \in Fallbacks(NoOrigins)}] = OldProvider
      BY <2>2, <3>1, OldErrors
    <3>3. stage' = "ready" /\ provider' = OldProvider
      BY <2>9, <3>2 DEF CreateProvider
    <3>4. QED BY <2>4, <3>3
  <2>10. CASE UNCHANGED cvars
    <3>1. UNCHANGED <<stage, settings, origins, provider>>
      BY <2>10 DEF cvars
    <3>2. QED BY <2>3, <2>4, <2>5, <3>1
  <2>11. QED BY <1>2, <2>6, <2>7, <2>8, <2>9, <2>10 DEF ConfigNext
<1>3. QED BY <1>1, <1>2

\* A file as it was before there were slots starts the server with the slots it
\* used to mean, whichever of the two backends it names and in whichever file,
\* unless LLM_MODEL and OPENROUTER_MODEL name one model.
THEOREM PreSlotMeaningKeptThm == ConfigSpec => []PreSlotMeaningKept
<1>1. ConfigInit => OldInv
  BY DEF ConfigInit, OldInv
<1>2. OldInv => PreSlotMeaningKept
  BY DEF OldInv, PreSlotMeaningKept, OldMeaningKept
<1>3. QED BY <1>1, <1>2, OldInvStep, ConfigInvHolds, PTL DEF ConfigSpec

=============================================================================
