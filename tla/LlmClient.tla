------------------------------ MODULE LlmClient ------------------------------
(***************************************************************************)
(* The client of one LLM slot: how build_backend (init.rs) makes it and    *)
(* what it sends and makes of the replies (llm.rs over genai,              *)
(* llm_ollama_rs.rs over ollama-rs).                                       *)
(*                                                                         *)
(* A destination is a host and its port; a URL has the API's version in    *)
(* its path, /v1, or not.  A model has a namespace, "ollama" or another     *)
(* before "::", a provider genai infers from the bare name, and may be one *)
(* that rejects disabled thinking.                                         *)
(***************************************************************************)
EXTENDS Naturals

CONSTANTS
    ClientSlots,    \* the slots the configuration may yield
    Features,       \* the compiled-in clients: a set of sets
    Strangers,      \* the hosts an endpoint may redirect to
    MaxHops         \* redirects reqwest follows: 10

ASSUME ClientAssumption == MaxHops \in Nat /\ \A f \in Features : f \subseteq {"ollama-rs", "genai"}

\* No slot of a cloud backend is configured with a URL that is none (LlmConfig).
ASSUME SlotsAssumption ==
    \A s \in ClientSlots :
        /\ DOMAIN s.model = {"space", "adaptive"}
        /\ s.kind # "ollama" => s.url.sound

VARIABLES
    slot, features,
    client,     \* the client, once it is made
    call,       \* what it is doing
    wire,       \* the request on its way
    hops,       \* the redirects it followed
    result,     \* of the last call
    fine        \* history: a backend in order had the last chat's request: "plain" or "json"

lvars == <<slot, features, client, call, wire, hops, result, fine>>

Port(host, port)  == [host |-> host, port |-> port]
LocalOllama       == Port("localhost", "11434")
Nowhere           == Port("nowhere", "any")     \* of a request that cannot be made
CloudSlot         == slot.kind # "ollama"
Statuses          == {200, 302, 307, 400, 401, 402, 403, 404, 408, 422, 429, 500, 599}
Options == [temperature : BOOLEAN, max_tokens : BOOLEAN, json : BOOLEAN,
            think : {"unset", "no", "yes"}, lines : BOOLEAN]

ClientInit ==
    /\ slot \in ClientSlots /\ features \in Features
    /\ client = {} /\ call = "idle" /\ wire = {} /\ hops = 0
    /\ result = "none" /\ fine = "no"

-----------------------------------------------------------------------------
(* Faults.                                                                 *)

\* The cloud client keeps reqwest's default redirect policy.
FollowsAll(c) == TRUE

\* The temperature is dropped for Anthropic only.
ParametersTemperature(c, o) ==
    [temperature |-> o.temperature /\ c.api # "anthropic",
     max_tokens  |-> o.max_tokens \/ c.api = "anthropic",
     json        |-> o.json /\ c.api # "anthropic",
     effort      |-> IF c.api # "anthropic" THEN "unset" ELSE IF c.model.adaptive THEN "low" ELSE "zero"]

-----------------------------------------------------------------------------
(* Making the client.                                                      *)

Made(via, api, dest, key, model) ==
    client' = {[via |-> via, api |-> api, dest |-> dest, key |-> key, model |-> model]}

\* The port defaults to Ollama's; what is no http URL, to the local Ollama.
ParseHostPort(url) ==
    IF url.sound THEN Port(url.host, IF url.port = "any" THEN "11434" ELSE url.port) ELSE LocalOllama

\* OllamaRsLlmProvider::from_slot.  A key no header can hold is not sent.
OllamaRs ==
    Made("ollama-rs", "ollama", ParseHostPort(slot.url),
         slot.key = "good", [slot.model EXCEPT !.space = IF @ = "ollama" THEN "none" ELSE @])

\* GenaiLlmProvider::from_ollama_slot, with the model namespaced: genai picks its
\* adapter by the namespace, and only Ollama's gets the slot's endpoint.
GenaiOllama ==
    LET model == [slot.model EXCEPT !.space = IF @ = "none" THEN "ollama" ELSE @] IN
    Made("genai", model.space,
         IF ~slot.url.sound \/ slot.key = "garbled" THEN Nowhere
         ELSE IF model.space = "ollama" THEN Port(slot.url.host, slot.url.port)
         ELSE Port(model.space, "any"),
         slot.key # "none", model)

\* GenaiLlmProvider::with_cloud_client: adapter, endpoint and key are the slot's,
\* whatever genai infers from the model.
GenaiCloud ==
    Made("genai", IF slot.kind = "anthropic" THEN "anthropic" ELSE "openai",
         Port(slot.url.host, slot.url.port), TRUE, slot.model)

Build ==
    /\ call = "idle" /\ client = {} /\ result = "none"
    /\ \/ ~CloudSlot /\ "ollama-rs" \in features /\ OllamaRs /\ UNCHANGED result
       \/ ~CloudSlot /\ features = {"genai"} /\ GenaiOllama /\ UNCHANGED result
       \/ CloudSlot /\ "genai" \in features /\ slot.key \notin {"none", "blank"} /\ GenaiCloud
          /\ UNCHANGED result
       \/ /\ IF CloudSlot THEN "genai" \notin features \/ slot.key \in {"none", "blank"} ELSE features = {}
          /\ result' = "misconfigured" /\ UNCHANGED client
    /\ UNCHANGED <<slot, features, call, wire, hops, fine>>

-----------------------------------------------------------------------------
(* Requests.                                                               *)

\* Only clients of reqwest's default policy follow redirects.
Follows(c) == ~CloudSlot

Effort(c) == IF c.api # "anthropic" THEN "unset" ELSE IF c.model.adaptive THEN "low" ELSE "zero"

\* What of a chat's options reaches the backend.
Parameters(c, o) ==
    [temperature |-> o.temperature /\ ~CloudSlot,
     max_tokens  |-> o.max_tokens \/ c.api = "anthropic",
     json        |-> o.json /\ c.api # "anthropic",
     effort      |-> Effort(c)]

\* The system prompt: a head and a tail to be cached, if it has two lines; told not
\* to think, where the chat options cannot.
Prompt(c, o) ==
    [blocks   |-> IF c.api = "anthropic" /\ o.lines THEN 2 ELSE 1,
     no_think |-> c.via = "genai" /\ c.api = "ollama" /\ o.think = "no"]
NoOptions == [temperature |-> FALSE, max_tokens |-> FALSE, json |-> FALSE, think |-> "unset", lines |-> FALSE]

Send(what, c, o) ==
    /\ call' = what
    /\ wire' = {[what |-> what, dest |-> c.dest, api |-> c.api, key |-> c.key, body |-> TRUE,
                 space |-> IF c.via = "genai" THEN "none" ELSE c.model.space,
                 adaptive |-> c.model.adaptive, options |-> Parameters(c, o), prompt |-> Prompt(c, o)]}
    /\ hops' = 0 /\ result' = "none" /\ fine' = "no"
    /\ UNCHANGED <<slot, features, client>>

SendChat(c) == call = "idle" /\ \E o \in Options : Send("chat", c, o)

\* A cloud slot, and a model genai does not take for Ollama's, has no window.
AskWindow(c) ==
    /\ call = "idle" /\ c.api = "ollama"
    /\ Send("window", c, NoOptions)

\* Only ollama-rs looks for its model; the others have nothing to initialize.
InitModel(c) ==
    /\ call = "idle" /\ c.via = "ollama-rs"
    /\ Send("init", c, NoOptions)

-----------------------------------------------------------------------------
(* Replies.                                                                *)

End(outcome, mode) ==
    /\ call' = "idle" /\ wire' = {} /\ hops' = 0
    /\ result' = outcome /\ fine' = mode
    /\ UNCHANGED <<slot, features, client>>

StatusIsUnavailable(status) ==
    status \in 300..399 \/ status \in 500..599 \/ status \in {401, 402, 408, 429}

Verdict(status) == IF StatusIsUnavailable(status) THEN "unavailable" ELSE "content"

\* What a backend in order rejects, by what the code says of it.
Rejected(w) ==
    \/ w.options.temperature /\ CloudSlot
    \/ w.api = "anthropic" /\ (~w.options.max_tokens \/ w.options.json)
    \/ w.api = "anthropic" /\ w.adaptive /\ w.options.effort # "low"
    \/ w.api = "ollama" /\ w.space # "none"

\* The server starts with these two slots, and warns of them.  Anthropic's endpoint
\* for OpenAI clients was seen to reject JSON mode with a 400; the Messages API is
\* under /v1, without which a request likely gets a 404.
BreaksJsonMode ==
    slot.kind \in {"openai", "openrouter", "openai-compatible"} /\ slot.url.host = "api.anthropic.com"
LacksVersion == slot.kind = "anthropic" /\ ~slot.url.versioned

Mode(w) == IF w.options.json THEN "json" ELSE "plain"

\* A backend in order answers a sound chat with text and rejects any other; one that
\* was warned of may reject a sound one.
Served(w) ==
    /\ w.what = "chat" /\ hops = 0 /\ w.dest.host = slot.url.host
    /\ \/ End(IF Rejected(w) THEN Verdict(400) ELSE "ok", Mode(w))
       \/ BreaksJsonMode /\ w.options.json /\ End(Verdict(400), Mode(w))
       \/ LacksVersion /\ End(Verdict(404), Mode(w))

\* No answer, no end of it, or, to the cloud clients, none in time.
Unanswered(w) ==
    End(CASE w.what = "chat" -> "unavailable" [] w.what = "window" -> "no window" [] OTHER -> "failed", "no")

\* An answer of another status than success.  A missing model is pulled.
Failed(w, status) ==
    /\ status # 200
    /\ \/ w.what = "chat" /\ End(Verdict(status), "no")
       \/ w.what = "window" /\ End("no window", "no")
       \/ w.what = "init" /\ status = 404 /\ \E c \in client : Send("pull", c, NoOptions)
       \/ w.what = "init" /\ status # 404 /\ End("failed", "no")
       \/ w.what = "pull" /\ End("failed", "no")

\* With text, or with none.
AnswerText == End("ok", "no") \/ End("content", "no")

\* Success: with text or none, or nothing that can be decoded, which genai takes
\* for a fault of the request and ollama-rs for an outage.
Answer(w) ==
    \/ /\ w.what = "chat"
       /\ \/ AnswerText
          \/ \E c \in client : End(IF c.via = "ollama-rs" THEN "unavailable" ELSE "content", "no")
    \/ w.what = "window" /\ \E outcome \in {"window", "no window"} : End(outcome, "no")
    \/ w.what \in {"init", "pull"} /\ \E outcome \in {"ready", "failed"} : End(outcome, "no")

\* reqwest: 307 repeats the request, 302 makes it a GET; a key in the Authorization
\* header stays with its host and port, another header goes along.
Redirect(w, status, dest) ==
    /\ hops < MaxHops
    /\ hops' = hops + 1
    /\ wire' = {[w EXCEPT !.dest = dest, !.body = @ /\ status = 307,
                          !.key = @ /\ (dest = w.dest \/ w.api = "anthropic")]}
    /\ UNCHANGED <<slot, features, client, call, result, fine>>

Reply(w) ==
    \/ Unanswered(w)
    \/ w.dest # Nowhere /\ (Served(w) \/ Answer(w))
    \/ /\ w.dest # Nowhere
       /\ \E c \in client : \E status \in Statuses :
             IF status \in {302, 307} /\ Follows(c)
             THEN \/ \E host \in Strangers : Redirect(w, status, Port(host, "any"))
                  \/ Redirect(w, status, c.dest)
             ELSE Failed(w, status)

ClientNext ==
    \/ Build
    \/ \E c \in client : SendChat(c) \/ AskWindow(c) \/ InitModel(c)
    \/ \E w \in wire : Reply(w)
ClientSpec == ClientInit /\ [][ClientNext]_lvars

-----------------------------------------------------------------------------
(* Properties.                                                             *)

\* An Ollama slot may be given the model of another namespace.
OwnModel == slot.kind = "ollama" => slot.model.space \in {"none", "ollama"}

\* The host a slot's URL names; the local Ollama for what is no URL.
Home == IF slot.url.sound THEN slot.url.host ELSE "localhost"

\* "the configured backend must win", "Redirects are never followed": whatever the
\* model is called and wherever an endpoint redirects to, a request is made to the
\* slot's own host, in its protocol; no key ever goes to another host, and what a
\* cloud slot sends goes nowhere else.  (A model of another namespace names its own
\* provider to genai, where an Ollama slot is served by it.)
SentHome ==
    \A w \in wire : OwnModel /\ w.dest # Nowhere =>
        /\ w.key \/ CloudSlot \/ hops = 0 => w.dest.host = Home
        /\ CloudSlot => w.api = IF slot.kind = "anthropic" THEN "anthropic" ELSE "openai"

\* "a content fault fails identically everywhere": a chat that a backend in order
\* was sent is answered.  Whatever options the caller set, the client asks for
\* nothing that would be rejected and pass for a fault of the prompt, but where the
\* server warned of it at its start: of any chat of an Anthropic slot whose URL lacks
\* the version, and of JSON mode, but of nothing else, at Anthropic's OpenAI endpoint.
SoundIsServed ==
    fine # "no" /\ OwnModel =>
        \/ result = "ok"
        \/ LacksVersion
        \/ BreaksJsonMode /\ fine = "json"

=============================================================================
