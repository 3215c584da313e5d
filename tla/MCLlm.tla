------------------------------- MODULE MCLlm -------------------------------
(* TLC instance of the LLM backends: how they are configured (LlmConfig),  *)
(* what the client of a slot sends (LlmClient) and, for two slots, how     *)
(* they are used (LlmFallback).  They share no variable: a behaviour is of *)
(* one of them.                                                            *)
EXTENDS MCLlmFallback, LlmConfig, LlmClient

VARIABLE side

MCModels   == {"small", "ollama::small", "cloud", "stock"}
MCPrefixed == {"ollama::small"}
MCHosts    == {"here", "gpu", "far"}

At(name, layer)                == [at |-> <<name, layer>>]
UrlAt(name, layer, host, scheme) == [host |-> host, scheme |-> scheme, at |-> <<name, layer>>]
P(what) == <<"primary", what>>
F(what) == <<"fallback", what>>
R(what) == <<"openrouter", what>>
L(what) == <<"ollama", what>>

\* Everything in the environment: any kinds and models, old and new variables.
Env(pk, fk, pm, fm, rm, keys, pu, fu, ru, other) ==
    LET value == [n \in Names |->
            CASE n = P("provider") -> pk [] n = F("provider") -> fk
              [] n = P("model") -> pm [] n = F("model") -> fm [] n = R("model") -> rm
              [] n[2] = "api_key" -> IF n[1] \in keys THEN {At(n, "env")} ELSE {}
              [] n = P("base_url") -> {UrlAt(n, "env", "far", s) : s \in pu}
              [] n = F("base_url") -> {UrlAt(n, "env", "far", s) : s \in fu}
              [] n = R("base_url") -> {UrlAt(n, "env", "gpu", s) : s \in ru}
              [] n = L("base_url") -> {UrlAt(n, "env", "gpu", s) : s \in other}]
    IN  [env |-> value, cwd |-> <<>>, config |-> <<>>]
MCFlat ==
    {Env(pk, fk, model[1], fm, model[2], {"ollama"} \cup keys, urls[1], urls[2], urls[3], {"http"}) :
        pk \in {{}, {"openrouter"}, {"openai-compatible"}, {"anthropic"}, {"mistyped"}},
        fk \in {{}, {"ollama"}, {"openrouter"}, {"openai"}},
        model \in ({{}, {"small"}} \X {{}, {"cloud"}})
                  \cup {<<{"ollama::small"}, {"cloud"}>>, <<{"small"}, {"ollama::small"}>>,
                            <<{"small"}, {"small"}>>},
        fm \in {{}, {"small"}},
        keys \in {{}, {"primary"}, {"openrouter"}, {"primary", "fallback"}, {"openrouter", "fallback"}},
        urls \in {<<{}, {}, {}>>, <<{"https"}, {}, {}>>, <<{"http"}, {}, {}>>, <<{}, {}, {"https"}>>,
                  <<{}, {}, {"broken"}>>, <<{"https"}, {"https"}, {"https"}>>}}

\* Keys and URLs anywhere: in the config file, in both files, or in a file
\* while the environment has a blank.
Moving == {P("api_key"), P("base_url"), F("base_url"), R("api_key"), R("base_url"),
           L("api_key"), L("base_url")}
Value(n, layer) ==
    IF n[2] = "api_key" THEN {At(n, layer)}
    ELSE {UrlAt(n, layer, IF n[1] = "fallback" THEN "far" ELSE "gpu", "https")}
Spread(pk, fk, spot) ==
    LET in(spots) == {n \in DOMAIN spot : spot[n] \in spots}
        fixed == {P("provider"), F("provider"), P("model"), F("model")}
        common == [n \in fixed |-> CASE n = P("provider") -> pk [] n = F("provider") -> fk [] OTHER -> {"small"}]
    IN  [env    |-> [n \in in({"blank"}) |-> {}],
         cwd    |-> [n \in in({"both", "blank"}) |-> Value(n, "cwd")],
         config |-> [n \in in({"config", "both"}) \cup fixed |->
                        IF n \in fixed THEN common[n] ELSE Value(n, "config")]]
MCSpread ==
    {Spread(kinds[1], kinds[2], spot) :
        kinds \in {<<{"ollama"}, {}>>, <<{"ollama"}, {"openai"}>>, <<{"openrouter"}, {"ollama"}>>},
        spot \in [Moving -> {"none", "config", "both"}] \cup [Moving -> {"config", "blank"}]}
NoFiles == [l \in Layers |-> <<>>]
MCFiles == MCFlat \cup MCSpread \cup {NoFiles}

\* Slots as the configuration yields them, and every build.
MCModel(space, adaptive) == [space |-> space, adaptive |-> adaptive]
MCUrl(host, port, sound) == [host |-> host, port |-> port, sound |-> sound, versioned |-> TRUE]
MCUnversioned(url)      == [url EXCEPT !.versioned = FALSE]
MCSlots ==
    {[kind |-> "ollama", url |-> u, key |-> k, model |-> MCModel(m, FALSE)] :
        u \in {MCUrl("gpu", "any", TRUE), MCUrl("gpu", "8080", TRUE), MCUrl("none", "any", FALSE)},
        k \in {"none", "good"}, m \in {"none", "ollama", "openai"}}
    \cup {[kind |-> "ollama", url |-> MCUrl("gpu", "8080", TRUE), key |-> "garbled", model |-> MCModel("none", FALSE)]}
    \cup {[kind |-> cloud, url |-> MCUrl("far", "any", TRUE), key |-> k, model |-> MCModel("none", adaptive)] :
        cloud \in {"anthropic", "openai", "openrouter", "openai-compatible"},
        k \in {"none", "blank", "good"}, adaptive \in BOOLEAN}
    \* Warned of at the start, some of them.
    \cup {[kind |-> cloud, url |-> u, key |-> "good", model |-> MCModel("none", FALSE)] :
        cloud \in {"anthropic", "openai", "openrouter", "openai-compatible"},
        u \in {MCUnversioned(MCUrl("far", "any", TRUE)), MCUrl("api.anthropic.com", "any", TRUE)}}
MCFeatures  == SUBSET {"ollama-rs", "genai"}
MCStrangers == {"elsewhere"}
NoSlotYet   == CHOOSE s \in MCSlots : s.key = "none"

MCInit ==
    \/ /\ side = "chat" /\ slot = NoSlotYet /\ features = {} /\ given = NoFiles
       /\ Init /\ ClientInit /\ ConfigInit
    \/ /\ side = "client" /\ phase = "serving" /\ given = NoFiles
       /\ ConfigInit /\ ClientInit /\ Init
    \/ /\ side = "config" /\ phase = "serving" /\ slot = NoSlotYet /\ features = {}
       /\ Init /\ ClientInit /\ ConfigInit
MCNext ==
    /\ UNCHANGED side
    /\ \/ side = "chat" /\ Next /\ UNCHANGED <<cvars, lvars>>
       \/ side = "config" /\ ConfigNext /\ UNCHANGED <<vars, lvars>>
       \/ side = "client" /\ ClientNext /\ UNCHANGED <<vars, cvars>>
MCSpec == MCInit /\ [][MCNext]_<<vars, cvars, lvars, side>> /\ Fairness
=============================================================================
