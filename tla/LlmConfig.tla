------------------------------ MODULE LlmConfig ------------------------------
(***************************************************************************)
(* How the server's LLM slots are configured: Settings::load (config.rs)   *)
(* and create_llm_provider (init.rs).                                      *)
(*                                                                         *)
(* The environment, ./.env and the file of the config directory give       *)
(* values to variables; the first one to give it, blank or not, wins.      *)
(* There is a primary slot and an optional fallback.  Three deprecated     *)
(* OPENROUTER_* variables fill in what one of the slots lacks, and         *)
(* LLM_MODEL has a second meaning in files that are older than the slots.  *)
(* Loading ends with checks of which key goes where; the provider is made  *)
(* later, from the settings alone.                                         *)
(*                                                                         *)
(* A variable is a pair of the slot, or family, and the setting it is for: *)
(* <<"primary", "model">> is LLM_MODEL, <<"fallback", "model">>            *)
(* LLM_FALLBACK_MODEL, <<"openrouter", "model">> OPENROUTER_MODEL,         *)
(* <<"ollama", "base_url">> OLLAMA_HOST.  An optional value is a set with  *)
(* one element or none; a blank value is none.  A key or URL records the   *)
(* place it was written at, which the code does not have.                  *)
(***************************************************************************)
CONSTANTS
    Models,         \* names of models
    Prefixed,       \* those with the prefix ollama::
    Stock,          \* DEFAULT_OLLAMA_MODEL
    Hosts,          \* host and port of URLs
    Local,          \* that of DEFAULT_OLLAMA_HOST, a loopback address
    Files           \* what the environment and the two files may say

Roles    == {"primary", "fallback"}
Kinds    == {"ollama", "anthropic", "openai", "openrouter", "openai-compatible"}
Layers   == {"env", "cwd", "config"}
Names    == (Roles \X {"provider", "model", "api_key", "base_url"})
            \cup ({"openrouter"} \X {"model", "api_key", "base_url"})
            \cup ({"ollama"} \X {"api_key", "base_url"})
BuiltIn  == <<<<"built in", "base_url">>, "built in">>
Place    == (Names \X Layers) \cup {BuiltIn}
Key      == [at : Place]
Url      == [host : Hosts \cup Kinds, scheme : {"https", "http", "broken"}, at : Place]

ASSUME ConfigAssumption ==
    /\ Prefixed \subseteq Models /\ Stock \in Models \ Prefixed /\ Local \in Hosts
    /\ \A file \in Files : DOMAIN file = Layers /\ \A l \in Layers : DOMAIN file[l] \subseteq Names

\* What a variable may be set to.
ASSUME ValuesAssumption ==
    \A file \in Files : \A l \in Layers : \A n \in DOMAIN file[l] :
        /\ \A v, w \in file[l][n] : v = w
        /\ n[2] = "model"    => file[l][n] \subseteq Models
        /\ n[2] = "api_key"  => \A v \in file[l][n] : v \in Key /\ v.at = <<n, l>>
        /\ n[2] = "base_url" => \A v \in file[l][n] : v \in Url /\ v.at = <<n, l>>

VARIABLES
    stage,      \* of the start of the program
    given,      \* per layer: the variables set there and their values
    env,        \* the process environment
    cwdVars,    \* the variables ./.env set
    settings,   \* the slots, as configured
    origins,    \* the slot the OPENROUTER_* variables filled, and what they supplied
    error,
    provider    \* the slots in use

cvars == <<stage, given, env, cwdVars, settings, origins, error, provider>>

NoSlot    == [kind |-> "ollama", model |-> {}, api_key |-> {}, base_url |-> {}]
NoOrigins == [role |-> {}, supplied |-> {}]

ConfigInit ==
    /\ stage = "start"
    /\ given \in Files
    /\ env = given["env"]
    /\ cwdVars = {}
    /\ settings = [primary |-> NoSlot, fallback |-> {}]
    /\ origins = NoOrigins
    /\ error = {}
    /\ provider = [primary |-> NoSlot, fallback |-> {}]

-----------------------------------------------------------------------------
(* Reading.                                                                *)

\* dotenvy sets what is not set.
Overlay(e, file) ==
    [n \in DOMAIN e \cup DOMAIN file |-> IF n \in DOMAIN e THEN e[n] ELSE file[n]]

\* env_non_blank, non_blank.
Get(e, name) == IF name \in DOMAIN e THEN e[name] ELSE {}

ReadSlot(e, slot, kind) ==
    [kind |-> kind, model |-> Get(e, <<slot, "model">>),
     api_key |-> Get(e, <<slot, "api_key">>), base_url |-> Get(e, <<slot, "base_url">>)]

Unset(slot) == slot.model = {} /\ slot.api_key = {} /\ slot.base_url = {}

-----------------------------------------------------------------------------
(* apply_legacy_openrouter_env.  Below, fk is the fallback's kind, if any. *)

ReadsLegacy(kind) == kind \in {"openrouter", "openai-compatible"}

LegacyRole(primary, fk, legacy) ==
    IF Unset(legacy) THEN {}
    ELSE IF ReadsLegacy(primary.kind) THEN {"primary"}
    ELSE IF \E kind \in fk : ReadsLegacy(kind) THEN {"fallback"} ELSE {}

DropFallback(primary, fk, fallback, legacy) ==
    /\ LegacyRole(primary, fk, legacy) = {"primary"}
    /\ fk = {primary.kind} /\ Unset(fallback)

\* Is anything there that files older than the slots did not have?
PerSlotFormat(primary, fk, fallback) ==
    \/ primary.kind # "openrouter" \/ primary.api_key # {} \/ primary.base_url # {}
    \/ ~Unset(fallback)
    \/ ~(fk \subseteq {"ollama", "openrouter"})

\* Is OPENROUTER_MODEL the primary model?
GivesWay(primary, fk, fallback, legacy) ==
    /\ legacy.model # {} /\ legacy.model # primary.model
    /\ primary.model = {} \/ ~PerSlotFormat(primary, fk, fallback)

\* adopt_legacy: the settings of a slot that its own variables leave open.
Adopted(slot, legacy, whats) == {what \in whats : slot[what] = {} /\ legacy[what] # {}}
Adopt(slot, legacy, whats)   ==
    [what \in DOMAIN slot |-> IF what \in Adopted(slot, legacy, whats) THEN legacy[what] ELSE slot[what]]

\* A fault: LLM_MODEL is dropped, not moved to the Ollama fallback.
MapLegacyLosesModel(primary, fk, fallback, legacy) ==
    LET role == LegacyRole(primary, fk, legacy)
        way  == role = {"primary"} /\ GivesWay(primary, fk, fallback, legacy)
        named == IF way THEN [primary EXCEPT !.model = legacy.model] ELSE primary
    IN  [primary |-> IF role = {"primary"} THEN Adopt(named, legacy, {"api_key", "base_url"}) ELSE primary,
         fallback |-> IF role = {"fallback"} THEN Adopt(fallback, legacy, {"model", "api_key", "base_url"})
                      ELSE fallback,
         origins |->
            [role |-> role,
             supplied |->
                IF role = {"primary"}
                THEN Adopted(primary, legacy, {"api_key", "base_url"}) \cup (IF way THEN {"model"} ELSE {})
                ELSE IF role = {"fallback"} THEN Adopted(fallback, legacy, {"model", "api_key", "base_url"})
                ELSE {}]]

MapLegacy(primary, fk, fallback, legacy) ==
    LET role == LegacyRole(primary, fk, legacy)
        way  == role = {"primary"} /\ GivesWay(primary, fk, fallback, legacy)
        named == IF way THEN [primary EXCEPT !.model = legacy.model] ELSE primary
        moved == way /\ primary.model # {} /\ fk = {"ollama"}
    IN  [primary |-> IF role = {"primary"} THEN Adopt(named, legacy, {"api_key", "base_url"}) ELSE primary,
         fallback |-> IF role = {"fallback"} THEN Adopt(fallback, legacy, {"model", "api_key", "base_url"})
                      ELSE IF moved THEN [fallback EXCEPT !.model = primary.model] ELSE fallback,
         origins |->
            [role |-> role,
             supplied |->
                IF role = {"primary"}
                THEN Adopted(primary, legacy, {"api_key", "base_url"}) \cup (IF way THEN {"model"} ELSE {})
                ELSE IF role = {"fallback"} THEN Adopted(fallback, legacy, {"model", "api_key", "base_url"})
                ELSE {}]]

-----------------------------------------------------------------------------
(* Resolving a slot: the slot in use, the variables its key and URL came   *)
(* from, and an error if it cannot be used.                                *)

Err(what, names) == {[what |-> what, names |-> names]}

\* LegacyVarOrigins::supplied_by.
SuppliedBy(o, role, what) ==
    IF role \in o.role /\ what \in o.supplied THEN <<"openrouter", what>> ELSE <<role, what>>

\* A missing setting is reported with the deprecated variable that would do.
Missing(o, role, what) ==
    Err("missing", {<<role, what>>} \cup (IF role \in o.role THEN {<<"openrouter", what>>} ELSE {}))

LocalUrl == [host |-> Local, scheme |-> "http", at |-> BuiltIn]
DefaultUrl(kind) ==
    IF kind \in {"anthropic", "openai", "openrouter"}
    THEN {[host |-> kind, scheme |-> "https", at |-> BuiltIn]} ELSE {}

SameOrigin(u, v) == u.scheme # "broken" /\ u.scheme = v.scheme /\ u.host = v.host
OrLocal(urls)    == IF urls = {} THEN LocalUrl ELSE CHOOSE u \in urls : TRUE

\* OLLAMA_API_KEY goes to OLLAMA_HOST only.
ResolveOllama(e, role, slot) ==
    LET host == Get(e, <<"ollama", "base_url">>)
        key  == Get(e, <<"ollama", "api_key">>)
        url  == IF slot.base_url # {} THEN slot.base_url ELSE host
        inherited == slot.api_key = {} /\ key # {} /\ SameOrigin(OrLocal(url), OrLocal(host))
    IN  [error |-> {},
         slot |-> [kind |-> "ollama",
                   model |-> IF slot.model # {} THEN slot.model ELSE {Stock},
                   api_key |-> IF inherited THEN key ELSE slot.api_key,
                   base_url |-> url],
         keyVar |-> IF inherited THEN {<<"ollama", "api_key">>}
                    ELSE {<<role, "api_key">> : k \in slot.api_key},
         urlVar |-> IF slot.base_url # {} THEN {<<role, "base_url">>}
                    ELSE {<<"ollama", "base_url">> : u \in host}]

\* require_https_or_loopback.
Insecure(u) == u.scheme # "https" /\ u.host # Local

\* require_paired_legacy_credential: both are OPENROUTER_*, or neither.
Paired(keyVar, urlVars) == \A u \in urlVars : keyVar[1] = "openrouter" <=> u[1] = "openrouter"

ResolveCloud(o, role, slot) ==
    LET url    == IF slot.base_url # {} THEN slot.base_url ELSE DefaultUrl(slot.kind)
        keyVar == SuppliedBy(o, role, "api_key")
        urlVar == {SuppliedBy(o, role, "base_url") : u \in slot.base_url}
    IN  [error |->
            IF slot.api_key = {} THEN Missing(o, role, "api_key")
            ELSE IF slot.model = {} THEN Missing(o, role, "model")
            ELSE IF slot.model \subseteq Prefixed THEN Err("ollama model", {SuppliedBy(o, role, "model")})
            ELSE IF \E u \in slot.base_url : u.scheme = "broken" THEN Err("invalid url", urlVar)
            ELSE IF \E u \in slot.base_url : Insecure(u) THEN Err("insecure url", urlVar)
            ELSE IF url = {} THEN Missing(o, role, "base_url")
            ELSE IF ~Paired(keyVar, urlVar) THEN Err("mixed", {keyVar} \cup urlVar)
            ELSE {},
         slot |-> [slot EXCEPT !.base_url = url],
         keyVar |-> {keyVar},
         urlVar |-> urlVar]

Resolve(e, o, role, slot) ==
    IF slot.kind = "ollama" THEN ResolveOllama(e, role, slot) ELSE ResolveCloud(o, role, slot)

\* require_trusted_endpoint.
Untrusted(resolved, cwd) ==
    IF resolved.urlVar # {} /\ resolved.urlVar \subseteq cwd
       /\ resolved.keyVar # {} /\ resolved.keyVar \cap cwd = {}
    THEN Err("untrusted", resolved.urlVar \cup resolved.keyVar) ELSE {}

FirstOf(a, b) == IF a # {} THEN a ELSE b

-----------------------------------------------------------------------------
(* Settings::load, and the provider.                                       *)

\* A fault: the variables of ./.env are told apart from those of neither file.
LoadCwdLate ==
    /\ stage = "start"
    /\ env' = Overlay(env, given["cwd"])
    /\ cwdVars' = DOMAIN Overlay(given["cwd"], given["config"]) \ DOMAIN env
    /\ stage' = "cwd"
    /\ UNCHANGED <<given, settings, origins, error, provider>>

LoadCwd ==
    /\ stage = "start"
    /\ env' = Overlay(env, given["cwd"])
    /\ cwdVars' = DOMAIN given["cwd"] \ DOMAIN env
    /\ stage' = "cwd"
    /\ UNCHANGED <<given, settings, origins, error, provider>>

LoadConfig ==
    /\ stage = "cwd"
    /\ env' = Overlay(env, given["config"])
    /\ stage' = "read"
    /\ UNCHANGED <<given, cwdVars, settings, origins, error, provider>>

Unknown == {name \in Roles \X {"provider"} : ~(Get(env, name) \subseteq Kinds)}

Refuse(why) ==
    /\ stage' = "refused" /\ error' = why
    /\ UNCHANGED <<given, env, cwdVars, settings, origins, provider>>

UnknownProvider ==
    /\ stage = "read" /\ Unknown # {}
    /\ \E name \in Unknown :
          /\ name = <<"fallback", "provider">> => <<"primary", "provider">> \notin Unknown
          /\ Refuse(Err("unknown provider", {name}))

ReadSettings ==
    /\ stage = "read" /\ Unknown = {}
    /\ LET pk == Get(env, <<"primary", "provider">>)
           fk == Get(env, <<"fallback", "provider">>)
           primary  == ReadSlot(env, "primary", IF pk = {} THEN "ollama" ELSE CHOOSE k \in pk : TRUE)
           fallback == ReadSlot(env, "fallback", IF fk = {} THEN "ollama" ELSE CHOOSE k \in fk : TRUE)
           legacy   == ReadSlot(env, "openrouter", "openrouter")
           mapped   == MapLegacy(primary, fk, fallback, legacy)
           dropped  == fk = {} \/ DropFallback(primary, fk, fallback, legacy)
       IN  /\ settings' = [primary |-> mapped.primary,
                           fallback |-> IF dropped THEN {} ELSE {mapped.fallback}]
           /\ origins' = mapped.origins
    /\ stage' = "validate"
    /\ UNCHANGED <<given, env, cwdVars, error, provider>>

Primary(o)   == Resolve(env, o, "primary", settings.primary)
Fallbacks(o) == {Resolve(env, o, "fallback", slot) : slot \in settings.fallback}
Errors(o)    == FirstOf(Primary(o).error, UNION {r.error : r \in Fallbacks(o)})

\* validate_with: both slots are resolved before either endpoint is looked at.
Invalid ==
    FirstOf(Errors(origins),
            FirstOf(Untrusted(Primary(origins), cwdVars),
                    UNION {Untrusted(r, cwdVars) : r \in Fallbacks(origins)}))

Validate ==
    /\ stage = "validate"
    /\ \/ Invalid # {} /\ Refuse(Invalid)
       \/ /\ Invalid = {}
          /\ stage' = "loaded"
          /\ UNCHANGED <<given, env, cwdVars, settings, origins, error, provider>>

\* create_llm_provider resolves the slots anew, without the origins.
CreateProvider ==
    /\ stage = "loaded"
    /\ \/ /\ Errors(NoOrigins) # {}
          /\ stage' = "broken" /\ error' = Errors(NoOrigins)
          /\ UNCHANGED provider
       \/ /\ Errors(NoOrigins) = {}
          /\ stage' = "ready"
          /\ provider' = [primary |-> Primary(NoOrigins).slot,
                          fallback |-> {r.slot : r \in Fallbacks(NoOrigins)}]
          /\ UNCHANGED error
    /\ UNCHANGED <<given, env, cwdVars, settings, origins>>

ConfigNext ==
    LoadCwd \/ LoadConfig \/ UnknownProvider \/ ReadSettings \/ Validate \/ CreateProvider
ConfigSpec == ConfigInit /\ [][ConfigNext]_cvars

-----------------------------------------------------------------------------
(* Properties.                                                             *)

Used == {provider.primary} \cup provider.fallback
Written(option) == {v.at : v \in option} \ {BuiltIn}

\* "A key is only sent to the endpoint configured with it": whatever shadows
\* what, a deprecated key goes to the deprecated URL or the backend's own, and
\* no other key goes there; OLLAMA_API_KEY goes to OLLAMA_HOST; a key that
\* ./.env did not set goes to no URL that it did.
KeysGoHome ==
    stage = "ready" =>
        \A slot \in Used : \A k \in Written(slot.api_key), u \in Written(slot.base_url) :
            /\ k[1][1] = "openrouter" <=> u[1][1] = "openrouter"
            /\ u[2] = "cwd" => k[2] = "cwd"
            /\ k[1][1] = "ollama" =>
                  SameOrigin(OrLocal(slot.base_url), OrLocal(Get(env, <<"ollama", "base_url">>)))

\* A file as it was before there were slots, with both meanings clear.
PreSlotNames == {<<r, "provider">> : r \in Roles} \cup {<<"primary", "model">>}
                \cup {n \in Names : n[1] \in {"openrouter", "ollama"}}
PreSlot ==
    LET kinds == Get(env, <<"primary", "provider">>) \cup Get(env, <<"fallback", "provider">>) IN
    /\ \A n \in DOMAIN env : env[n] # {} => n \in PreSlotNames /\ n \notin cwdVars
    /\ "openrouter" \in kinds /\ kinds \subseteq {"ollama", "openrouter"}
    /\ \A what \in {"model", "api_key"} : Get(env, <<"openrouter", what>>) # {}
    /\ ~(Get(env, <<"openrouter", "model">>) \subseteq Prefixed)
    /\ \A u \in Get(env, <<"openrouter", "base_url">>) : u.scheme = "https"
    /\ \A u \in Get(env, <<"ollama", "base_url">>) : u.scheme # "broken"

\* What it meant: one cloud backend of OPENROUTER_*, and LLM_MODEL the Ollama
\* model; a fallback that is the primary's backend is ignored.
OldSlot(kind) ==
    LET url == Get(env, <<"openrouter", "base_url">>) IN
    IF kind = "openrouter"
    THEN [kind |-> kind, model |-> Get(env, <<"openrouter", "model">>),
          api_key |-> Get(env, <<"openrouter", "api_key">>),
          base_url |-> IF url = {} THEN DefaultUrl(kind) ELSE url]
    ELSE [kind |-> kind,
          model |-> IF Get(env, <<"primary", "model">>) = {} THEN {Stock} ELSE Get(env, <<"primary", "model">>),
          api_key |-> Get(env, <<"ollama", "api_key">>),
          base_url |-> Get(env, <<"ollama", "base_url">>)]
OldProvider ==
    LET pk == Get(env, <<"primary", "provider">>)
        fk == Get(env, <<"fallback", "provider">>)
        primary == IF pk = {} THEN "ollama" ELSE CHOOSE k \in pk : TRUE
    IN  [primary |-> OldSlot(primary), fallback |-> {OldSlot(kind) : kind \in fk \ {primary}}]

\* "LLM_MODEL keeps its old meaning - the Ollama model": a pre-slot file still
\* starts the server, with the slots it used to mean.
OldMeaningKept ==
    stage \in {"refused", "broken", "ready"} /\ PreSlot => stage = "ready" /\ provider = OldProvider

\* "keeps old semantics": so it is unless LLM_MODEL and OPENROUTER_MODEL name one
\* model, which an Ollama fallback is then not given.
OneModel ==
    /\ Get(env, <<"fallback", "provider">>) = {"ollama"}
    /\ Get(env, <<"primary", "model">>) = Get(env, <<"openrouter", "model">>)
PreSlotMeaningKept == OneModel \/ OldMeaningKept

=============================================================================
