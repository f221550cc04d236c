------------------------------ MODULE Adapters ------------------------------
(***************************************************************************)
(* The adapters (internal/adapter/adapters.go, adapters_extra.go): what    *)
(* each application's contract says of it, and the command, environment    *)
(* and configuration files a profile is rendered into.                     *)
(*                                                                         *)
(* A value of a variable is a pair: where it comes from and of what.  A    *)
(* profile keeps its app, provider, key, command, the model slots that are *)
(* filled and the variables it sets; a configuration file its path, its    *)
(* scope and, by provider, the variable it tells the app to read the key   *)
(* from.  The spelling of model names and URLs, texts and hazards are data.*)
(***************************************************************************)
EXTENDS Naturals, FiniteSets, Functions

CONSTANTS
    Provider,       \* the registry: compatibility, auth, key variable, extra, setup by slug
    Families,       \* the slugs that share credentials, CredentialCompatible
    Keys,           \* key ids, in the order they were added
    SecretNames,    \* the names sensitive.IsSecretName takes for a credential's
    Installed,      \* the commands exec.LookPath and FindBinary find
    Capable,        \* free-code says it supports OpenAI chat completions
    None

Slugs == DOMAIN Provider
ASSUME AdapterAssumption ==
    /\ Keys \subseteq Nat /\ None \notin Keys
    /\ Capable \in BOOLEAN
    /\ \A s \in Slugs : Provider[s].auth \in {"bearer", "aws", "none"}
    /\ \A s \in Slugs : DOMAIN Provider[s].extra \cap SecretNames = {}

(* What defaultProviders holds and Normalize makes of a provider that is   *)
(* added: no authentication and no variable is for a local server, a       *)
(* second secret is an AWS one, and no fixed variable is the bridge's      *)
(* stand-in for a key.                                                     *)
ASSUME RegistryAssumption == \A s \in Slugs :
    /\ Provider[s].auth = "none" /\ Provider[s].var = "" => Provider[s].compat = "local"
    /\ \A n \in DOMAIN Provider[s].setup :
         Provider[s].setup[n] = "secret" => Provider[s].auth = "aws"
    /\ \A n \in DOMAIN Provider[s].extra : Provider[s].extra[n] # "aegiskeys-local-bridge"

Secret(k) == <<"secret", k>>
Component(k) == <<"component", k>>      \* one of ExtraSecrets
Url(s) == <<"url", s>>
AnthropicUrl(s) == <<"anthropic url", s>>
Model(slot) == <<"model", slot>>
Own(name) == <<"profile", name>>        \* a value of the profile's env
Text(t) == <<"text", t>>
Unset == <<"unset", "">>                \* the empty string: not in the child
BridgeToken == Text("aegiskeys-local-bridge")

(* Two environments in one, the first over the second. *)
f ++ g == [n \in DOMAIN f \cup DOMAIN g |-> IF n \in DOMAIN f THEN f[n] ELSE g[n]]
Var(name, value) == [n \in {name} |-> value]
NoEnv == [n \in {} |-> Unset]
Without(env, names) == Restrict(env, DOMAIN env \ names)
OwnEnv(p) == [n \in p.env |-> Own(n)]
Looks(name) == name \in SecretNames
NeedsKey(s) == Provider[s].auth # "none"
(* A key kept for no provider ("") is for any. *)
CredentialCompatible(s, of) == of \in {"", s} \/ \E f \in Families : {s, of} \subseteq f
-----------------------------------------------------------------------------
(* Contracts.  A command-line app that takes its key from the environment  *)
(* is what most adapters vary.                                             *)
Cli == [level |-> "full_env", control |-> "env_injected", confidence |-> "experimental",
        named |-> TRUE, command |-> "", gates |-> FALSE, checks |-> TRUE, modes |-> {"env"},
        surfaces |-> {"cli"}, launches |-> TRUE, arbitrary |-> FALSE, injects |-> TRUE,
        patches |-> FALSE, files |-> {}, models |-> TRUE, slots |-> {"main"},
        manual |-> FALSE, accepts |-> {"openai", "local"}]
Patched(path) ==
    [Cli EXCEPT !.level = "env_config", !.control = "config_patched",
                !.modes = {"env", "config_file"}, !.patches = TRUE, !.files = {path}]
Verified(contract) == [contract EXCEPT !.confidence = "verified", !.gates = TRUE]
Extension == [Cli EXCEPT !.level = "manual_credential", !.control = "manual_login",
                !.modes = {"config_file"}, !.surfaces = {"extension"}, !.launches = FALSE,
                !.injects = FALSE, !.manual = TRUE, !.checks = FALSE,
                !.accepts = {"openai", "anthropic", "local"}]

GenericContract == [Verified(Cli) EXCEPT !.modes = {"env", "args"}, !.arbitrary = TRUE]
CrushContract == [Verified(Patched("crush.json")) EXCEPT
    !.command = "crush", !.slots = {"main", "catalog"}]
AiderContract == [Verified(Cli) EXCEPT !.command = "aider", !.modes = {"env", "args"},
    !.slots = {"main", "weak", "editor"}, !.accepts = {"openai", "anthropic", "google", "local"}]
ClineContract == [Patched("providers.json") EXCEPT !.command = "cline",
    !.slots = {"planner", "actor"}, !.accepts = {"openai", "anthropic"}]
HermesContract == [Patched("hermes/config.yaml") EXCEPT !.command = "hermes",
    !.slots = {"main", "compression", "vision", "web_extract"}]
QwenContract == [Verified(Patched("qwen/settings.json")) EXCEPT !.command = "qwen",
    !.slots = {"main", "catalog", "fallbacks"}]
ClaudeContract == [Verified(Cli) EXCEPT !.command = "claude",
    !.slots = {"main", "fast", "planner", "subagent"}, !.accepts = {"anthropic", "openai"}]
FreeClaudeContract == [Cli EXCEPT !.command = "free-code",
    !.slots = {"main", "fast", "planner", "subagent"}, !.accepts = {"anthropic", "openai"}]
VibeContract == [Patched("vibe/config.toml") EXCEPT !.command = "vibe"]
GooseContract == [Verified(Patched("goose/config.yaml")) EXCEPT
    !.command = "goose", !.slots = {"main", "fast"}]
ZedContract == [Patched("zed/settings.json") EXCEPT !.command = "zed",
    !.level = "config_keychain", !.control = "keychain_handoff", !.confidence = "guided",
    !.modes = {"env", "config_file", "keychain_handoff"}, !.surfaces = {"gui", "ide"},
    !.injects = FALSE, !.manual = TRUE, !.checks = FALSE,
    !.slots = {"main", "inline_assistant", "subagent", "commit_message",
               "thread_summary", "alternatives"},
    !.accepts = {"openai", "anthropic", "google", "local"}]
IntelliJContract == [Patched("idea.vmoptions") EXCEPT !.command = "idea",
    !.level = "launcher_isolation", !.control = "manual_login", !.confidence = "guided",
    !.surfaces = {"ide"}, !.injects = FALSE, !.manual = TRUE, !.checks = FALSE,
    !.accepts = {"openai", "anthropic", "google", "local"}]
MiMoContract == [Patched("mimocode.json") EXCEPT
    !.command = "mimo", !.accepts = {"openai", "anthropic", "local"}]
OpenCodeContract == [Patched("opencode.json") EXCEPT
    !.command = "opencode", !.accepts = {"openai", "anthropic", "local"}]
OpenHandsContract == [Cli EXCEPT
    !.command = "openhands", !.accepts = {"openai", "anthropic", "local"}]
GeminiContract == [Cli EXCEPT !.command = "gemini", !.accepts = {"google", "openai"}]
CopilotContract == [Cli EXCEPT !.command = "copilot", !.accepts = {"openai", "anthropic"}]
ContinueContract == [Cli EXCEPT !.command = "continue", !.surfaces = {"cli", "extension"},
    !.accepts = {"openai", "anthropic", "local"}]
CodexContract == [Patched("aegiskeys.config.toml") EXCEPT !.command = "codex",
    !.slots = {"main", "gpt54", "gpt54mini", "gpt53codex", "gpt52codex", "gpt52",
               "gpt51codexmax", "gpt51codexmini"},
    !.accepts = {"openai", "anthropic", "local", "google"}]
RooContract == Extension
KiloContract == Extension
CursorContract == [Extension EXCEPT !.modes = {}, !.surfaces = {"gui", "ide"},
    !.models = FALSE, !.slots = {}]

Contracts ==
    [generic |-> GenericContract, crush |-> CrushContract, aider |-> AiderContract,
     cline |-> ClineContract, hermes |-> HermesContract, qwen |-> QwenContract,
     claude |-> ClaudeContract, vibe |-> VibeContract, goose |-> GooseContract,
     zed |-> ZedContract, intellij |-> IntelliJContract, mimo |-> MiMoContract,
     opencode |-> OpenCodeContract, openhands |-> OpenHandsContract,
     gemini |-> GeminiContract, copilot |-> CopilotContract, codex |-> CodexContract,
     roo |-> RooContract, kilo |-> KiloContract, cursor |-> CursorContract]
    ++ Var("free-claude", FreeClaudeContract) ++ Var("continue", ContinueContract)
Apps == DOMAIN Contracts
Supports(app, s) == Provider[s].compat \in Contracts[app].accepts
CatalogApps == {"crush", "qwen", "mimo", "opencode", "codex"}
-----------------------------------------------------------------------------
(* Strategies, and why there is none. *)
Refused(why) == [ok |-> FALSE, why |-> why]
Strategy(command, env, files) ==
    [ok |-> TRUE, why |-> "", command |-> command, env |-> env, files |-> files,
     transport |-> "", bridge |-> None, blocked |-> FALSE, nilEnv |-> FALSE]
File(path, scope, names) == [path |-> path, scope |-> scope, names |-> names]
KeyName(s) == [slug |-> s, var |-> Provider[s].var]

(* buildBaseEnv: the key, then the provider's fixed variables, then what   *)
(* its setup collected; later ones win.                                    *)
SetupEnv(s, k, vault) ==
    IF k = None THEN NoEnv
    ELSE LET setup == Provider[s].setup
             Given(n) == vault[k].full \/ setup[n] = "endpoint"
         IN [n \in {n \in DOMAIN setup : Given(n)} |->
                CASE setup[n] = "secret" -> Component(k)
                  [] setup[n] = "endpoint" -> IF vault[k].full THEN Url(s) ELSE Unset
                  [] OTHER -> <<"field", n>>]
BaseEnv(s, k, vault) ==
    SetupEnv(s, k, vault)
    ++ [n \in DOMAIN Provider[s].extra |-> Text(Provider[s].extra[n])]
    ++ [n \in IF k = None \/ Provider[s].var = "" THEN {} ELSE {Provider[s].var} |-> Secret(k)]
AnyKey(s, k, vault) == TRUE
InjectAllowed(s, k, vault) == k = None \/ Provider[s].var = "" \/ vault[k].inject
Based(s, k, vault, strategy) ==
    IF InjectAllowed(s, k, vault) THEN strategy ELSE Refused("policy")

ModelEnv(p, slotOf) ==
    [n \in {n \in DOMAIN slotOf : slotOf[n] \in p.models} |-> Model(slotOf[n])]
AnthropicModels == [ANTHROPIC_DEFAULT_SONNET_MODEL |-> "main",
                    ANTHROPIC_DEFAULT_HAIKU_MODEL |-> "fast",
                    ANTHROPIC_DEFAULT_OPUS_MODEL |-> "planner",
                    CLAUDE_CODE_SUBAGENT_MODEL |-> "subagent"]
AnthropicKeyVar(s) ==
    IF s = "freeinference-anthropic" THEN "ANTHROPIC_AUTH_TOKEN" ELSE "ANTHROPIC_API_KEY"
AnthropicKey(s, k) ==
    IF k = None \/ Provider[s].var = "" THEN NoEnv ELSE Var(AnthropicKeyVar(s), Secret(k))
AnthropicUrlEnv(s) == Var("ANTHROPIC_BASE_URL", AnthropicUrl(s))

ModelVar(s) == CASE Provider[s].compat = "anthropic" -> "ANTHROPIC_MODEL"
                 [] Provider[s].compat = "google" -> "GOOGLE_MODEL"
                 [] OTHER -> "OPENAI_MODEL"
GenericRender(p, k, vault) ==
    IF p.command = "" THEN Refused("no command")
    ELSE LET models == IF Provider[p.provider].auth = "aws" THEN NoEnv
                       ELSE ModelEnv(p, Var(ModelVar(p.provider), "main"))
         IN Strategy(p.command, models ++ BaseEnv(p.provider, k, vault), {})

CrushRender(p, k, vault) ==
    Strategy("crush", BaseEnv(p.provider, k, vault),
        IF p.provider \in {"openai", "anthropic"} THEN {}
        ELSE {File("crush.json", "user", {KeyName(p.provider)})})

AiderRender(p, k, vault) ==
    LET base == IF Provider[p.provider].compat \in {"openai", "local"}
                THEN Var("AIDER_OPENAI_API_BASE", Url(p.provider)) ELSE NoEnv
    IN Strategy("aider", base ++ BaseEnv(p.provider, k, vault), {})

ClineRender(p, k, vault) ==
    Strategy("cline", BaseEnv(p.provider, k, vault),
        IF Provider[p.provider].compat = "openai" THEN {File("providers.json", "user", {})}
        ELSE {})

HermesRender(p, k, vault) ==
    LET home == IF "HERMES_HOME" \in p.env THEN NoEnv ELSE Var("HERMES_HOME", Text("temp/profile"))
    IN Strategy("hermes", home ++ BaseEnv(p.provider, k, vault),
                {File("hermes/config.yaml", "profile", {})})

QwenRender(p, k, vault) ==
    Strategy("qwen", BaseEnv(p.provider, k, vault),
             {File("qwen/settings.json", "user", {KeyName(p.provider)})})

(* Claude Code: an Anthropic endpoint takes the key as its own; any other  *)
(* takes it as a token, FreeInference behind the bridge; Bedrock keeps the *)
(* provider's variables.                                                   *)
ClaudeRender(p, k, vault) ==
    LET s == p.provider
        env == ModelEnv(p, AnthropicModels) ++ BaseEnv(s, k, vault)
        token == IF k = None THEN NoEnv
                 ELSE [ANTHROPIC_AUTH_TOKEN |-> Secret(k), ANTHROPIC_API_KEY |-> Unset]
        routed == AnthropicUrlEnv(s) ++ token ++ Without(env, {Provider[s].var})
    IN CASE Provider[s].compat = "anthropic" ->
              Strategy("claude", AnthropicUrlEnv(s) ++ AnthropicKey(s, k) ++ env, {})
         [] Provider[s].compat = "openai" /\ Provider[s].auth = "aws" ->
              Strategy("claude", env, {})
         [] Provider[s].compat = "openai" /\ Provider[s].auth # "aws" /\ s = "freeinference" ->
              IF k = None THEN Refused("bridge key")
              ELSE [Strategy("claude",
                        [ANTHROPIC_AUTH_TOKEN |-> BridgeToken,
                         ANTHROPIC_API_KEY |-> BridgeToken] ++ routed, {})
                    EXCEPT !.bridge = k]
         [] OTHER -> Strategy("claude", routed, {})

OpenAITransport == {"CLAUDE_CODE_USE_OPENAI_COMPATIBLE", "OPENAI_BASE_URL", "OPENAI_API_KEY"}
AnthropicTransport == {"ANTHROPIC_API_KEY", "ANTHROPIC_AUTH_TOKEN", "ANTHROPIC_BASE_URL"}
(* free-code: one of two transports, each without the other's variables.   *)
FreeClaudeEnv(p, k, vault) ==
    LET s == p.provider
        env == ModelEnv(p, AnthropicModels) ++ BaseEnv(s, k, vault)
        switches == {"CLAUDE_CODE_USE_OPENAI", "CLAUDE_CODE_USE_CODEX", Provider[s].var}
    IN CASE Provider[s].compat = "anthropic" ->
              AnthropicUrlEnv(s) ++ AnthropicKey(s, k)
              ++ Without(env, OpenAITransport \cup switches \cup {"ANTHROPIC_API_KEY"})
         [] Provider[s].compat # "anthropic" /\ Provider[s].auth = "aws" -> env
         [] OTHER ->
              [CLAUDE_CODE_USE_OPENAI_COMPATIBLE |-> Text("1"),
               OPENAI_BASE_URL |-> Url(s), OPENAI_API_KEY |-> Secret(k)]
              ++ Without(env, switches \cup AnthropicTransport)
FreeClaudeRender(p, k, vault) ==
    LET openai == Provider[p.provider].compat = "openai"
        command == IF p.command = "" THEN "free-code" ELSE p.command
    IN IF openai /\ Provider[p.provider].auth # "aws" /\ k = None THEN Refused("key")
       ELSE IF command \notin Installed THEN Refused("no free-code")
       ELSE IF openai /\ ~Capable THEN Refused("capability")
       ELSE [Strategy(command, FreeClaudeEnv(p, k, vault), {})
             EXCEPT !.transport = IF openai THEN "openai chat" ELSE "anthropic messages"]

VibeRender(p, k, vault) ==
    Strategy("vibe", BaseEnv(p.provider, k, vault),
             {File("vibe/config.toml", "user", {KeyName(p.provider)})})

GooseRender(p, k, vault) ==
    Strategy("goose",
        [GOOSE_PROVIDER |-> Text("openai"), GOOSE_PROVIDER__HOST |-> Url(p.provider)]
        ++ ModelEnv(p, [GOOSE_MODEL |-> "main", GOOSE_FAST_MODEL |-> "fast"])
        ++ BaseEnv(p.provider, k, vault),
        {File("goose/config.yaml", "user", {})})

ZedRender(p, k, vault) ==
    Strategy("zed", BaseEnv(p.provider, k, vault), {File("zed/settings.json", "user", {})})

IntelliJRender(p, k, vault) ==
    Strategy("idea", Var("IDEA_VM_OPTIONS", Text("idea.vmoptions")),
             {File("idea.vmoptions", "profile", {})})

(* MiMo and OpenCode share a configuration schema. *)
OpenCodeFile(path, s) ==
    {File(path, "user", IF Provider[s].var = "" THEN {} ELSE {KeyName(s)})}
MiMoRender(p, k, vault) ==
    Strategy("mimo", BaseEnv(p.provider, k, vault), OpenCodeFile("mimocode.json", p.provider))
OpenCodeRender(p, k, vault) ==
    Strategy("opencode", BaseEnv(p.provider, k, vault), OpenCodeFile("opencode.json", p.provider))

OpenHandsRender(p, k, vault) ==
    Strategy("openhands",
        Var("OPENHANDS_PROVIDER", Text(p.provider))
        ++ ModelEnv(p, [OPENHANDS_MODEL |-> "main"]) ++ BaseEnv(p.provider, k, vault), {})

GeminiRender(p, k, vault) ==
    LET gateway == IF Provider[p.provider].compat = "google" THEN NoEnv
                   ELSE Var("GOOGLE_GEMINI_BASE_URL", Url(p.provider))
                        ++ (IF k = None THEN NoEnv ELSE Var("GEMINI_API_KEY", Secret(k)))
    IN Strategy("gemini",
        gateway ++ ModelEnv(p, [GEMINI_MODEL |-> "main"]) ++ BaseEnv(p.provider, k, vault), {})

CopilotRender(p, k, vault) ==
    Strategy("copilot",
        ModelEnv(p, [COPILOT_MODEL |-> "main"]) ++ BaseEnv(p.provider, k, vault), {})
ContinueRender(p, k, vault) ==
    Strategy("continue",
        ModelEnv(p, [CONTINUE_MODEL |-> "main"]) ++ BaseEnv(p.provider, k, vault), {})

(* Codex reads its own directory; the file in it is written while the      *)
(* profile is rendered and is not one of the plan's.                       *)
CodexModels ==
    [CODEX_MODEL_GPT54 |-> "gpt54", CODEX_MODEL_GPT54MINI |-> "gpt54mini",
     CODEX_MODEL_GPT53CODEX |-> "gpt53codex", CODEX_MODEL_GPT52CODEX |-> "gpt52codex",
     CODEX_MODEL_GPT52 |-> "gpt52", CODEX_MODEL_GPT51CODEXMAX |-> "gpt51codexmax",
     CODEX_MODEL_GPT51CODEXMINI |-> "gpt51codexmini"]
CodexRender(p, k, vault) ==
    IF k # None /\ ~vault[k].inject THEN Refused("policy")
    ELSE Strategy("codex",
        ModelEnv(p, CodexModels)
        ++ (IF k = None THEN NoEnv ELSE Var("CODEX_AEGIS_API_KEY", Secret(k)))
        ++ [OPENAI_API_KEY |-> Unset, OPENAI_BASE_URL |-> Unset, OPENAI_API_BASE |-> Unset,
            CODEX_HOME |-> Text("temp")], {})

ExtensionRender(p, k, vault) == Strategy("", BaseEnv(p.provider, k, vault), {})
CursorRender(p, k, vault) ==
    [Strategy("", NoEnv, {}) EXCEPT !.blocked = TRUE, !.nilEnv = TRUE]

Render(p, k, vault) ==
    CASE p.app = "intellij" -> IntelliJRender(p, k, vault)
      [] p.app = "codex" -> CodexRender(p, k, vault)
      [] p.app = "cursor" -> CursorRender(p, k, vault)
      [] OTHER -> Based(p.provider, k, vault,
           CASE p.app = "generic" -> GenericRender(p, k, vault)
             [] p.app = "crush" -> CrushRender(p, k, vault)
             [] p.app = "aider" -> AiderRender(p, k, vault)
             [] p.app = "cline" -> ClineRender(p, k, vault)
             [] p.app = "hermes" -> HermesRender(p, k, vault)
             [] p.app = "qwen" -> QwenRender(p, k, vault)
             [] p.app = "claude" -> ClaudeRender(p, k, vault)
             [] p.app = "free-claude" -> FreeClaudeRender(p, k, vault)
             [] p.app = "vibe" -> VibeRender(p, k, vault)
             [] p.app = "goose" -> GooseRender(p, k, vault)
             [] p.app = "zed" -> ZedRender(p, k, vault)
             [] p.app = "mimo" -> MiMoRender(p, k, vault)
             [] p.app = "opencode" -> OpenCodeRender(p, k, vault)
             [] p.app = "openhands" -> OpenHandsRender(p, k, vault)
             [] p.app = "gemini" -> GeminiRender(p, k, vault)
             [] p.app = "copilot" -> CopilotRender(p, k, vault)
             [] p.app = "continue" -> ContinueRender(p, k, vault)
             [] p.app \in {"roo", "kilo"} -> ExtensionRender(p, k, vault))

(* Validate of the adapters that can fail. *)
ProfileValid(p) ==
    CASE p.app = "generic" -> p.command # ""
      [] p.app \in {"qwen", "goose"} -> "main" \in p.models
      [] OTHER -> TRUE
-----------------------------------------------------------------------------
(* The catalog: every provider an app supports, each with the first key    *)
(* that may be injected, whatever the profile's own provider and key are.  *)
CatalogProviders(app) == {s \in Slugs : Supports(app, s)}
UsableRecord(s, k, vault) ==
    vault[k] # None /\ CredentialCompatible(s, vault[k].provider) /\ vault[k].inject
CatalogKey(s, vault) ==
    LET usable == {k \in Keys : UsableRecord(s, k, vault)}
    IN IF ~NeedsKey(s) \/ usable = {} THEN None
       ELSE CHOOSE k \in usable : \A other \in usable : k <= other

CatalogKeyed(app, vault) ==
    {s \in CatalogProviders(app) : Provider[s].var # "" /\ CatalogKey(s, vault) # None}
CatalogClash(app, vault) ==
    \E s, t \in CatalogKeyed(app, vault) :
        Provider[s].var = Provider[t].var /\ CatalogKey(s, vault) # CatalogKey(t, vault)
CatalogEnv(p, vault) ==
    LET keyed == CatalogKeyed(p.app, vault)
        Holder(n) == CHOOSE s \in keyed : Provider[s].var = n
    IN OwnEnv(p) ++ [n \in {Provider[s].var : s \in keyed} |-> Secret(CatalogKey(Holder(n), vault))]

(* The file names a variable for every provider, OpenCode's only for those *)
(* that have a key; Codex makes one up where the provider has none.        *)
CatalogFile(p, vault) ==
    LET all == CatalogProviders(p.app)
        named == {s \in all : Provider[s].var # ""}
        keyed == {s \in all : CatalogKey(s, vault) # None}
    IN CASE p.app = "crush" -> {File("crush.json", "user", {KeyName(s) : s \in named})}
         [] p.app = "qwen" -> {File("qwen/settings.json", "user", {KeyName(s) : s \in named})}
         [] p.app = "mimo" -> {File("mimocode.json", "user", {KeyName(s) : s \in keyed})}
         [] p.app = "opencode" -> {File("opencode.json", "user", {KeyName(s) : s \in keyed})}
         [] p.app = "codex" -> {}

RenderCatalog(p, vault) ==
    IF CatalogClash(p.app, vault) THEN Refused("shared variable")
    ELSE IF \E n \in p.env : Looks(n) THEN Refused("secret in profile env")
    ELSE Strategy(Contracts[p.app].command,
            (IF p.app = "codex"
             THEN [OPENAI_BASE_URL |-> Unset, OPENAI_API_BASE |-> Unset,
                   CODEX_HOME |-> Text("temp")]
             ELSE NoEnv) ++ CatalogEnv(p, vault),
            CatalogFile(p, vault))
=============================================================================
