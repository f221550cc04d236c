----------------------------- MODULE LaunchPlan -----------------------------
(***************************************************************************)
(* From a profile to a child's environment: the resolver of one provider   *)
(* and of a catalog (internal/adapter/adapter.go, catalog.go), the gate    *)
(* every strategy passes (contract.go), and the environment the runner     *)
(* builds (internal/runner/runner.go).                                     *)
(***************************************************************************)
EXTENDS Adapters

CONSTANTS
    Parent,         \* the names set in the shell AegisKeys runs in
    BaseNames,      \* safeBaseEnv
    DisplayNames,   \* guiSafeEnv
    CredentialVar,
    InheritEnv      \* the setting inherit_env

ASSUME LaunchPlanAssumption ==
    (BaseNames \cup DisplayNames) \cap (SecretNames \cup OpenAITransport \cup AnthropicTransport) = {}

FromParent(n) == <<"parent", n>>
-----------------------------------------------------------------------------
(* ValidateContract *)
Levels == {"full_env", "env_config", "config_keychain", "launcher_isolation",
           "manual_credential", "oauth_manual", "proxy_mediated"}
Controls == {"vault_injected", "env_injected", "config_patched", "keychain_handoff",
             "manual_login", "external_store"}
Confidences == {"verified", "manual_proof", "experimental", "guided", "blocked"}
Surfaces == {"cli", "tui", "ide", "gui", "daemon", "extension"}
RenderModes == {"env", "args", "config_file", "manual", "proxy", "keychain",
                "keychain_handoff", "launcher"}
ContractValid(c) ==
    /\ c.named
    /\ c.control \in Controls /\ c.level \in Levels /\ c.confidence \in Confidences
    /\ c.surfaces # {} /\ c.surfaces \subseteq Surfaces
    /\ c.modes \subseteq RenderModes
    /\ c.patches => c.files # {}
    /\ c.models => c.slots # {}
    /\ \/ ~c.launches \/ c.command # "" \/ c.arbitrary
       \/ c.level \in {"manual_credential", "config_keychain", "oauth_manual"}
    /\ c.injects \/ c.manual \/ c.control = "external_store"
    /\ c.confidence = "verified" => c.checks /\ c.gates

(* validateTransport: the variables of one wire protocol and none of the   *)
(* other's.                                                                *)
Has(env, n) == n \in DOMAIN env /\ env[n] # Unset
TransportAny(env, transport) == TRUE
TransportValid(env, transport) ==
    CASE transport = "openai chat" ->
           /\ \A n \in OpenAITransport : Has(env, n)
           /\ \A n \in AnthropicTransport : ~Has(env, n)
      [] transport = "anthropic messages" ->
           /\ Has(env, "ANTHROPIC_BASE_URL")
           /\ Has(env, "ANTHROPIC_API_KEY") # Has(env, "ANTHROPIC_AUTH_TOKEN")
           /\ \A n \in OpenAITransport : ~Has(env, n)
      [] OTHER -> TRUE

RawSecrets(k) == {Secret(k), Component(k)}
(* ValidateLaunchStrategyForMode; arguments, previews and files hold no    *)
(* secret in any rendering above.                                          *)
GateValid(s, c, p, k, mode) ==
    /\ s.blocked => mode = "preview"
    /\ ContractValid(c)
    /\ ~c.launches => s.command = ""
    /\ k # None /\ ~c.injects => \A n \in DOMAIN s.env : s.env[n] \notin RawSecrets(k)
    /\ Provider[p.provider].var \notin p.env /\ \A n \in p.env : ~Looks(n)
    /\ TransportValid(s.env, s.transport)
Gate(s, c, p, k, mode) == IF GateValid(s, c, p, k, mode) THEN s ELSE Refused("gate")

(* The profile's own variables, over everything but credentials.           *)
OwnAllowed(p) == Provider[p.provider].var \notin p.env /\ \A n \in p.env : ~Looks(n)
Overlaid(s, p) ==
    IF ~OwnAllowed(p) THEN Refused("profile env")
    ELSE IF s.nilEnv /\ p.env # {} THEN Refused("panic")
    ELSE [s EXCEPT !.env = OwnEnv(p) ++ @]

(* What rendering and Validate gave, stripped for an app that takes no     *)
(* secret, overlaid and put through the gate.                              *)
Finished(s, p, k, mode) ==
    LET c == Contracts[p.app]
        stripped == IF c.injects THEN s
                    ELSE [s EXCEPT !.env = Without(@, {Provider[p.provider].var})]
        overlaid == Overlaid(stripped, p)
    IN IF ~s.ok THEN s
       ELSE IF ~ProfileValid(p) THEN Refused("profile")
       ELSE IF ~overlaid.ok THEN overlaid
       ELSE Gate(overlaid, c, p, k, mode)

(* ResolveLaunchStrategyForMode *)
BindingRefusal(p, k, vault) ==
    CASE k # None /\ ~CredentialCompatible(p.provider, vault[k].provider) -> "key's provider"
      [] NeedsKey(p.provider) /\ k = None -> "key"
      [] NeedsKey(p.provider) /\ Provider[p.provider].var = "" -> "no variable"
      [] ~Supports(p.app, p.provider) -> "unsupported"
      [] OTHER -> ""
ResolveSingle(p, k, vault, mode) ==
    LET why == BindingRefusal(p, k, vault)
        given == IF Contracts[p.app].injects THEN k ELSE None
    IN IF why # "" THEN Refused(why)
       ELSE Finished(Render(p, given, vault), p, k, mode)

(* ResolveLaunchStrategyCatalog, which every caller goes through *)
Resolve(p, k, vault, mode) ==
    IF p.app \in CatalogApps THEN Finished(RenderCatalog(p, vault), p, k, mode)
    ELSE ResolveSingle(p, k, vault, mode)
Lookup(vault, k) == IF k = None THEN None ELSE IF vault[k] = None THEN None ELSE k

(* resolve.ValidateResolution: what a profile must pass before it is saved *)
KeyChecked(p, vault) ==
    p.key # None =>
        vault[p.key] # None /\ CredentialCompatible(p.provider, vault[p.key].provider)
ResolutionValid(p, vault) ==
    /\ KeyChecked(p, vault)
    /\ Resolve(p, p.key, vault, "save").ok
-----------------------------------------------------------------------------
(* appClassFromStrategy, baseEnvForClass and cleanBaseEnvWithAllowlist *)
Class(c) == IF c.surfaces \cap {"gui", "ide"} # {} THEN "gui" ELSE "cli"
Allowlist(c) == BaseNames \cup IF Class(c) = "gui" THEN DisplayNames ELSE {}
CleanBase(c) ==
    [n \in {n \in Parent \cap Allowlist(c) : ~Looks(n)} |-> FromParent(n)]

ParentWins(parent, injected) ==
    parent ++ [n \in {n \in DOMAIN injected : injected[n] # Unset} |-> injected[n]]
BuildChildEnv(parent, injected) ==
    LET kept == DOMAIN parent \ (CredentialVar \cup DOMAIN injected)
    IN [n \in {n \in DOMAIN injected : injected[n] # Unset} |-> injected[n]]
       ++ Restrict(parent, kept)

(* appendInheritedEnv: what inherit_env names, over anything else; a       *)
(* caller gives all of it or nothing.                                      *)
Inherited == {n \in InheritEnv \cap Parent : ~Looks(n)}
AppendInherited(env, given) == [n \in given |-> FromParent(n)] ++ env
ChildEnv(s, c, given) == AppendInherited(BuildChildEnv(CleanBase(c), s.env), given)
=============================================================================
