------------------------------ MODULE MCLaunch ------------------------------
(***************************************************************************)
(* The shipped providers of every kind an adapter tells apart, two keys    *)
(* and a profile for each app.                                             *)
(***************************************************************************)
EXTENDS Launch, DefaultRegistry

MCProvider ==
    [s \in {"openai", "anthropic", "gemini", "ollama", "bedrock", "freeinference",
            "freeinference-anthropic"} |-> DefaultProviders[s]]
MCSecretNames == {"OPENAI_API_KEY", "ANTHROPIC_API_KEY", "ANTHROPIC_AUTH_TOKEN",
                  "GEMINI_API_KEY", "AWS_SECRET_ACCESS_KEY", "FREEINFERENCE_API_KEY",
                  "CODEX_AEGIS_API_KEY"}
MCInstalled == {"crush", "aider", "cline", "hermes", "qwen", "claude", "free-code", "vibe",
                "goose", "zed", "idea", "mimo", "opencode", "openhands", "gemini",
                "continue", "codex", "tool", "sh"}

Record(s, inject, archived) ==
    [provider |-> s, inject |-> inject, archived |-> archived, full |-> TRUE]
(* The first key may change its provider, lose it and come and go; the     *)
(* second is its provider's only.                                          *)
MCKeyStates ==
    [k \in {1, 2} |-> IF k = 1
        THEN {None} \cup {Record("anthropic", TRUE, FALSE), Record("openai", FALSE, FALSE),
                          Record("bedrock", TRUE, TRUE), Record("", TRUE, FALSE)}
        ELSE {Record("freeinference", TRUE, FALSE), Record("openai", TRUE, FALSE)}]

D(app, s, key, command, models, env) ==
    [app |-> app, provider |-> s, key |-> key, command |-> command, models |-> models,
     env |-> env]
MCDrafts ==
    {D(app, s, 1, "", {"main"}, {}) :
        app \in Apps \ {"generic"}, s \in {"openai", "anthropic"}}
    \cup {D(app, "freeinference", 2, "", {"main"}, {}) : app \in Apps \ {"generic"}}
    \cup {D(app, s, 2, "", {"main"}, {}) :
        app \in {"claude", "free-claude", "codex"}, s \in {"openai", "freeinference-anthropic"}}
    \cup {D(app, "bedrock", 1, "", {"main"}, {}) : app \in {"claude", "aider", "free-claude"}}
    \cup {D("generic", s, 1, command, {}, {"LANG"}) :
            s \in {"openai", "anthropic"}, command \in {"", "tool"}}
    \cup {D("free-claude", s, 1, "", {"main", "fast"}, {env}) :
            s \in {"openai", "anthropic"},
            env \in {"OPENAI_BASE_URL", "ANTHROPIC_BASE_URL", "LANG"}}
    \cup {D("cursor", "openai", 2, "", {}, {"LANG"})}
    \cup {D(app, s, None, "", {"main"}, {}) :
            app \in {"aider", "goose", "opencode"}, s \in {"ollama", "gemini"}}
MCParent == {"LANG", "DISPLAY", "EDITOR", "OPENAI_API_KEY", "GEMINI_API_KEY", "AWS_REGION"}
=============================================================================
