--------------------------- MODULE DefaultRegistry ---------------------------
(***************************************************************************)
(* The providers AegisKeys ships with (defaultProviders in                 *)
(* internal/provider/provider.go): the wire format of each, the variable   *)
(* its key goes into, the variables it fixes and those its setup fills.    *)
(* Endpoints, models, tags and notes are data.                             *)
(***************************************************************************)
EXTENDS TLC

Nothing == [n \in {} |-> ""]
Keyed(compat, var) ==
    [compat |-> compat, auth |-> "bearer", var |-> var, extra |-> Nothing, setup |-> Nothing]
OpenAI(var) == Keyed("openai", var)
OwnBaseURL(p) == [p EXCEPT !.extra = [OPENAI_BASE_URL |-> "its own"]]
Local == OwnBaseURL([Keyed("local", "") EXCEPT !.auth = "none"])

MajorProviders ==
    [openai |-> OpenAI("OPENAI_API_KEY"),
     anthropic |-> Keyed("anthropic", "ANTHROPIC_API_KEY"),
     openrouter |-> OwnBaseURL(OpenAI("OPENROUTER_API_KEY")),
     mistral |-> OpenAI("MISTRAL_API_KEY"),
     gemini |-> Keyed("google", "GEMINI_API_KEY"),
     groq |-> OwnBaseURL(OpenAI("GROQ_API_KEY")),
     ollama |-> Local, lmstudio |-> Local,
     huggingface |-> OpenAI("HF_TOKEN"),
     cerebras |-> OpenAI("CEREBRAS_API_KEY"),
     together |-> OpenAI("TOGETHER_API_KEY")]

(* A setup value is a second secret, the resolved endpoint or a field as   *)
(* it was typed; Azure's deployment goes into no variable.                 *)
CloudProviders ==
    [bedrock |-> [OpenAI("AWS_ACCESS_KEY_ID") EXCEPT !.auth = "aws", !.setup =
        [AWS_SECRET_ACCESS_KEY |-> "secret", AWS_REGION |-> "endpoint"]],
     fireworks |-> OpenAI("FIREWORKS_API_KEY"), deepseek |-> OpenAI("DEEPSEEK_API_KEY"),
     moonshot |-> OpenAI("MOONSHOT_API_KEY"), qwen |-> OpenAI("DASHSCOPE_API_KEY"),
     modelscope |-> OpenAI("MODELSCOPE_API_KEY"), vllm |-> Local,
     zen |-> OpenAI("OPENCODE_ZEN_API_KEY")]
    @@ ("nvidia-nim" :> OpenAI("NVIDIA_NIM_API_KEY"))

RouterProviders ==
    [longcat |-> OpenAI("LONGCAT_API_KEY"),
     anyrouter |-> Keyed("anthropic", "ANTHROPIC_AUTH_TOKEN"),
     commandcode |-> OpenAI("COMMANDCODE_API_KEY"), cline |-> OpenAI("CLINE_API_KEY")]
    @@ ("opencode-go" :> OpenAI("OPENCODE_GO_API_KEY"))
    @@ ("azure-openai" :> [OpenAI("AZURE_OPENAI_API_KEY") EXCEPT !.setup =
        [AZURE_OPENAI_ENDPOINT |-> "endpoint", AZURE_OPENAI_API_VERSION |-> "field"]])
    @@ ("alibaba-cloud" :> OpenAI("DASHSCOPE_API_KEY"))

GatewayProviders ==
    [tencent |-> OpenAI("HUNYUAN_API_KEY"), freeinference |-> OpenAI("FREEINFERENCE_API_KEY")]
    @@ ("cline-pass" :> OpenAI("CLINE_API_KEY"))
    @@ ("freeinference-anthropic" :> Keyed("anthropic", "FREEINFERENCE_API_KEY"))

DefaultProviders == MajorProviders @@ CloudProviders @@ RouterProviders @@ GatewayProviders

(* The slugs one account's key serves. *)
SharedCredentials ==
    {{"zen", "opencode-go"}, {"cline", "cline-pass"},
     {"freeinference", "freeinference-anthropic"}}
=============================================================================
