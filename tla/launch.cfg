SPECIFICATION Spec
CONSTANTS
    Provider <- MCProvider
    Families <- SharedCredentials
    Keys = {1, 2}
    SecretNames <- MCSecretNames
    Installed <- MCInstalled
    Capable = TRUE
    None = None
    Parent <- MCParent
    BaseNames = {"LANG"}
    DisplayNames = {"DISPLAY"}
    CredentialVar = {"OPENAI_API_KEY", "ANTHROPIC_API_KEY", "ANTHROPIC_AUTH_TOKEN", "GEMINI_API_KEY"}
    InheritEnv = {"EDITOR", "GEMINI_API_KEY", "AWS_REGION"}
    Drafts <- MCDrafts
    KeyStates <- MCKeyStates
    Overrides = {"sh"}
    WithEnv = {"TARGET"}
    MaxChanges = 1
CHECK_DEADLOCK FALSE
INVARIANTS
    SecretsInPlace
    OneTransport
    BridgedKnowsBridge
    
    SavedStarts
    ChildFollowsPlan
