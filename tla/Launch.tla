------------------------------- MODULE Launch -------------------------------
(***************************************************************************)
(* A profile from the moment it is saved to the end of the child it is     *)
(* launched as: profile create, the wizard and the profile form; run,      *)
(* launch, env, with, the launch screen and LaunchExecutor; and what the   *)
(* runner opens for a child and takes down after it (cmd/profile.go,       *)
(* cmd/run.go, cmd/launch.go, cmd/env.go, internal/resolve,                *)
(* internal/runner, internal/tui/update.go).  Keys change while a launch   *)
(* is under way; the overlays' own files are ConfigOverlay's, one profile  *)
(* and one launch at a time are followed here.                             *)
(***************************************************************************)
EXTENDS LaunchPlan

CONSTANTS
    Drafts,         \* the profiles a user may ask for
    KeyStates,      \* for each key, what its record may be
    Overrides,      \* commands typed after a profile's name
    WithEnv,        \* variables `with` is told to set
    MaxChanges      \* edits after the first save: a bound of the model only

ASSUME LaunchAssumption ==
    /\ None \notin Drafts
    /\ \A p \in Drafts : p.app \in Apps /\ p.provider \in Slugs /\ p.key \in Keys \cup {None}

VARIABLES
    vault,      \* the vault's records by key
    profile,    \* the stored profile, or None
    readable,   \* profiles.json passes Validate
    history,    \* how the profile came to be, "changed" once a key changes after
                \* it was checked
    launch,     \* the launch under way or the last one, what its user is told
                \* went wrong, and what it has open: its bridge listens, its
                \* files are "written", or stay because a write was "unsynced"
                \* or a restore failed ("unrestored")
    copy,       \* the vault as who may save a profile decrypted it, or None
    changes

vars == <<vault, profile, readable, history, launch, copy, changes>>

NoLaunch == [stage |-> "none", surface |-> "", of |-> None, typed |-> "", seen |-> None,
             plan |-> Refused(""), child |-> NoEnv, error |-> {}, bridge |-> FALSE,
             files |-> {}]
AtRest == launch.stage \in {"none", "refused", "shown", "ended"}
ExplicitContract == [Cli EXCEPT !.launches = FALSE, !.arbitrary = TRUE, !.surfaces = {}]
ContractOf(l) == IF l.surface = "with" THEN ExplicitContract ELSE Contracts[l.of.app]

Init ==
    /\ vault \in {v \in [Keys -> UNION {KeyStates[k] : k \in Keys}] :
                    \A k \in Keys : v[k] \in KeyStates[k]}
    /\ profile = None /\ readable = TRUE /\ history = "none"
    /\ launch = NoLaunch /\ copy = None /\ changes = 0

-----------------------------------------------------------------------------
(* Saving a profile. *)
Counted == changes < MaxChanges /\ changes' = changes + 1
Saves(p, how) == profile' = p /\ history' = how
Unlaunched == UNCHANGED <<vault, launch>>

(* `profile create` decrypts the vault, the wizard checks the one in the   *)
(* interface's memory.  What is stored was checked on that copy, and keys  *)
(* may have changed since.                                                 *)
Decrypt ==
    /\ profile = None /\ readable /\ copy # vault
    /\ copy' = vault
    /\ Unlaunched /\ UNCHANGED <<profile, readable, history, changes>>
SavesChecked(p) ==
    /\ profile = None /\ readable /\ copy # None
    /\ ResolutionValid(p, copy)
    /\ Saves(p, IF copy = vault THEN "saved" ELSE "changed")
    /\ copy' = None
    /\ Unlaunched /\ UNCHANGED changes

(* `profile create` wants a key; a name with a separator or ".." passes    *)
(* Add and fails the next LoadStore.                                       *)
Create(p, plain) ==
    /\ SavesChecked(p)
    /\ p.key # None /\ ProfileValid(p)
    /\ readable' = plain

(* wizardSave: no command is asked for, and no key where none is needed.   *)
WizardSave(p) ==
    /\ SavesChecked(p)
    /\ p.command = "" /\ (p.key = None => ~NeedsKey(p.provider))
    /\ readable' = (p.key # None)

(* commitProfileEdit: provider and key, from the form.                     *)
EditProfile(p) ==
    /\ profile # None /\ readable
    /\ p = [profile EXCEPT !.provider = p.provider, !.key = p.key]
    /\ p.key # None /\ vault[p.key] # None
    /\ ~vault[p.key].archived /\ CredentialCompatible(p.provider, vault[p.key].provider)
    /\ Saves(p, "edited") /\ UNCHANGED <<readable, copy>>
    /\ Unlaunched /\ Counted

(* A store of version 0 had no app: migrateStore makes it the generic one, *)
(* for which no command was ever asked.                                    *)
Upgrade(p) ==
    /\ profile = None /\ readable
    /\ p.app = "generic" /\ p.command = "" /\ p.key # None
    /\ Saves(p, "upgraded") /\ UNCHANGED <<readable, copy>>
    /\ Unlaunched /\ Counted

(* An adapter without an environment and a profile with one: the process   *)
(* that would save the profile dies.                                       *)
SavePanics(p) ==
    /\ AtRest /\ profile = None /\ readable /\ copy # None
    /\ KeyChecked(p, copy)
    /\ Resolve(p, p.key, copy, "save").why = "panic"
    /\ launch' = [NoLaunch EXCEPT !.stage = "refused", !.surface = "save", !.of = p,
                                  !.error = {"panic"}]
    /\ copy' = None
    /\ UNCHANGED <<vault, profile, readable, history, changes>>

DeleteProfile ==
    /\ profile # None /\ readable
    /\ Saves(None, "none") /\ UNCHANGED <<readable, copy>>
    /\ Unlaunched /\ Counted

(* A key is added, edited, archived or removed, by any process.            *)
ChangeKey(k) ==
    /\ \E r \in KeyStates[k] \ {vault[k]} : vault' = [vault EXCEPT ![k] = r]
    /\ history' = IF profile = None THEN history ELSE "changed"
    /\ Counted /\ UNCHANGED <<profile, readable, launch, copy>>

-----------------------------------------------------------------------------
Stored == UNCHANGED <<vault, profile, readable, history, copy, changes>>
(* What is over is forgotten but for what it was and how it went. *)
Over(stage, why) ==
    [NoLaunch EXCEPT !.stage = stage, !.surface = launch.surface, !.of = launch.of,
                     !.typed = launch.typed, !.error = why]
RefuseLeaving(stays, why) == launch' = [Over("refused", why) EXCEPT !.files = stays]
Refuse(why) == RefuseLeaving({}, {why})

(* A launch reads the profile, then the vault.  The launch screen has both *)
(* in memory and takes a snapshot of each at once.                         *)
Begin(surface, typed) ==
    /\ AtRest /\ profile # None /\ readable
    /\ surface = "env" => typed = ""
    /\ surface = "run" => typed # ""
    /\ launch' = [NoLaunch EXCEPT !.stage = "read", !.surface = surface, !.of = profile,
                    !.typed = typed, !.seen = IF surface = "tui" THEN vault ELSE None]
    /\ Stored

(* A missing record, and what each surface asks of one that is there.      *)
Barred(seen) ==
    LET p == launch.of IN
    \/ p.key = None \/ Lookup(seen, p.key) = None
    \/ launch.surface = "tui" /\ seen[p.key].archived
    \/ launch.surface = "env" /\ ~seen[p.key].inject

(* `run` replaces the command, `launch` only stands in for a missing one,  *)
(* the screen asks the contract and has the plan checked again.            *)
Overridden(plan, seen) ==
    LET p == launch.of
        replaced == [plan EXCEPT !.command = launch.typed]
    IN IF ~plan.ok \/ launch.typed = "" THEN plan
       ELSE CASE launch.surface = "run" -> replaced
              [] launch.surface = "launch" -> IF plan.command = "" THEN replaced ELSE plan
              [] launch.surface = "tui" ->
                    IF Contracts[p.app].arbitrary
                    THEN Gate(replaced, Contracts[p.app], p, p.key, "run")
                    ELSE Refused("override")
              [] OTHER -> plan

Resolves ==
    /\ launch.stage = "read"
    /\ LET seen == IF launch.seen = None THEN vault ELSE launch.seen
           p == launch.of
           mode == IF launch.surface = "env" THEN "preview" ELSE "run"
           plan == Overridden(Resolve(p, p.key, seen, mode), seen)
       IN IF Barred(seen) THEN Refuse("key")
          ELSE IF ~plan.ok THEN Refuse(plan.why)
          ELSE launch' = [launch EXCEPT !.seen = seen, !.plan = plan,
                            !.stage = IF launch.surface = "env" THEN "shown" ELSE "resolved"]
    /\ Stored

(* `with`: keys and variables in pairs, no profile.                        *)
With(f) ==
    /\ AtRest
    /\ launch' =
         [NoLaunch EXCEPT !.surface = "with", !.seen = vault,
            !.stage = "resolved",
            !.plan = Strategy("tool", [n \in DOMAIN f |-> Secret(f[n])], {})]
    /\ \A n \in DOMAIN f :
         vault[f[n]] # None /\ ~vault[f[n]].archived /\ vault[f[n]].inject
    /\ \A n, m \in DOMAIN f : f[n] = f[m] => n = m
    /\ Stored

(* LaunchExecutor.Execute builds a contract of its own, with an id only,   *)
(* and an empty profile and provider.                                      *)
ExecutorContract == [Cli EXCEPT !.named = FALSE]
Execute ==
    /\ launch.stage = "resolved" /\ launch.surface = "launch"
    /\ launch' = IF ContractValid(ExecutorContract)
                 THEN [launch EXCEPT !.surface = "executor"]
                 ELSE [Over("refused", {"contract"}) EXCEPT !.surface = "executor"]
    /\ Stored

-----------------------------------------------------------------------------
(* PrepareCommandWithCleanup *)
Unlaunchable(l) ==
    LET c == ContractOf(l) IN
    CASE l.plan.blocked -> "blocked"
      [] l.plan.command = "" -> "no command"
      [] ~c.launches /\ ~c.arbitrary -> "cannot launch"
      [] l.plan.command \notin Installed -> "not found"
      [] OTHER -> ""

BridgedUrl(plan) ==
    IF plan.bridge = None THEN plan
    ELSE [plan EXCEPT !.env = Var("ANTHROPIC_BASE_URL", Text("bridge url")) ++ @]
(* The child gets the bridge's address and token in place of the key's.    *)
Bridged(plan) ==
    IF plan.bridge = None THEN plan
    ELSE [plan EXCEPT !.env = [ANTHROPIC_BASE_URL |-> Text("bridge url"),
                               ANTHROPIC_API_KEY |-> Text("bridge token"),
                               ANTHROPIC_AUTH_TOKEN |-> Text("bridge token")] ++ @]

(* RunOptions: `with` and the executor pass no inherit_env on. *)
InheritedBy(l) == IF l.surface \in {"run", "launch", "tui"} THEN Inherited ELSE {}
(* A restore tries every file of a completed write and says which failed;  *)
(* a write that failed in its directory's sync is not completed, so its    *)
(* file stays.  When no bridge starts, what the restore says is dropped.   *)
Reported(stays) == IF "unrestored" \in stays THEN {"restore"} ELSE {}
Prepare ==
    /\ launch.stage = "resolved"
    /\ LET why == Unlaunchable(launch)
           plan == Bridged(launch.plan)
           files == launch.plan.files # {}
       IN \/ /\ why # ""
             /\ Refuse(why)
          \/ /\ why = "" /\ files                   \* a write failed
             /\ \E stays \in SUBSET {"unsynced", "unrestored"} :
                  RefuseLeaving(stays, {"files"} \cup Reported(stays))
          \/ /\ why = "" /\ plan.bridge # None      \* no token, or no port
             /\ \E stays \in SUBSET {"unrestored"} :
                  (files \/ stays = {}) /\ RefuseLeaving(stays, {"bridge"})
          \/ /\ why = ""
             /\ launch' = [launch EXCEPT !.stage = "running", !.plan = plan,
                             !.child = ChildEnv(plan, ContractOf(launch), InheritedBy(launch)),
                             !.bridge = (plan.bridge # None),
                             !.files = IF files THEN {"written"} ELSE {}]
    /\ Stored

(* Run: the child ends, well or not, or does not start; either way the     *)
(* clean-up runs.  A restore that fails leaves files; that the bridge did  *)
(* not close well is said in its place, and the launch screen says either  *)
(* only if nothing was wrong with the child.                               *)
OnlyRestored(why) == [Over("ended", why) EXCEPT !.bridge = launch.bridge]
Closed(why) == Over("ended", why)
CleansUp(stays, why) ==
    /\ launch.stage = "running" /\ (stays # {} => launch.files # {})
    /\ launch' = [Closed(why) EXCEPT !.files = stays]
    /\ Stored
Finish(well, stays) ==
    \E told \in {Reported(stays)} \cup IF launch.bridge THEN {{"bridge"}} ELSE {} :
        CleansUp(stays, IF well THEN told
                        ELSE {"child"} \cup IF launch.surface = "tui" THEN {} ELSE told)
(* The session has ended when the prepared launch reaches the screen.      *)
Forgotten(stays) == launch.surface = "tui" /\ CleansUp(stays, {"session"})

-----------------------------------------------------------------------------
Save ==
    \/ \E p \in Drafts : \E plain \in BOOLEAN : Create(p, plain)
    \/ \E p \in Drafts : WizardSave(p)
    \/ \E p \in Drafts : EditProfile(p)
    \/ Decrypt \/ DeleteProfile
    \/ \E p \in Drafts : Upgrade(p) \/ SavePanics(p)
Step ==
    \/ \E surface \in {"run", "launch", "tui", "env"}, typed \in Overrides \cup {""} :
         Begin(surface, typed)
    \/ Resolves
    \/ \E names \in SUBSET WithEnv : \E f \in [names -> Keys] : names # {} /\ With(f)
    \/ Execute
    \/ Prepare
    \/ \E stays \in SUBSET {"unrestored"} :
         Forgotten(stays) \/ \E well \in BOOLEAN : Finish(well, stays)
Next == Save \/ (\E k \in Keys : ChangeKey(k)) \/ Step

Spec == Init /\ [][Next]_vars

-----------------------------------------------------------------------------
Running == launch.stage = "running"
Carries(n) == n \in DOMAIN launch.child
(* Whose key a value of a variable is, if it is one's at all. *)
KeyOf(value) == {k \in Keys : value \in RawSecrets(k)}

(* Types of the variables; a child is set up by a resolved plan only.      *)
TypeOK ==
    /\ \A k \in Keys : vault[k] \in KeyStates[k]
    /\ profile # None => profile.app \in Apps /\ profile.provider \in Slugs
    /\ readable \in BOOLEAN
    /\ history \in {"none", "saved", "edited", "upgraded", "changed"} /\ (history = "none") = (profile = None)
    /\ launch.stage \in {"none", "read", "resolved", "shown", "refused", "running", "ended"}
    /\ launch.stage \in {"resolved", "shown", "running"} => launch.plan.ok /\ launch.seen # None
    /\ copy # None => \A k \in Keys : copy[k] \in KeyStates[k]
    /\ changes \in 0..MaxChanges

(* A secret in a child's environment was one that may be injected when the *)
(* vault was read, was kept for no provider or belongs with one the app    *)
(* was told of, and went to an app whose contract takes secrets            *)
(* (buildBaseEnv, buildCatalogProviders, ResolveLaunchStrategyForMode).    *)
SecretsInPlace ==
    Running => \A n \in DOMAIN launch.child : \A k \in KeyOf(launch.child[n]) :
        /\ launch.seen[k].inject
        /\ launch.surface # "with" =>
             /\ Contracts[launch.of.app].injects
             /\ \E s \in CatalogProviders(launch.of.app) \cup {launch.of.provider} :
                  CredentialCompatible(s, launch.seen[k].provider)

(* A free-code child is told of one wire protocol and none of the other's  *)
(* credentials, whatever the profile sets (validateTransport).             *)
OneTransport ==
    Running /\ launch.surface # "with" /\ launch.of.app = "free-claude" =>
        ~(/\ Carries("OPENAI_API_KEY") \/ Carries("CLAUDE_CODE_USE_OPENAI_COMPATIBLE")
                \/ Carries("OPENAI_BASE_URL")
          /\ Carries("ANTHROPIC_API_KEY") \/ Carries("ANTHROPIC_AUTH_TOKEN")
                \/ Carries("ANTHROPIC_BASE_URL"))

(* A child behind the bridge knows the bridge only: its address, its token *)
(* and no variable with the key the bridge holds, and the bridge listens   *)
(* (PrepareCommandWithCleanup).                                            *)
BridgedKnowsBridge ==
    Running /\ launch.plan.bridge # None =>
        /\ launch.bridge
        /\ launch.child["ANTHROPIC_BASE_URL"] = Text("bridge url")
        /\ \A n \in DOMAIN launch.child :
             /\ launch.child[n] \notin RawSecrets(launch.plan.bridge)
             /\ launch.child[n] # BridgeToken

(* Once a launch has failed or ended, its bridge is closed and its files   *)
(* are back but in two cases.  The user was told that writing them failed; *)
(* or restoring them failed, and the user was told so, or that the bridge  *)
(* did not start or close, or has seen on the launch screen that the child *)
(* failed or that the session was over (runner.go:443, update.go:177, 220). *)
NothingLeftOpen ==
    ~Running =>
        /\ ~launch.bridge /\ "written" \notin launch.files
        /\ "unsynced" \in launch.files => "files" \in launch.error
        /\ "unrestored" \in launch.files =>
             \/ launch.error \cap {"restore", "bridge"} # {}
             \/ launch.surface = "tui" /\ launch.error \cap {"child", "session"} # {}

(* A profile that was saved resolves when it is run, if no key was changed *)
(* since the copy of the vault it was checked on was decrypted: what is    *)
(* wrong with it was said when it was saved (resolve.go).                  *)
SavedStarts ==
    history = "saved" /\ profile.key # None => Resolve(profile, profile.key, vault, "run").ok

(* A child has what the user lets it inherit as the parent has it, whatever *)
(* its plan says of the name, unless `with` runs it, which lets it inherit *)
(* nothing; of the rest it has what its plan sets, lacks what the plan     *)
(* unsets and keeps of the parent only what is allowed and names no        *)
(* credential (BuildChildEnv, appendInheritedEnv).                         *)
ChildFollowsPlan ==
    Running => LET env == launch.plan.env
                   inherits == IF launch.surface = "with" THEN {} ELSE Inherited IN
        /\ \A n \in inherits : Carries(n) /\ launch.child[n] = FromParent(n)
        /\ \A n \in DOMAIN env \ inherits :
             IF env[n] = Unset THEN ~Carries(n) ELSE Carries(n) /\ launch.child[n] = env[n]
        /\ \A n \in DOMAIN launch.child \ (DOMAIN env \cup inherits) :
             /\ launch.child[n] = FromParent(n) /\ ~Looks(n)
             /\ n \in Allowlist(ContractOf(launch))
=============================================================================
