---------------------------- MODULE LaunchProofs ----------------------------
(***************************************************************************)
(* What a child is given and what a launch leaves behind, for every        *)
(* registry, key ring, profile and shell environment.                      *)
(*                                                                         *)
(* A child's environment is made in three places: an app's rendering, the  *)
(* gate and the runner.  What a rendering may put where is proved app by   *)
(* app, from the registry's assumptions (Sound, Rendered); stripping, the  *)
(* profile's variables and the gate keep it (Resolved); and PlanInv says   *)
(* it of the plan of a launch from the time it was resolved, with the      *)
(* vault that was read then, so that whatever happens to keys and profiles *)
(* before the child starts does not matter.                                *)
(*                                                                         *)
(* The last part is about the bridge a launch may run: that it is out of   *)
(* use once closed, the streams it translates (Live) and the conversations *)
(* (Halfway).                                                              *)
(***************************************************************************)
EXTENDS Launch, Bridge, FiniteSetTheorems, SequenceTheorems, WellFoundedInduction, TLAPS

-----------------------------------------------------------------------------
(* What a child gets, name by name: what inherit_env brings, then what the *)
(* plan sets and does not unset, then what the shell's environment may     *)
(* pass on.                                                                *)
LEMMA ChildEnvValues ==
    ASSUME NEW s, NEW c, NEW given
    PROVE  /\ \A n \in given :
                n \in DOMAIN ChildEnv(s, c, given) /\ ChildEnv(s, c, given)[n] = FromParent(n)
           /\ \A n \in DOMAIN s.env \ given :
                IF s.env[n] = Unset THEN n \notin DOMAIN ChildEnv(s, c, given)
                ELSE n \in DOMAIN ChildEnv(s, c, given) /\ ChildEnv(s, c, given)[n] = s.env[n]
           /\ \A n \in DOMAIN ChildEnv(s, c, given) \ (DOMAIN s.env \cup given) :
                /\ ChildEnv(s, c, given)[n] = FromParent(n)
                /\ ~Looks(n) /\ n \in Allowlist(c)
<1> DEFINE set == [n \in {n \in DOMAIN s.env : s.env[n] # Unset} |-> s.env[n]]
           passed == Restrict(CleanBase(c), DOMAIN CleanBase(c) \ (CredentialVar \cup DOMAIN s.env))
           built == BuildChildEnv(CleanBase(c), s.env)
           brought == [n \in given |-> FromParent(n)]
<1>1. /\ DOMAIN set = {n \in DOMAIN s.env : s.env[n] # Unset}
      /\ \A n \in DOMAIN set : set[n] = s.env[n]
    OBVIOUS
<1>2. /\ DOMAIN passed \cap DOMAIN s.env = {}
      /\ \A n \in DOMAIN passed : passed[n] = FromParent(n) /\ ~Looks(n) /\ n \in Allowlist(c)
    BY DEF Restrict, CleanBase
<1>3. built = set ++ passed
    BY DEF BuildChildEnv
<1>4. ChildEnv(s, c, given) = brought ++ built
    BY DEF ChildEnv, AppendInherited
<1>5. DOMAIN brought = given /\ \A n \in DOMAIN brought : brought[n] = FromParent(n)
    OBVIOUS
<1> HIDE DEF set, passed, built, brought
<1>6. /\ DOMAIN built = DOMAIN set \cup DOMAIN passed
      /\ \A n \in DOMAIN set : built[n] = set[n]
      /\ \A n \in DOMAIN passed : n \notin DOMAIN set => built[n] = passed[n]
    BY <1>3 DEF ++
<1>7. /\ DOMAIN ChildEnv(s, c, given) = DOMAIN brought \cup DOMAIN built
      /\ \A n \in DOMAIN brought : ChildEnv(s, c, given)[n] = brought[n]
      /\ \A n \in DOMAIN built : n \notin DOMAIN brought => ChildEnv(s, c, given)[n] = built[n]
    BY <1>4 DEF ++
<1> QED
    BY <1>1, <1>2, <1>5, <1>6, <1>7

-----------------------------------------------------------------------------
(* The launch's record. *)
Fields == {"stage", "surface", "of", "typed", "seen", "plan", "child", "error", "bridge", "files"}

LEMMA NoLaunchFields ==
    /\ DOMAIN NoLaunch = Fields
    /\ NoLaunch.stage = "none" /\ NoLaunch.surface = "" /\ NoLaunch.of = None
    /\ NoLaunch.error = {} /\ ~NoLaunch.bridge /\ NoLaunch.files = {}
BY DEF NoLaunch, Fields

LEMMA OverFields ==
    ASSUME NEW stage, NEW why
    PROVE  /\ DOMAIN Over(stage, why) = Fields
           /\ Over(stage, why).stage = stage /\ Over(stage, why).surface = launch.surface
           /\ ~Over(stage, why).bridge /\ Over(stage, why).files = {}
BY NoLaunchFields DEF Over, Fields

LEMMA OverError ==
  ASSUME NEW stage, NEW why
  PROVE  Over(stage, why).error = why
BY NoLaunchFields DEF Over, Fields

(* The steps that leave the launch alone. *)
Apart ==
    \/ \E p \in Drafts : \/ \E plain \in BOOLEAN : Create(p, plain)
                        \/ WizardSave(p) \/ EditProfile(p) \/ Upgrade(p)
    \/ Decrypt \/ DeleteProfile \/ \E k \in Keys : ChangeKey(k)
    \/ UNCHANGED vars
(* The steps of a launch. *)
Starts == \/ \E p \in Drafts : SavePanics(p)
          \/ \E surface \in {"run", "launch", "tui", "env"}, typed \in Overrides \cup {""} :
                Begin(surface, typed)
          \/ \E names \in SUBSET WithEnv : \E f \in [names -> Keys] : names # {} /\ With(f)
Goes == Resolves \/ Execute \/ Prepare
        \/ \E stays \in SUBSET {"unrestored"} :
             Forgotten(stays) \/ \E well \in BOOLEAN : Finish(well, stays)

LEMMA StepKinds == [Next]_vars => Apart \/ Starts \/ Goes
BY DEF Next, Save, Step, Apart, Starts, Goes

LEMMA ApartKeepsLaunch == Apart => launch' = launch
BY DEF Apart, Create, WizardSave, SavesChecked, EditProfile, Upgrade, Decrypt, DeleteProfile,
   ChangeKey, Unlaunched, vars

(* A launch that fails says why, with the files it leaves. *)
LEMMA RefusedFields ==
    ASSUME NEW stays, NEW why, RefuseLeaving(stays, why)
    PROVE  /\ DOMAIN launch' = Fields /\ launch'.stage = "refused"
           /\ launch'.surface = launch.surface /\ ~launch'.bridge
           /\ launch'.files = stays /\ launch'.error = why
<1> DEFINE over == Over("refused", why)
<1>1. launch' = [over EXCEPT !.files = stays]
    BY DEF RefuseLeaving
<1>2. /\ DOMAIN over = Fields /\ over.stage = "refused" /\ ~over.bridge
      /\ over.surface = launch.surface /\ over.error = why
    BY OverFields, OverError
<1> HIDE DEF over
<1> QED
    BY <1>1, <1>2 DEF Fields

(* What the steps of a launch that is under way do to its record. *)
SeenBy == IF launch.seen = None THEN vault ELSE launch.seen
PlanMade == Overridden(Resolve(launch.of, launch.of.key, SeenBy,
                               IF launch.surface = "env" THEN "preview" ELSE "run"), SeenBy)

(* A launch as it was but for these. *)
Same(names) == DOMAIN launch' = Fields /\ \A name \in Fields \ names : launch'[name] = launch[name]

LEMMA ResolvesFields ==
    ASSUME DOMAIN launch = Fields, Resolves
    PROVE  /\ launch.stage = "read" /\ Stored
           /\ \/ \E why : Refuse(why)
              \/ /\ ~Barred(SeenBy) /\ PlanMade.ok
                 /\ Same({"seen", "plan", "stage"})
                 /\ launch'.seen = SeenBy /\ launch'.plan = PlanMade
                 /\ launch'.stage = IF launch.surface = "env" THEN "shown" ELSE "resolved"
<1> DEFINE seen == SeenBy
           plan == PlanMade
           stage == IF launch.surface = "env" THEN "shown" ELSE "resolved"
<1>1. \/ \E why : Refuse(why)
      \/ /\ ~Barred(seen) /\ plan.ok
         /\ launch' = [launch EXCEPT !.seen = seen, !.plan = plan, !.stage = stage]
    BY DEF Resolves, SeenBy, PlanMade
<1> HIDE DEF seen, plan, stage
<1>2. ASSUME launch' = [launch EXCEPT !.seen = seen, !.plan = plan, !.stage = stage]
      PROVE  /\ Same({"seen", "plan", "stage"})
             /\ launch'.seen = seen /\ launch'.plan = plan /\ launch'.stage = stage
    BY <1>2 DEF Same, Fields
<1> QED
    BY <1>1, <1>2 DEF Resolves, seen, plan, stage

LEMMA ExecuteFields ==
    ASSUME DOMAIN launch = Fields, Execute
    PROVE  /\ launch.stage = "resolved" /\ launch.surface = "launch" /\ Stored
           /\ \/ Same({"surface"}) /\ launch'.surface = "executor" /\ ContractValid(ExecutorContract)
              \/ /\ DOMAIN launch' = Fields /\ launch'.stage = "refused"
                 /\ ~launch'.bridge /\ launch'.files = {}
<1> DEFINE over == Over("refused", {"contract"})
<1>1. DOMAIN over = Fields /\ over.stage = "refused" /\ ~over.bridge /\ over.files = {}
    BY OverFields
<1>2. \/ launch' = [launch EXCEPT !.surface = "executor"] /\ ContractValid(ExecutorContract)
      \/ launch' = [over EXCEPT !.surface = "executor"]
    BY DEF Execute
<1> HIDE DEF over
<1> QED
    BY <1>1, <1>2 DEF Fields, Same, Execute

(* What is stays open when a plan cannot be prepared was spoken of. *)
Told(stays, why) ==
    /\ stays \subseteq {"unsynced", "unrestored"}
    /\ "unsynced" \in stays => "files" \in why
    /\ "unrestored" \in stays => why \cap {"restore", "bridge"} # {}

LEMMA PrepareFields ==
    ASSUME DOMAIN launch = Fields, Prepare
    PROVE  /\ launch.stage = "resolved" /\ Stored
           /\ \/ \E stays, why : Told(stays, why) /\ RefuseLeaving(stays, why)
              \/ /\ Unlaunchable(launch) = ""
                 /\ Same({"stage", "plan", "child", "bridge", "files"})
                 /\ launch'.stage = "running" /\ launch'.plan = Bridged(launch.plan)
                 /\ launch'.child = ChildEnv(Bridged(launch.plan), ContractOf(launch),
                                             InheritedBy(launch))
                 /\ launch'.bridge = (Bridged(launch.plan).bridge # None)
<1> DEFINE plan == Bridged(launch.plan)
           child == ChildEnv(plan, ContractOf(launch), InheritedBy(launch))
           bridge == plan.bridge # None
           files == IF launch.plan.files # {} THEN {"written"} ELSE {}
<1>1. \/ Refuse(Unlaunchable(launch))
      \/ \E stays \in SUBSET {"unsynced", "unrestored"} :
           RefuseLeaving(stays, {"files"} \cup Reported(stays))
      \/ \E stays \in SUBSET {"unrestored"} : RefuseLeaving(stays, {"bridge"})
      \/ /\ Unlaunchable(launch) = ""
         /\ launch' = [launch EXCEPT !.stage = "running", !.plan = plan, !.child = child,
                         !.bridge = bridge, !.files = files]
    BY DEF Prepare
<1>2. ASSUME Refuse(Unlaunchable(launch))
      PROVE  \E stays, why : Told(stays, why) /\ RefuseLeaving(stays, why)
    BY <1>2 DEF Refuse, Told
<1>3. ASSUME NEW stays \in SUBSET {"unsynced", "unrestored"},
             RefuseLeaving(stays, {"files"} \cup Reported(stays))
      PROVE  \E some, why : Told(some, why) /\ RefuseLeaving(some, why)
  <2>1. Told(stays, {"files"} \cup Reported(stays))
    BY DEF Told, Reported
  <2> QED
    BY <1>3, <2>1
<1>4. ASSUME NEW stays \in SUBSET {"unrestored"}, RefuseLeaving(stays, {"bridge"})
      PROVE  \E some, why : Told(some, why) /\ RefuseLeaving(some, why)
  <2>1. Told(stays, {"bridge"})
    BY DEF Told
  <2> QED
    BY <1>4, <2>1
<1> HIDE DEF plan, child, bridge, files
<1>5. ASSUME launch' = [launch EXCEPT !.stage = "running", !.plan = plan, !.child = child,
                         !.bridge = bridge, !.files = files]
      PROVE  /\ Same({"stage", "plan", "child", "bridge", "files"})
             /\ launch'.stage = "running" /\ launch'.plan = plan /\ launch'.child = child
             /\ launch'.bridge = bridge
    BY <1>5 DEF Same, Fields
<1> QED
    BY <1>1, <1>2, <1>3, <1>4, <1>5 DEF Prepare, plan, child, bridge

LEMMA CleansUpFields ==
    ASSUME NEW stays, NEW why, CleansUp(stays, why)
    PROVE  /\ launch.stage = "running" /\ Stored /\ DOMAIN launch' = Fields
           /\ launch'.stage = "ended" /\ ~launch'.bridge
           /\ launch'.surface = launch.surface
           /\ launch'.files = stays /\ launch'.error = why
<1> DEFINE over == Over("ended", why)
<1>1. launch' = [over EXCEPT !.files = stays]
    BY DEF CleansUp, Closed
<1>2. /\ DOMAIN over = Fields /\ over.stage = "ended" /\ ~over.bridge
      /\ over.surface = launch.surface /\ over.error = why
    BY OverFields, OverError
<1> HIDE DEF over
<1> QED
    BY <1>1, <1>2 DEF Fields, CleansUp

(* However a launch ends, its bridge is closed and what it leaves is told  *)
(* but where the screen has something else to say.                         *)
LEMMA EndFields ==
    ASSUME NEW stays \in SUBSET {"unrestored"},
           Forgotten(stays) \/ \E well \in BOOLEAN : Finish(well, stays)
    PROVE  /\ launch.stage = "running" /\ Stored /\ DOMAIN launch' = Fields
           /\ launch'.stage = "ended" /\ ~launch'.bridge /\ launch'.files = stays
           /\ stays # {} =>
                \/ launch'.error \cap {"restore", "bridge"} # {}
                \/ (launch'.surface = "tui" /\ launch'.error \cap {"child", "session"} # {})
<1>1. CASE Forgotten(stays)
    BY <1>1, CleansUpFields DEF Forgotten
<1>2. ASSUME NEW well \in BOOLEAN, Finish(well, stays)
      PROVE  /\ launch.stage = "running" /\ Stored /\ DOMAIN launch' = Fields
             /\ launch'.stage = "ended" /\ ~launch'.bridge /\ launch'.files = stays
             /\ stays # {} =>
                  \/ launch'.error \cap {"restore", "bridge"} # {}
                  \/ (launch'.surface = "tui" /\ "child" \in launch'.error)
  <2> DEFINE Why(told) == IF well THEN told
                          ELSE {"child"} \cup IF launch.surface = "tui" THEN {} ELSE told
  <2>1. PICK told \in {Reported(stays), {"bridge"}} : CleansUp(stays, Why(told))
    BY <1>2 DEF Finish
  <2>2. stays # {} => told \cap {"restore", "bridge"} # {}
    BY DEF Reported
  <2>3. stays # {} => \/ Why(told) \cap {"restore", "bridge"} # {}
                     \/ (launch.surface = "tui" /\ "child" \in Why(told))
    BY <2>2
  <2> HIDE DEF Why
  <2> QED
    BY <2>1, <2>3, CleansUpFields
<1> QED
    BY <1>1, <1>2

(* Nothing is open before a plan is prepared; then files stay if a write's *)
(* sync or a restore failed.                                               *)
LeftInv == DOMAIN launch = Fields /\ NothingLeftOpen

LEMMA LeftInit == Init => LeftInv
BY NoLaunchFields DEF Init, LeftInv, NothingLeftOpen, Running

LEMMA LeftStep == LeftInv /\ [Next]_vars => LeftInv'
<1> SUFFICES ASSUME LeftInv, [Next]_vars PROVE LeftInv'
    OBVIOUS
<1> USE DEF LeftInv, NothingLeftOpen, Running
<1>1. CASE Apart
    BY <1>1, ApartKeepsLaunch
<1>2. CASE Starts
    BY <1>2, NoLaunchFields DEF Starts, SavePanics, Begin, With, Fields
<1>3. ASSUME NEW stays, NEW why, Told(stays, why), RefuseLeaving(stays, why)
      PROVE  LeftInv'
    BY <1>3, RefusedFields DEF Told
<1>4. ASSUME NEW why, Refuse(why)
      PROVE  LeftInv'
  <2>1. Told({}, {why})
    BY DEF Told
  <2> QED
    BY <1>3, <1>4, <2>1 DEF Refuse
<1>5. CASE Resolves
    BY <1>4, <1>5, ResolvesFields DEF Same, Fields
<1>6. CASE Execute
    BY <1>6, ExecuteFields DEF Same, Fields
<1>7. CASE Prepare
    BY <1>3, <1>7, PrepareFields DEF Same, Fields
<1>8. ASSUME NEW stays \in SUBSET {"unrestored"},
             Forgotten(stays) \/ \E well \in BOOLEAN : Finish(well, stays)
      PROVE  LeftInv'
    BY <1>8, EndFields
<1> QED
    BY <1>1, <1>2, <1>5, <1>6, <1>7, <1>8, StepKinds DEF Goes

(* A launch that failed or ended has closed its bridge, and its files are  *)
(* back or the user was told of them, but on the launch screen, where a    *)
(* child that failed or a session that is over is all that is told.        *)
THEOREM NothingStaysOpen == Spec => []NothingLeftOpen
<1>1. LeftInv => NothingLeftOpen
    BY DEF LeftInv
<1> QED
    BY <1>1, LeftInit, LeftStep, PTL DEF Spec

-----------------------------------------------------------------------------
(* A saved profile starts. *)

(* Of what a launch is for, the gate only asks whether it is a preview. *)
LEMMA RunAsSaved ==
    ASSUME NEW p, NEW k, NEW v
    PROVE  Resolve(p, k, v, "save") = Resolve(p, k, v, "run")
<1>1. ASSUME NEW s, NEW c PROVE Gate(s, c, p, k, "save") = Gate(s, c, p, k, "run")
    BY DEF Gate, GateValid
<1>2. ASSUME NEW s PROVE Finished(s, p, k, "save") = Finished(s, p, k, "run")
    BY <1>1 DEF Finished
<1>3. CASE p.app \in CatalogApps
  <2>1. \A mode : Resolve(p, k, v, mode) = Finished(RenderCatalog(p, v), p, k, mode)
    BY <1>3 DEF Resolve
  <2> QED
    BY <1>2, <2>1
<1>4. CASE p.app \notin CatalogApps
  <2> DEFINE why == BindingRefusal(p, k, v)
             given == IF Contracts[p.app].injects THEN k ELSE None
             rendered == Render(p, given, v)
  <2>1. \A mode : Resolve(p, k, v, mode) =
                     IF why # "" THEN Refused(why) ELSE Finished(rendered, p, k, mode)
    BY <1>4 DEF Resolve, ResolveSingle
  <2> HIDE DEF why, rendered
  <2> QED
    BY <1>2, <2>1
<1> QED
    BY <1>3, <1>4

(* Since the copy was decrypted no key has changed, nor after.             *)
SavedInv == history = "saved" => profile # None /\ ResolutionValid(profile, vault)

LEMMA SavedInit == Init => SavedInv
BY DEF Init, SavedInv

LEMMA SavedStep == SavedInv /\ [Next]_vars => SavedInv'
<1> SUFFICES ASSUME SavedInv, [Next]_vars PROVE SavedInv'
    OBVIOUS
<1>1. ASSUME NEW p \in Drafts, SavesChecked(p) PROVE SavedInv'
  <2>1. p # None
    BY LaunchAssumption
  <2>2. history' = "saved" => copy = vault /\ vault' = vault
    BY <1>1 DEF SavesChecked, Saves, Unlaunched
  <2>3. profile' = p /\ ResolutionValid(p, copy)
    BY <1>1 DEF SavesChecked, Saves
  <2> QED
    BY <2>1, <2>2, <2>3 DEF SavedInv
<1>2. ASSUME NEW p \in Drafts, \/ \E plain \in BOOLEAN : Create(p, plain)
                              \/ WizardSave(p)
      PROVE  SavedInv'
    BY <1>1, <1>2 DEF Create, WizardSave
<1>3. ASSUME NEW p \in Drafts, EditProfile(p) \/ Upgrade(p) PROVE SavedInv'
    BY <1>3 DEF EditProfile, Upgrade, Saves, SavedInv
<1>4. CASE DeleteProfile
    BY <1>4 DEF DeleteProfile, Saves, SavedInv
<1>5. ASSUME NEW k \in Keys, ChangeKey(k) PROVE SavedInv'
    BY <1>5 DEF ChangeKey, SavedInv
<1>6. ASSUME UNCHANGED <<vault, profile, history>> PROVE SavedInv'
    BY <1>6 DEF SavedInv, ResolutionValid, KeyChecked
<1>7. CASE Starts \/ Goes
    BY <1>6, <1>7 DEF Starts, Goes, SavePanics, Begin, With, Resolves, Execute, Prepare,
       Finish, Forgotten, CleansUp, Stored
<1>8. CASE UNCHANGED vars \/ Decrypt
    BY <1>6, <1>8 DEF vars, Decrypt, Unlaunched
<1> QED
    BY <1>2, <1>3, <1>4, <1>5, <1>7, <1>8, StepKinds DEF Apart

(* While nobody has changed a key since the copy of the vault it was       *)
(* checked on was decrypted, a profile that was let through when it was    *)
(* saved is let through when it is run.                                    *)
THEOREM SavedProfilesStart == Spec => []SavedStarts
<1>1. SavedInv => SavedStarts
    BY RunAsSaved DEF SavedInv, SavedStarts, ResolutionValid
<1> QED
    BY <1>1, SavedInit, SavedStep, PTL DEF Spec

-----------------------------------------------------------------------------
(* The contracts. *)

AppNames ==
  {"generic", "crush", "aider", "cline", "hermes", "qwen", "claude", "vibe", "goose", "zed",
   "intellij", "mimo", "opencode", "openhands", "gemini", "copilot", "codex", "roo", "kilo",
   "cursor", "free-claude", "continue"}

(* What every contract is built from (ContractForApp). *)
LEMMA CliFields ==
  /\ DOMAIN Cli = {"level", "control", "confidence", "named", "command", "gates", "checks",
                   "modes", "surfaces", "launches", "arbitrary", "injects", "patches", "files",
                   "models", "slots", "manual", "accepts"}
  /\ Cli.injects = TRUE /\ Cli.named = TRUE
BY DEF Cli

(* A contract whose files are patched still takes secrets. *)
LEMMA PatchedFields ==
  ASSUME NEW path
  PROVE  DOMAIN Patched(path) = DOMAIN Cli /\ Patched(path).injects = TRUE
BY CliFields DEF Patched

(* So does one that is verified. *)
LEMMA VerifiedFields ==
  ASSUME NEW c, DOMAIN c = DOMAIN Cli, c.injects = TRUE
  PROVE  DOMAIN Verified(c) = DOMAIN Cli /\ Verified(c).injects = TRUE
BY CliFields DEF Verified

(* The apps that have a contract. *)
LEMMA AppsAre == Apps = AppNames
BY DEF Apps, Contracts, AppNames, ++, Var

(* The contracts of the apps whose renderings differ by protocol. *)
LEMMA Some ==
  /\ Contracts["claude"] = ClaudeContract
  /\ Contracts["free-claude"] = FreeClaudeContract
  /\ Contracts["gemini"] = GeminiContract
BY DEF Contracts, ++, Var

(* The contracts of the apps that are told of a catalog. *)
LEMMA Catalogued ==
 /\ Contracts["crush"] = CrushContract /\ Contracts["qwen"] = QwenContract
 /\ Contracts["mimo"] = MiMoContract /\ Contracts["opencode"] = OpenCodeContract
 /\ Contracts["codex"] = CodexContract
BY DEF Contracts, ++, Var

(* No provider of the kind "local" is one of theirs (Supports). *)
LEMMA Accepts ==
  /\ Contracts["claude"].accepts = {"anthropic", "openai"}
  /\ Contracts["free-claude"].accepts = {"anthropic", "openai"}
  /\ Contracts["gemini"].accepts = {"google", "openai"}
<1>1. ClaudeContract.accepts = {"anthropic", "openai"}
  BY CliFields, VerifiedFields DEF ClaudeContract
<1>2. FreeClaudeContract.accepts = {"anthropic", "openai"}
  BY CliFields DEF FreeClaudeContract
<1>3. GeminiContract.accepts = {"google", "openai"}
  BY CliFields DEF GeminiContract
<1> QED
  BY <1>1, <1>2, <1>3, Some

(* An app that is told of a catalog takes secrets. *)
LEMMA CatalogInjects == \A app \in CatalogApps : Contracts[app].injects
<1>1. CrushContract.injects
  <2>1. DOMAIN Verified(Patched("crush.json")) = DOMAIN Cli
        /\ Verified(Patched("crush.json")).injects = TRUE
     BY PatchedFields, VerifiedFields
  <2> QED BY <2>1, CliFields DEF CrushContract
<1>2. QwenContract.injects
  <2>1. DOMAIN Verified(Patched("qwen/settings.json")) = DOMAIN Cli
        /\ Verified(Patched("qwen/settings.json")).injects = TRUE
     BY PatchedFields, VerifiedFields
  <2> QED BY <2>1, CliFields DEF QwenContract
<1>3. MiMoContract.injects
   BY PatchedFields, CliFields DEF MiMoContract
<1>4. OpenCodeContract.injects
   BY PatchedFields, CliFields DEF OpenCodeContract
<1>5. CodexContract.injects
   BY PatchedFields, CliFields DEF CodexContract
<1> QED
  BY <1>1, <1>2, <1>3, <1>4, <1>5, Catalogued DEF CatalogApps

(* The contract LaunchExecutor makes up is not valid (launch_executor.go). *)
LEMMA NoExecutor == ~ContractValid(ExecutorContract)
BY CliFields DEF ContractValid, ExecutorContract

-----------------------------------------------------------------------------
(* The child's environment is the one its plan and the shell's make.       *)
FollowsInv ==
    /\ DOMAIN launch = Fields
    /\ launch.stage = "read" => launch.surface \in {"run", "launch", "tui", "env"}
    /\ launch.stage \in {"resolved", "running"} =>
         launch.surface \in {"run", "launch", "tui", "with"}
    /\ Running => launch.child = ChildEnv(launch.plan, ContractOf(launch), InheritedBy(launch))

LEMMA FollowsInit == Init => FollowsInv
BY NoLaunchFields DEF Init, FollowsInv, Running

LEMMA FollowsStep == FollowsInv /\ [Next]_vars => FollowsInv'
<1> SUFFICES ASSUME FollowsInv, [Next]_vars PROVE FollowsInv'
    OBVIOUS
<1> USE DEF FollowsInv, Running
<1>1. CASE Apart
    BY <1>1, ApartKeepsLaunch DEF ContractOf, InheritedBy
<1>2. CASE Starts
    BY <1>2, NoLaunchFields DEF Starts, SavePanics, Begin, With, Fields
<1>3. ASSUME NEW stays, NEW why, RefuseLeaving(stays, why)
      PROVE  FollowsInv'
    BY <1>3, RefusedFields
<1>4. CASE Resolves
    BY <1>3, <1>4, ResolvesFields DEF Same, Fields, Refuse
<1>5. CASE Execute
    BY <1>5, ExecuteFields, NoExecutor DEF Same, Fields
<1>6. CASE Prepare
    BY <1>3, <1>6, PrepareFields DEF Same, Fields, ContractOf, InheritedBy
<1>7. ASSUME NEW stays \in SUBSET {"unrestored"},
             Forgotten(stays) \/ \E well \in BOOLEAN : Finish(well, stays)
      PROVE  FollowsInv'
    BY <1>7, EndFields
<1> QED
    BY <1>1, <1>2, <1>4, <1>5, <1>6, <1>7, StepKinds DEF Goes

(* Whatever the shell has set and the user lets through, a child has what  *)
(* its plan says and nothing of the parent that names a credential; a      *)
(* child of `with` inherits nothing the user lets through.                 *)
THEOREM ChildrenFollowTheirPlan == Spec => []ChildFollowsPlan
<1>1. FollowsInv => ChildFollowsPlan
  <2> SUFFICES ASSUME FollowsInv, Running PROVE ChildFollowsPlan
      BY DEF ChildFollowsPlan
  <2> DEFINE s == launch.plan
             c == ContractOf(launch)
             given == InheritedBy(launch)
  <2>1. launch.child = ChildEnv(s, c, given)
      BY DEF FollowsInv
  <2>2. given = IF launch.surface = "with" THEN {} ELSE Inherited
      BY DEF FollowsInv, Running, InheritedBy
  <2>3. /\ \A n \in given : n \in DOMAIN launch.child /\ launch.child[n] = FromParent(n)
        /\ \A n \in DOMAIN s.env \ given :
             IF s.env[n] = Unset THEN n \notin DOMAIN launch.child
             ELSE n \in DOMAIN launch.child /\ launch.child[n] = s.env[n]
        /\ \A n \in DOMAIN launch.child \ (DOMAIN s.env \cup given) :
             /\ launch.child[n] = FromParent(n)
             /\ ~Looks(n) /\ n \in Allowlist(c)
      BY <2>1, ChildEnvValues
  <2> HIDE DEF given
  <2> QED
      BY <2>2, <2>3 DEF ChildFollowsPlan, Carries
<1> QED
    BY <1>1, FollowsInit, FollowsStep, PTL DEF Spec

-----------------------------------------------------------------------------
(* Whose secrets an environment has. *)

(* No key's secret is in an environment but this one's. *)
OnlyKey(env, k) == \A n \in DOMAIN env : \A j \in Keys : env[n] \in RawSecrets(j) => j = k
Plain(env) == \A n \in DOMAIN env : \A j \in Keys : env[n] \notin RawSecrets(j)

(* What is neither a key nor a component of one. *)
LEMMA PlainValues ==
  ASSUME NEW j, NEW x
  PROVE  /\ Text(x) \notin RawSecrets(j) /\ Url(x) \notin RawSecrets(j)
         /\ AnthropicUrl(x) \notin RawSecrets(j) /\ Model(x) \notin RawSecrets(j)
         /\ Own(x) \notin RawSecrets(j) /\ FromParent(x) \notin RawSecrets(j)
         /\ Unset \notin RawSecrets(j) /\ <<"field", x>> \notin RawSecrets(j)
BY DEF RawSecrets, Secret, Component, Text, Url, AnthropicUrl, Model, Own, FromParent, Unset

(* A secret is one key's. *)
LEMMA SecretValues ==
  ASSUME NEW j, NEW k, Secret(k) \in RawSecrets(j) \/ Component(k) \in RawSecrets(j)
  PROVE  j = k
BY DEF RawSecrets, Secret, Component

(* One environment over another. *)
LEMMA OverOnly ==
  ASSUME NEW f, NEW g, NEW k, OnlyKey(f, k), OnlyKey(g, k)
  PROVE  OnlyKey(f ++ g, k)
BY DEF OnlyKey, ++

(* An environment without some names. *)
LEMMA WithoutOnly ==
  ASSUME NEW f, NEW names, NEW k, OnlyKey(f, k)
  PROVE  OnlyKey(Without(f, names), k)
BY DEF OnlyKey, Without, Restrict

(* No secret at all. *)
LEMMA PlainOnly ==
  ASSUME NEW f, NEW k, Plain(f)
  PROVE  OnlyKey(f, k)
BY DEF OnlyKey, Plain

(* The key in one variable. *)
LEMMA VarOnly ==
  ASSUME NEW n, NEW k
  PROVE  OnlyKey(Var(n, Secret(k)), k)
BY SecretValues DEF OnlyKey, Var

(* No variable at all. *)
LEMMA NoEnvOnly ==
  ASSUME NEW k
  PROVE  OnlyKey(NoEnv, k)
BY DEF OnlyKey, NoEnv

(* A text or an address in one variable. *)
LEMMA VarPlain ==
  ASSUME NEW n, NEW x
  PROVE  Plain(Var(n, Text(x))) /\ Plain(Var(n, Url(x))) /\ Plain(Var(n, AnthropicUrl(x)))
BY PlainValues DEF Plain, Var

(* The models a profile chose. *)
LEMMA ModelPlain ==
  ASSUME NEW p, NEW slots
  PROVE  Plain(ModelEnv(p, slots))
BY PlainValues DEF Plain, ModelEnv

(* The variables a profile sets itself. *)
LEMMA OwnPlain ==
  ASSUME NEW p
  PROVE  Plain(OwnEnv(p))
BY PlainValues DEF Plain, OwnEnv

(* The key whose secret a rendering may use: the policy forbids or there is none. *)
Allowed(k, v) == IF k # None /\ v[k].inject THEN k ELSE None

(* What every rendering starts from has the secret of the key it was       *)
(* given, and of that key only if the policy lets it (buildBaseEnv: the    *)
(* check is skipped where the provider needs no key and names no           *)
(* variable).                                                              *)
LEMMA BaseOnly ==
  ASSUME NEW s \in Slugs, NEW k \in Keys \cup {None}, NEW v, InjectAllowed(s, k, v),
         ~(NeedsKey(s) /\ Provider[s].var = "")
  PROVE  OnlyKey(BaseEnv(s, k, v), Allowed(k, v))
<1> DEFINE e == Allowed(k, v)
  extra == [n \in DOMAIN Provider[s].extra |-> Text(Provider[s].extra[n])]
  primary == [n \in IF k = None \/ Provider[s].var = "" THEN {} ELSE {Provider[s].var}
                |-> Secret(k)]
<1>1. e = k \/ (Provider[s].var = "" /\ ~NeedsKey(s) /\ k # None)
  BY DEF Allowed, InjectAllowed
<1>2. OnlyKey(extra, e)
  <2>1. Plain(extra)
    BY PlainValues DEF Plain
  <2> QED BY <2>1, PlainOnly
<1>3. OnlyKey(primary, e)
  BY <1>1, SecretValues DEF OnlyKey
<1>4. OnlyKey(SetupEnv(s, k, v), e)
  <2>1. CASE k = None
    BY <2>1, NoEnvOnly DEF SetupEnv
  <2>2. CASE k # None
    <3> DEFINE setup == Provider[s].setup
               Given(n) == v[k].full \/ setup[n] = "endpoint"
               env == [n \in {n \in DOMAIN setup : Given(n)} |->
                CASE setup[n] = "secret" -> Component(k)
                  [] setup[n] = "endpoint" -> IF v[k].full THEN Url(s) ELSE Unset
                  [] OTHER -> <<"field", n>>]
    <3>1. SetupEnv(s, k, v) = env
      BY <2>2 DEF SetupEnv
    <3>2. ASSUME NEW n \in DOMAIN env, NEW j \in Keys, env[n] \in RawSecrets(j) PROVE j = e
      <4>1. n \in DOMAIN setup OBVIOUS
      <4>2. CASE setup[n] = "secret"
        <5>1. e = k
          BY <1>1, <4>1, <4>2, RegistryAssumption DEF NeedsKey
        <5>2. env[n] = Component(k)
          BY <4>2
        <5> QED
          BY <3>2, <5>1, <5>2, SecretValues
      <4>3. CASE setup[n] # "secret"
        <5>1. env[n] \in {Url(s), Unset, <<"field", n>>}
          BY <4>3
        <5> QED BY <3>2, <5>1, PlainValues
      <4> QED BY <4>2, <4>3
    <3> QED BY <3>1, <3>2 DEF OnlyKey
  <2> QED BY <2>1, <2>2
<1>5. BaseEnv(s, k, v) = (SetupEnv(s, k, v) ++ extra) ++ primary
  BY DEF BaseEnv
<1> HIDE DEF e, extra, primary
<1>6. OnlyKey(SetupEnv(s, k, v) ++ extra, e)
  BY <1>2, <1>4, OverOnly
<1>7. OnlyKey((SetupEnv(s, k, v) ++ extra) ++ primary, e)
  BY <1>3, <1>6, OverOnly
<1> QED
  BY <1>5, <1>7 DEF e

-----------------------------------------------------------------------------
(* The renderings, app by app. *)

StrategyFields == {"ok", "why", "command", "env", "files", "transport", "bridge", "blocked",
                   "nilEnv"}
Good(r, k) == r.ok => DOMAIN r = StrategyFields /\ OnlyKey(r.env, k) /\ r.bridge = None

(* A strategy's fields (NewLaunchStrategy). *)
LEMMA StrategyIs ==
  ASSUME NEW c, NEW env, NEW files
  PROVE  /\ DOMAIN Strategy(c, env, files) = StrategyFields
        /\ Strategy(c, env, files).env = env
        /\ Strategy(c, env, files).bridge = None
        /\ Strategy(c, env, files).transport = ""
        /\ Strategy(c, env, files).command = c
        /\ Strategy(c, env, files).ok
BY DEF Strategy, StrategyFields

(* What was refused is not ok. *)
LEMMA RefusedIs ==
  ASSUME NEW why
  PROVE  ~Refused(why).ok
BY DEF Refused

(* Nor does it carry anything. *)
LEMMA RefusedGood ==
  ASSUME NEW why, NEW k
  PROVE  Good(Refused(why), k)
BY RefusedIs DEF Good

(* A strategy is as good as its environment. *)
LEMMA StrategyGood ==
  ASSUME NEW c, NEW env, NEW files, NEW k, OnlyKey(env, k)
  PROVE  Good(Strategy(c, env, files), k)
<1> DEFINE s == Strategy(c, env, files)
<1>1. DOMAIN s = StrategyFields /\ s.env = env /\ s.bridge = None
  BY DEF Strategy, StrategyFields
<1> HIDE DEF s
<1>2. Good(s, k)
  BY <1>1 DEF Good
<1> QED
  BY <1>2 DEF s

(* What the renderings build on *)
Base(p, k, v, e) == OnlyKey(BaseEnv(p.provider, k, v), e)

(* genericRender *)
LEMMA GenericGood ==
  ASSUME NEW p, NEW k, NEW v, NEW e, Base(p, k, v, e)
  PROVE  Good(GenericRender(p, k, v), e)
<1> DEFINE models == IF Provider[p.provider].auth = "aws" THEN NoEnv
                       ELSE ModelEnv(p, Var(ModelVar(p.provider), "main"))
           base == BaseEnv(p.provider, k, v)
<1>1. OnlyKey(models, e)
  BY NoEnvOnly, ModelPlain, PlainOnly
<1>2. OnlyKey(base, e)
  BY DEF Base
<1>3. \/ GenericRender(p, k, v) = Refused("no command")
      \/ GenericRender(p, k, v) = Strategy(p.command, models ++ base, {})
  BY DEF GenericRender
<1> HIDE DEF models, base
<1> QED
  BY <1>1, <1>2, <1>3, OverOnly, RefusedGood, StrategyGood

(* aiderRender *)
LEMMA AiderGood ==
  ASSUME NEW p, NEW k, NEW v, NEW e, Base(p, k, v, e)
  PROVE  Good(AiderRender(p, k, v), e)
<1> DEFINE url == IF Provider[p.provider].compat \in {"openai", "local"}
                THEN Var("AIDER_OPENAI_API_BASE", Url(p.provider)) ELSE NoEnv
           base == BaseEnv(p.provider, k, v)
<1>1. OnlyKey(url, e)
  BY NoEnvOnly, VarPlain, PlainOnly
<1>2. OnlyKey(base, e)
  BY DEF Base
<1>3. AiderRender(p, k, v) = Strategy("aider", url ++ base, {})
  BY DEF AiderRender
<1> HIDE DEF url, base
<1> QED
  BY <1>1, <1>2, <1>3, OverOnly, StrategyGood

(* hermesRender *)
LEMMA HermesGood ==
  ASSUME NEW p, NEW k, NEW v, NEW e, Base(p, k, v, e)
  PROVE  Good(HermesRender(p, k, v), e)
<1> DEFINE home == IF "HERMES_HOME" \in p.env THEN NoEnv
                   ELSE Var("HERMES_HOME", Text("temp/profile"))
           base == BaseEnv(p.provider, k, v)
           files == {File("hermes/config.yaml", "profile", {})}
<1>1. OnlyKey(home, e)
  BY NoEnvOnly, VarPlain, PlainOnly
<1>2. OnlyKey(base, e)
  BY DEF Base
<1>3. HermesRender(p, k, v) = Strategy("hermes", home ++ base, files)
  BY DEF HermesRender
<1> HIDE DEF home, base, files
<1> QED
  BY <1>1, <1>2, <1>3, OverOnly, StrategyGood

(* The renderings that add nothing to what every one has. *)
LEMMA BareGood ==
  ASSUME NEW p, NEW k, NEW v, NEW e, Base(p, k, v, e)
  PROVE  /\ Good(ClineRender(p, k, v), e) /\ Good(VibeRender(p, k, v), e)
         /\ Good(ZedRender(p, k, v), e) /\ Good(ExtensionRender(p, k, v), e)
<1>1. \A c, files : Good(Strategy(c, BaseEnv(p.provider, k, v), files), e)
  BY StrategyGood DEF Base
<1> QED
  BY <1>1 DEF ClineRender, VibeRender, ZedRender, ExtensionRender

(* The renderings that add the models and what names the provider. *)
LEMMA ModelledGood ==
  ASSUME NEW p, NEW k, NEW v, NEW e, Base(p, k, v, e)
  PROVE  /\ Good(OpenHandsRender(p, k, v), e) /\ Good(GooseRender(p, k, v), e)
         /\ Good(CopilotRender(p, k, v), e) /\ Good(ContinueRender(p, k, v), e)
<1> DEFINE base == BaseEnv(p.provider, k, v)
  goose == [GOOSE_PROVIDER |-> Text("openai"), GOOSE_PROVIDER__HOST |-> Url(p.provider)]
  hands == Var("OPENHANDS_PROVIDER", Text(p.provider))
<1>1. \A slots : OnlyKey(ModelEnv(p, slots) ++ base, e)
  BY ModelPlain, PlainOnly, OverOnly DEF Base
<1>2. Plain(goose)
  <2>1. \A n \in DOMAIN goose : goose[n] = Text("openai") \/ goose[n] = Url(p.provider)
    OBVIOUS
  <2> HIDE DEF goose
  <2> QED BY <2>1, PlainValues DEF Plain
<1>3. Plain(hands)
  BY VarPlain
<1>4. \A slots : OnlyKey((goose ++ ModelEnv(p, slots)) ++ base, e)
  <2>1. \A slots : OnlyKey(goose ++ ModelEnv(p, slots), e)
    BY <1>2, ModelPlain, PlainOnly, OverOnly
  <2> QED BY <2>1, OverOnly DEF Base
<1>5. \A slots : OnlyKey((hands ++ ModelEnv(p, slots)) ++ base, e)
  <2>1. \A slots : OnlyKey(hands ++ ModelEnv(p, slots), e)
    BY <1>3, ModelPlain, PlainOnly, OverOnly
  <2> QED BY <2>1, OverOnly DEF Base
<1>6. Good(GooseRender(p, k, v), e)
  BY <1>4, StrategyGood DEF GooseRender
<1>7. Good(OpenHandsRender(p, k, v), e)
  BY <1>5, StrategyGood DEF OpenHandsRender
<1>8. Good(CopilotRender(p, k, v), e) /\ Good(ContinueRender(p, k, v), e)
  BY <1>1, StrategyGood DEF CopilotRender, ContinueRender
<1> QED
  BY <1>6, <1>7, <1>8

(* The renderings that take nothing from the key. *)
LEMMA AloneGood ==
  ASSUME NEW p, NEW k, NEW v, NEW e
  PROVE  Good(IntelliJRender(p, k, v), e) /\ Good(CursorRender(p, k, v), e)
<1>1. Good(IntelliJRender(p, k, v), e)
  BY VarPlain, PlainOnly, StrategyGood DEF IntelliJRender
<1>2. Good(Strategy("", NoEnv, {}), e) /\ DOMAIN Strategy("", NoEnv, {}) = StrategyFields
  BY NoEnvOnly, StrategyGood, StrategyIs
<1>3. Good(CursorRender(p, k, v), e)
  <2> DEFINE s == Strategy("", NoEnv, {})
  <2>1. CursorRender(p, k, v) = [s EXCEPT !.blocked = TRUE, !.nilEnv = TRUE]
     BY DEF CursorRender
  <2>2. s.ok /\ Good(s, e) /\ DOMAIN s = StrategyFields
     BY <1>2, StrategyIs
  <2> HIDE DEF s
  <2> QED BY <2>1, <2>2 DEF Good, StrategyFields
<1> QED
  BY <1>1, <1>3

(* geminiRender: a provider that is not Google's own is spoken to with the *)
(* key in GEMINI_API_KEY.                                                  *)
LEMMA GeminiGood ==
  ASSUME NEW p, NEW k, NEW v, NEW e, Base(p, k, v, e),
         e = k \/ Provider[p.provider].compat = "google"
  PROVE  Good(GeminiRender(p, k, v), e)
<1> DEFINE key == IF k = None THEN NoEnv ELSE Var("GEMINI_API_KEY", Secret(k))
           url == Var("GOOGLE_GEMINI_BASE_URL", Url(p.provider))
           gateway == IF Provider[p.provider].compat = "google" THEN NoEnv ELSE url ++ key
           models == ModelEnv(p, [GEMINI_MODEL |-> "main"])
           base == BaseEnv(p.provider, k, v)
<1>1. GeminiRender(p, k, v) = Strategy("gemini", (gateway ++ models) ++ base, {})
  BY DEF GeminiRender
<1>2. OnlyKey(gateway, e)
  <2>1. CASE Provider[p.provider].compat = "google"
    BY <2>1, NoEnvOnly
  <2>2. CASE e = k
    <3>1. OnlyKey(url, e) /\ OnlyKey(key, e)
      BY <2>2, NoEnvOnly, VarOnly, VarPlain, PlainOnly
    <3> HIDE DEF url, key
    <3>2. OnlyKey(url ++ key, e)
      BY <3>1, OverOnly
    <3> QED BY <3>2, NoEnvOnly
  <2> QED BY <2>1, <2>2
<1>3. OnlyKey(models, e) /\ OnlyKey(base, e)
  BY ModelPlain, PlainOnly DEF Base
<1> HIDE DEF gateway, models, base
<1>4. OnlyKey((gateway ++ models) ++ base, e)
  BY <1>2, <1>3, OverOnly
<1> QED
  BY <1>1, <1>4, StrategyGood

(* Nothing but the three variables the bridge's own take the place of has  *)
(* a key or the stand-in for one.                                          *)
Behind(env) == \A n \in DOMAIN env \ AnthropicTransport :
                  (\A j \in Keys : env[n] \notin RawSecrets(j)) /\ env[n] # BridgeToken

(* What is not the stand-in the bridge is given for a key. *)
LEMMA NotToken ==
  ASSUME NEW x
  PROVE  /\ Url(x) # BridgeToken /\ AnthropicUrl(x) # BridgeToken /\ Model(x) # BridgeToken
         /\ Own(x) # BridgeToken /\ Unset # BridgeToken /\ <<"field", x>> # BridgeToken
         /\ (x # "aegiskeys-local-bridge" => Text(x) # BridgeToken)
         /\ FromParent(x) # BridgeToken
BY DEF BridgeToken, Url, AnthropicUrl, Model, Own, Unset, Text, FromParent

(* Without its key's variable, what every rendering starts from has no     *)
(* secret, unless the provider is signed for (SetupEnv).                   *)
LEMMA BaseRest ==
  ASSUME NEW s \in Slugs, NEW k, NEW v, Provider[s].auth # "aws"
  PROVE  \A n \in DOMAIN BaseEnv(s, k, v) \ {Provider[s].var} :
            /\ \A j \in Keys : BaseEnv(s, k, v)[n] \notin RawSecrets(j)
            /\ BaseEnv(s, k, v)[n] # BridgeToken
<1> DEFINE Fine(x) == (\A j \in Keys : x \notin RawSecrets(j)) /\ x # BridgeToken
  extra == [n \in DOMAIN Provider[s].extra |-> Text(Provider[s].extra[n])]
  primary == [n \in IF k = None \/ Provider[s].var = "" THEN {} ELSE {Provider[s].var}
                |-> Secret(k)]
  setup == SetupEnv(s, k, v)
  env == BaseEnv(s, k, v)
<1>1. \A n \in DOMAIN extra : Fine(extra[n])
  BY PlainValues, NotToken, RegistryAssumption
<1>2. DOMAIN primary \subseteq {Provider[s].var}
  OBVIOUS
<1>3. \A n \in DOMAIN setup : Fine(setup[n])
  <2> DEFINE of == Provider[s].setup
  <2>1. \A n \in DOMAIN of : of[n] # "secret"
    BY RegistryAssumption
  <2>2. \A n \in DOMAIN setup : setup[n] \in {Url(s), Unset, <<"field", n>>}
    BY <2>1 DEF SetupEnv, NoEnv
  <2> QED BY <2>2, PlainValues, NotToken
<1>4. env = (setup ++ extra) ++ primary
  BY DEF BaseEnv
<1> HIDE DEF Fine, extra, primary, setup, env
<1>5. \A n \in DOMAIN (setup ++ extra) : Fine((setup ++ extra)[n])
  BY <1>1, <1>3 DEF ++
<1> DEFINE rest == setup ++ extra
<1>6. \A n \in DOMAIN rest : Fine(rest[n])
  BY <1>5
<1>7. env = rest ++ primary
  BY <1>4
<1> HIDE DEF rest
<1>8. \A n \in DOMAIN env \ {Provider[s].var} : Fine(env[n])
  BY <1>2, <1>6, <1>7 DEF ++
<1> QED
  BY <1>8 DEF env, Fine

(* The key as Claude Code's token. *)
LEMMA TokenOnly ==
  ASSUME NEW k
  PROVE  OnlyKey([ANTHROPIC_AUTH_TOKEN |-> Secret(k), ANTHROPIC_API_KEY |-> Unset], k)
<1> DEFINE token == [ANTHROPIC_AUTH_TOKEN |-> Secret(k), ANTHROPIC_API_KEY |-> Unset]
<1>1. \A n \in DOMAIN token : token[n] = Secret(k) \/ token[n] = Unset
  OBVIOUS
<1> HIDE DEF token
<1>2. OnlyKey(token, k)
  BY <1>1, PlainValues, SecretValues DEF OnlyKey
<1> QED
  BY <1>2 DEF token

Sound(r, p, e) == r.ok =>
  /\ DOMAIN r = StrategyFields
  /\ OnlyKey(r.env, e)
  /\ r.bridge # None => p.app = "claude" /\ r.bridge = e /\ Behind(r.env)
  /\ p.app = "free-claude" => r.transport \in {"openai chat", "anthropic messages"}

(* A rendering that asks for no bridge and is not free-code's. *)
LEMMA GoodSound ==
  ASSUME NEW r, NEW p, NEW e, Good(r, e), p.app # "free-claude"
  PROVE  Sound(r, p, e)
BY DEF Good, Sound

(* claudeRender: where it asks for the bridge, the bridge's variables hide *)
(* whatever has the key.                                                   *)
LEMMA ClaudeSound ==
  ASSUME NEW p, p.app = "claude", p.provider \in Slugs, NEW k \in Keys \cup {None}, NEW v,
         Base(p, k, v, k)
  PROVE  Sound(ClaudeRender(p, k, v), p, k)
<1> DEFINE s == p.provider
           base == BaseEnv(s, k, v)
           models == ModelEnv(p, AnthropicModels)
           env == models ++ base
           token == IF k = None THEN NoEnv
                    ELSE [ANTHROPIC_AUTH_TOKEN |-> Secret(k), ANTHROPIC_API_KEY |-> Unset]
           rest == Without(env, {Provider[s].var})
           url == AnthropicUrlEnv(s)
           key == AnthropicKey(s, k)
           routed == (url ++ token) ++ rest
           tokens == [ANTHROPIC_AUTH_TOKEN |-> BridgeToken, ANTHROPIC_API_KEY |-> BridgeToken]
           bridged == Strategy("claude", tokens ++ routed, {})
           aws == Provider[s].auth = "aws"
<1>1. \/ ClaudeRender(p, k, v) = Strategy("claude", (url ++ key) ++ env, {})
      \/ ClaudeRender(p, k, v) = Strategy("claude", env, {})
      \/ ClaudeRender(p, k, v) = Refused("bridge key")
      \/ ~aws /\ k # None /\ ClaudeRender(p, k, v) = [bridged EXCEPT !.bridge = k]
      \/ ClaudeRender(p, k, v) = Strategy("claude", routed, {})
  <2> DEFINE compat == Provider[s].compat
             direct == Strategy("claude", (url ++ key) ++ env, {})
             native == Strategy("claude", env, {})
             through == Strategy("claude", routed, {})
             held == [bridged EXCEPT !.bridge = k]
  <2>1. ClaudeRender(p, k, v) =
          CASE compat = "anthropic" -> direct
            [] compat = "openai" /\ aws -> native
            [] compat = "openai" /\ ~aws /\ s = "freeinference" ->
                 IF k = None THEN Refused("bridge key") ELSE held
            [] OTHER -> through
      BY DEF ClaudeRender
  <2> HIDE DEF s, compat, aws, direct, native, through, held
  <2>2. \/ ClaudeRender(p, k, v) = direct
        \/ ClaudeRender(p, k, v) = native
        \/ ClaudeRender(p, k, v) = Refused("bridge key")
        \/ ~aws /\ k # None /\ ClaudeRender(p, k, v) = held
        \/ ClaudeRender(p, k, v) = through
      BY <2>1
  <2> QED BY <2>2 DEF direct, native, through, held
<1>2. OnlyKey(url, k) /\ OnlyKey(key, k)
  BY NoEnvOnly, VarOnly, VarPlain, PlainOnly DEF AnthropicUrlEnv, AnthropicKey
<1>3. OnlyKey(models, k) /\ OnlyKey(base, k)
  BY ModelPlain, PlainOnly DEF Base
<1>4. OnlyKey(token, k)
  BY TokenOnly, NoEnvOnly
<1>5. OnlyKey(tokens, k)
  <2>1. \A n \in DOMAIN tokens : tokens[n] = Text("aegiskeys-local-bridge")
    BY DEF BridgeToken
  <2> HIDE DEF tokens
  <2> QED BY <2>1, PlainValues DEF OnlyKey
<1>6. ~aws => \A n \in DOMAIN base \ {Provider[s].var} :
                (\A j \in Keys : base[n] \notin RawSecrets(j)) /\ base[n] # BridgeToken
  BY BaseRest
<1>7. \A n \in DOMAIN models :
        (\A j \in Keys : models[n] \notin RawSecrets(j)) /\ models[n] # BridgeToken
  BY PlainValues, NotToken DEF ModelEnv
<1>8. DOMAIN url \cup DOMAIN token \cup DOMAIN tokens \subseteq AnthropicTransport
  BY DEF AnthropicUrlEnv, Var, NoEnv, AnthropicTransport
<1>9. OnlyKey(env, k)
  <2> HIDE DEF models, base
  <2> QED BY <1>3, OverOnly
<1>10. ~aws => Behind(rest)
  <2> HIDE DEF models, base, aws
  <2> SUFFICES ASSUME ~aws, NEW n \in DOMAIN rest
               PROVE  (\A j \in Keys : rest[n] \notin RawSecrets(j)) /\ rest[n] # BridgeToken
      BY DEF Behind
  <2>1. n \in DOMAIN env /\ n # Provider[s].var /\ rest[n] = env[n]
      BY DEF Without, Restrict
  <2>2. env[n] = IF n \in DOMAIN models THEN models[n] ELSE base[n]
      BY <2>1 DEF ++
  <2>3. n \in DOMAIN models \/ n \in DOMAIN base
      BY <2>1 DEF ++
  <2> QED BY <1>6, <1>7, <2>1, <2>2, <2>3
<1>11. OnlyKey(rest, k)
  <2> HIDE DEF env
  <2> QED BY <1>9, WithoutOnly
<1> HIDE DEF url, key, models, base, env, token, rest, tokens, aws
<1>12. OnlyKey((url ++ key) ++ env, k) /\ OnlyKey(routed, k)
  BY <1>2, <1>4, <1>9, <1>11, OverOnly
<1>13. OnlyKey(tokens ++ routed, k)
  <2> HIDE DEF routed
  <2> QED BY <1>5, <1>12, OverOnly
<1>14. ~aws => Behind(tokens ++ routed)
  <2>1. ASSUME ~aws, NEW n \in DOMAIN (tokens ++ routed), n \notin AnthropicTransport
        PROVE  n \in DOMAIN rest /\ (tokens ++ routed)[n] = rest[n]
    <3>1. n \notin DOMAIN tokens /\ n \notin DOMAIN url /\ n \notin DOMAIN token
        BY <1>8, <2>1
    <3>2. n \in DOMAIN routed /\ (tokens ++ routed)[n] = routed[n]
      <4> HIDE DEF routed
      <4> QED BY <2>1, <3>1 DEF ++
    <3> DEFINE pair == url ++ token
    <3>3. n \notin DOMAIN pair
        BY <3>1 DEF ++
    <3>4. routed = pair ++ rest
        OBVIOUS
    <3> HIDE DEF pair, routed
    <3> QED BY <3>2, <3>3, <3>4 DEF ++
  <2> QED BY <1>10, <2>1 DEF Behind
<1>15. Sound(Strategy("claude", (url ++ key) ++ env, {}), p, k)
       /\ Sound(Strategy("claude", env, {}), p, k) /\ Sound(Strategy("claude", routed, {}), p, k)
  <2> HIDE DEF routed
  <2> QED BY <1>9, <1>12, StrategyGood, GoodSound
<1>16. ~aws /\ k # None => Sound([bridged EXCEPT !.bridge = k], p, k)
  <2> DEFINE over == tokens ++ routed
  <2>1. DOMAIN bridged = StrategyFields /\ bridged.env = over
    BY DEF Strategy, StrategyFields
  <2>2. OnlyKey(over, k) /\ (~aws => Behind(over))
    BY <1>13, <1>14
  <2> HIDE DEF over, bridged
  <2> DEFINE r == [bridged EXCEPT !.bridge = k]
  <2>3. DOMAIN r = StrategyFields /\ r.env = over /\ r.bridge = k
    BY <2>1 DEF StrategyFields
  <2> HIDE DEF r
  <2>4. ~aws /\ k # None => Sound(r, p, k)
    BY <2>2, <2>3 DEF Sound
  <2> QED BY <2>4 DEF r
<1>17. Sound(Refused("bridge key"), p, k)
  BY RefusedIs DEF Sound
<1> QED
  BY <1>1, <1>15, <1>16, <1>17

(* freeClaudeEnv: each of its three branches has one key's secret. *)
LEMMA FreeClaudeOnly ==
  ASSUME NEW p, NEW k, NEW v, Base(p, k, v, k)
  PROVE  OnlyKey(FreeClaudeEnv(p, k, v), k)
<1> DEFINE s == p.provider
           base == BaseEnv(s, k, v)
           models == ModelEnv(p, AnthropicModels)
           env == models ++ base
           switches == {"CLAUDE_CODE_USE_OPENAI", "CLAUDE_CODE_USE_CODEX", Provider[s].var}
           url == AnthropicUrlEnv(s)
           key == AnthropicKey(s, k)
           messages == Without(env, OpenAITransport \cup switches \cup {"ANTHROPIC_API_KEY"})
           chat == [CLAUDE_CODE_USE_OPENAI_COMPATIBLE |-> Text("1"),
                    OPENAI_BASE_URL |-> Url(s), OPENAI_API_KEY |-> Secret(k)]
           rest == Without(env, switches \cup AnthropicTransport)
           claude == Provider[s].compat = "anthropic"
           aws == Provider[s].auth = "aws"
<1>1. OnlyKey(models, k) /\ OnlyKey(base, k)
  BY ModelPlain, PlainOnly DEF Base
<1>2. OnlyKey(env, k)
  <2> HIDE DEF models, base
  <2> QED BY <1>1, OverOnly
<1>3. OnlyKey(url, k) /\ OnlyKey(key, k)
  BY NoEnvOnly, VarOnly, VarPlain, PlainOnly DEF AnthropicUrlEnv, AnthropicKey
<1>4. OnlyKey(chat, k)
  <2>1. \A n \in DOMAIN chat : chat[n] \in {Text("1"), Url(s), Secret(k)}
    OBVIOUS
  <2> HIDE DEF chat
  <2> QED BY <2>1, PlainValues, SecretValues DEF OnlyKey
<1>5. OnlyKey(messages, k) /\ OnlyKey(rest, k)
  <2> HIDE DEF env
  <2> QED BY <1>2, WithoutOnly
<1>6. FreeClaudeEnv(p, k, v) =
         CASE claude -> (url ++ key) ++ messages
           [] ~claude /\ aws -> env
           [] OTHER -> chat ++ rest
  BY DEF FreeClaudeEnv
<1> HIDE DEF url, key, messages, chat, rest, env, claude, aws
<1>7. OnlyKey((url ++ key) ++ messages, k) /\ OnlyKey(chat ++ rest, k)
  BY <1>3, <1>4, <1>5, OverOnly
<1> QED
  <2> DEFINE ue == (url ++ key) ++ messages
             ce == chat ++ rest
  <2>1. OnlyKey(ue, k) /\ OnlyKey(ce, k)
     BY <1>7
  <2>2. FreeClaudeEnv(p, k, v) = CASE claude -> ue [] ~claude /\ aws -> env [] OTHER -> ce
     BY <1>6
  <2> HIDE DEF ue, ce
  <2> QED BY <1>2, <2>1, <2>2

(* A strategy of free-code says which wire protocol it speaks. *)
LEMMA FreeClaudeSound ==
  ASSUME NEW p, NEW k, NEW v, Base(p, k, v, k), p.app = "free-claude"
  PROVE  Sound(FreeClaudeRender(p, k, v), p, k)
<1> DEFINE openai == Provider[p.provider].compat = "openai"
           command == IF p.command = "" THEN "free-code" ELSE p.command
           env == FreeClaudeEnv(p, k, v)
           s == Strategy(command, env, {})
           transport == IF openai THEN "openai chat" ELSE "anthropic messages"
           r == [s EXCEPT !.transport = transport]
<1>1. (\E why : FreeClaudeRender(p, k, v) = Refused(why)) \/ FreeClaudeRender(p, k, v) = r
  BY DEF FreeClaudeRender
<1>2. DOMAIN s = StrategyFields /\ s.env = env /\ s.bridge = None
  BY DEF Strategy, StrategyFields
<1>3. transport \in {"openai chat", "anthropic messages"}
  OBVIOUS
<1>4. OnlyKey(env, k)
  BY FreeClaudeOnly
<1> HIDE DEF s, transport, env
<1>5. DOMAIN r = StrategyFields /\ r.env = env /\ r.bridge = None /\ r.transport = transport
  BY <1>2 DEF StrategyFields
<1> HIDE DEF r
<1>6. Sound(r, p, k)
  BY <1>3, <1>4, <1>5 DEF Sound
<1>7. \A why : Sound(Refused(why), p, k)
  BY RefusedIs DEF Sound
<1> QED
  BY <1>1, <1>6, <1>7

(* Whatever app a profile is for, its rendering has the key's secret only  *)
(* if the key may be injected (Adapter.Render of each app).                *)
LEMMA RenderSound ==
  ASSUME NEW p, p.app \in Apps \ CatalogApps, p.provider \in Slugs,
         NEW k \in Keys \cup {None}, NEW v,
         Supports(p.app, p.provider), ~(NeedsKey(p.provider) /\ Provider[p.provider].var = "")
  PROVE  Sound(Render(p, k, v), p, Allowed(k, v))
<1> DEFINE s == p.provider
           e == Allowed(k, v)
           app == p.app
<1>0. app \in {"generic", "aider", "cline", "hermes", "claude", "vibe", "goose", "zed", "intellij",
               "openhands", "gemini", "copilot", "roo", "kilo", "cursor", "free-claude", "continue"}
  BY AppsAre DEF AppNames, CatalogApps
<1>1. CASE app = "intellij"
  BY <1>1, AloneGood, GoodSound DEF Render
<1>2. CASE app = "cursor"
  BY <1>2, AloneGood, GoodSound DEF Render
<1>3. CASE app \notin {"intellij", "cursor"} /\ ~InjectAllowed(s, k, v)
  <2>1. Render(p, k, v) = Refused("policy")
    BY <1>0, <1>3 DEF Render, Based, CatalogApps
  <2> QED BY <2>1, RefusedIs DEF Sound
<1>4. CASE app \notin {"intellij", "cursor"} /\ InjectAllowed(s, k, v)
  <2>1. Base(p, k, v, e)
    BY <1>4, BaseOnly DEF Base
  <2>2. e = k \/ Provider[s].compat = "local"
    BY <1>4, RegistryAssumption DEF Allowed, InjectAllowed, NeedsKey
  <2>3. CASE app \in {"claude", "free-claude", "gemini"}
    <3>1. Provider[s].compat # "local"
      BY <2>3, Accepts DEF Supports
    <3>2. e = k
      BY <2>2, <3>1
    <3>3. Base(p, k, v, k)
      BY <2>1, <3>2
    <3> HIDE DEF e
    <3>4. CASE app = "claude"
      <4>1. Render(p, k, v) = ClaudeRender(p, k, v)
        BY <1>4, <3>4 DEF Render, Based
      <4> QED BY <3>2, <3>3, <3>4, <4>1, ClaudeSound DEF e
    <3>5. CASE app = "free-claude"
      <4>1. Render(p, k, v) = FreeClaudeRender(p, k, v)
        BY <1>4, <3>5 DEF Render, Based
      <4> QED BY <3>2, <3>3, <3>5, <4>1, FreeClaudeSound DEF e
    <3>6. CASE app = "gemini"
      <4>1. Render(p, k, v) = GeminiRender(p, k, v)
        BY <1>4, <3>6 DEF Render, Based
      <4> QED BY <3>2, <3>3, <3>6, <4>1, GeminiGood, GoodSound DEF e
    <3> QED BY <2>3, <3>4, <3>5, <3>6
  <2>4. CASE app \notin {"claude", "free-claude", "gemini"}
    <3> HIDE DEF e
    <3>1. /\ Good(GenericRender(p, k, v), e) /\ Good(AiderRender(p, k, v), e)
          /\ Good(HermesRender(p, k, v), e)
      BY <2>1, GenericGood, AiderGood, HermesGood
    <3>2. /\ Good(ClineRender(p, k, v), e) /\ Good(VibeRender(p, k, v), e)
          /\ Good(ZedRender(p, k, v), e) /\ Good(ExtensionRender(p, k, v), e)
      BY <2>1, BareGood
    <3>3. /\ Good(OpenHandsRender(p, k, v), e) /\ Good(GooseRender(p, k, v), e)
          /\ Good(CopilotRender(p, k, v), e) /\ Good(ContinueRender(p, k, v), e)
      BY <2>1, ModelledGood
    <3>4. app = "generic" => Render(p, k, v) = GenericRender(p, k, v)
      BY <1>4 DEF Render, Based
    <3>5. app = "aider" => Render(p, k, v) = AiderRender(p, k, v)
      BY <1>4 DEF Render, Based
    <3>6. app = "hermes" => Render(p, k, v) = HermesRender(p, k, v)
      BY <1>4 DEF Render, Based
    <3>7. app = "cline" => Render(p, k, v) = ClineRender(p, k, v)
      BY <1>4 DEF Render, Based
    <3>8. app = "vibe" => Render(p, k, v) = VibeRender(p, k, v)
      BY <1>4 DEF Render, Based
    <3>9. app = "zed" => Render(p, k, v) = ZedRender(p, k, v)
      BY <1>4 DEF Render, Based
    <3>10. app \in {"roo", "kilo"} => Render(p, k, v) = ExtensionRender(p, k, v)
      BY <1>4 DEF Render, Based
    <3>11. app = "openhands" => Render(p, k, v) = OpenHandsRender(p, k, v)
      BY <1>4 DEF Render, Based
    <3>12. app = "goose" => Render(p, k, v) = GooseRender(p, k, v)
      BY <1>4 DEF Render, Based
    <3>13. app = "copilot" => Render(p, k, v) = CopilotRender(p, k, v)
      BY <1>4 DEF Render, Based
    <3>14. app = "continue" => Render(p, k, v) = ContinueRender(p, k, v)
      BY <1>4 DEF Render, Based
    <3>15. Good(Render(p, k, v), e)
      BY <1>0, <1>4, <2>4, <3>1, <3>2, <3>3, <3>4, <3>5, <3>6, <3>7, <3>8, <3>9, <3>10,
         <3>11,
         <3>12, <3>13, <3>14
    <3> QED BY <2>4, <3>15, GoodSound DEF e
  <2> QED BY <2>3, <2>4
<1> QED
  BY <1>1, <1>2, <1>3, <1>4

-----------------------------------------------------------------------------
(* The catalog, and the resolver with what it does after rendering. *)

(* A set of numbers has a least one. *)
LEMMA LeastOf ==
  ASSUME NEW S \in SUBSET Nat, S # {}
  PROVE  \E k \in S : \A other \in S : k <= other
<1> DEFINE Less == OpToRel(<, Nat)
<1>1. IsWellFoundedOn(Less, Nat)
  BY NatLessThanWellFounded
<1>2. \A x, y \in Nat : x < y => <<x, y>> \in Less
  BY DEF OpToRel
<1> HIDE DEF Less
<1>3. PICK k \in S : \A other \in S : <<other, k>> \notin Less
  BY <1>1, WFMin
<1>4. \A other \in S : ~(other < k)
  BY <1>2, <1>3
<1> QED
  BY <1>4

(* The key a catalog takes for a provider is one it may use. *)
LEMMA CatalogKeyUsable ==
  ASSUME NEW s, NEW v, CatalogKey(s, v) # None
  PROVE  CatalogKey(s, v) \in Keys /\ UsableRecord(s, CatalogKey(s, v), v)
<1> DEFINE usable == {k \in Keys : UsableRecord(s, k, v)}
<1>1. usable # {} /\ CatalogKey(s, v) = CHOOSE k \in usable : \A other \in usable : k <= other
  BY DEF CatalogKey
<1>2. usable \in SUBSET Nat
  BY AdapterAssumption
<1>3. \A k \in usable : k \in Keys /\ UsableRecord(s, k, v)
  OBVIOUS
<1> HIDE DEF usable
<1>4. \E k \in usable : \A other \in usable : k <= other
  BY <1>1, <1>2, LeastOf
<1>5. CatalogKey(s, v) \in usable
  BY <1>1, <1>4
<1> QED
  BY <1>3, <1>5

(* Every secret in an environment may be injected, belongs with a provider *)
(* the app was told of, and goes to an app that takes secrets.             *)
Placed(env, p, v) ==
  \A n \in DOMAIN env : \A j \in Keys : env[n] \in RawSecrets(j) =>
     /\ v[j].inject /\ Contracts[p.app].injects
     /\ \E s \in CatalogProviders(p.app) \cup {p.provider} : CredentialCompatible(s, v[j].provider)

(* One environment over another. *)
LEMMA OverPlaced ==
  ASSUME NEW f, NEW g, NEW p, NEW v, Placed(f, p, v), Placed(g, p, v)
  PROVE  Placed(f ++ g, p, v)
BY DEF Placed, ++

(* An environment without some names. *)
LEMMA WithoutPlaced ==
  ASSUME NEW f, NEW names, NEW p, NEW v, Placed(f, p, v)
  PROVE  Placed(Without(f, names), p, v)
BY DEF Placed, Without, Restrict

(* No secret at all. *)
LEMMA PlainPlaced ==
  ASSUME NEW f, NEW p, NEW v, Plain(f)
  PROVE  Placed(f, p, v)
BY DEF Placed, Plain

(* Each provider of a catalog is given a key of its own                    *)
(* (buildCatalogProviders).                                                *)
LEMMA CatalogPlaced ==
  ASSUME NEW p, p.app \in CatalogApps, NEW v
  PROVE  Placed(CatalogEnv(p, v), p, v)
<1> DEFINE keyed == CatalogKeyed(p.app, v)
           Holder(n) == CHOOSE s \in keyed : Provider[s].var = n
           names == {Provider[s].var : s \in keyed}
           held == [n \in names |-> Secret(CatalogKey(Holder(n), v))]
<1>1. CatalogEnv(p, v) = OwnEnv(p) ++ held
  BY DEF CatalogEnv
<1>2. ASSUME NEW n \in names, NEW j \in Keys, Secret(CatalogKey(Holder(n), v)) \in RawSecrets(j)
      PROVE  /\ v[j].inject /\ Contracts[p.app].injects
             /\ \E s \in CatalogProviders(p.app) \cup {p.provider} : CredentialCompatible(s, v[j].provider)
  <2> DEFINE s == Holder(n)
  <2>1. s \in keyed
    OBVIOUS
  <2> HIDE DEF s
  <2>2. s \in CatalogProviders(p.app) /\ CatalogKey(s, v) # None
    BY <2>1 DEF CatalogKeyed
  <2>3. CatalogKey(s, v) = j
    BY <1>2, SecretValues DEF s
  <2>4. UsableRecord(s, j, v)
    BY <2>2, <2>3, CatalogKeyUsable
  <2> QED BY <2>2, <2>4, CatalogInjects DEF UsableRecord
<1>3. Placed(held, p, v)
  BY <1>2 DEF Placed
<1>4. Placed(OwnEnv(p), p, v)
  BY OwnPlain, PlainPlaced
<1> HIDE DEF held
<1>5. Placed(OwnEnv(p) ++ held, p, v)
  BY <1>3, <1>4, OverPlaced
<1> QED
  BY <1>1, <1>5

(* A strategy before its profile's variables and the gate, and after. *)
Rendered(r, p, v) == r.ok =>
  /\ DOMAIN r = StrategyFields
  /\ Placed(r.env, p, v)
  /\ r.bridge # None => p.app = "claude" /\ r.bridge \in Keys /\ Behind(r.env)
  /\ p.app = "free-claude" => r.transport \in {"openai chat", "anthropic messages"}
Resolved(r, p, v) ==
  /\ Rendered(r, p, v)
  /\ r.ok /\ p.app = "free-claude" => TransportValid(r.env, r.transport)

(* What was refused is handed to nobody. *)
LEMMA RefusedResolved ==
  ASSUME NEW why, NEW p, NEW v
  PROVE  Resolved(Refused(why), p, v)
BY RefusedIs DEF Resolved, Rendered

(* renderCatalog *)
LEMMA CatalogRendered ==
  ASSUME NEW p, p.app \in CatalogApps, NEW v
  PROVE  Rendered(RenderCatalog(p, v), p, v)
<1> DEFINE away == IF p.app = "codex"
             THEN [OPENAI_BASE_URL |-> Unset, OPENAI_API_BASE |-> Unset,
                   CODEX_HOME |-> Text("temp")]
             ELSE NoEnv
           env == away ++ CatalogEnv(p, v)
           s == Strategy(Contracts[p.app].command, env, CatalogFile(p, v))
<1>1. (\E why : RenderCatalog(p, v) = Refused(why)) \/ RenderCatalog(p, v) = s
  BY DEF RenderCatalog
<1>2. Plain(away)
  <2>1. \A n \in DOMAIN away : away[n] \in {Unset, Text("temp")}
    BY DEF NoEnv
  <2> HIDE DEF away
  <2> QED BY <2>1, PlainValues DEF Plain
<1>3. Placed(away, p, v) /\ Placed(CatalogEnv(p, v), p, v)
  BY <1>2, CatalogPlaced, PlainPlaced
<1>4. DOMAIN s = StrategyFields /\ s.env = env /\ s.bridge = None
  BY DEF Strategy, StrategyFields
<1> HIDE DEF away, s
<1>5. Placed(env, p, v)
  BY <1>3, OverPlaced
<1>6. p.app # "free-claude"
  BY DEF CatalogApps
<1> HIDE DEF env
<1>7. Rendered(s, p, v)
  BY <1>4, <1>5, <1>6 DEF Rendered
<1> QED
  BY <1>1, <1>7, RefusedResolved DEF Resolved

(* The rendering for one provider, with a key that passed the binding's    *)
(* checks (ResolveLaunchStrategyForMode).                                  *)
LEMMA SingleRendered ==
  ASSUME NEW p, p.app \in Apps \ CatalogApps, p.provider \in Slugs,
         NEW k \in Keys \cup {None}, NEW v, BindingRefusal(p, k, v) = ""
  PROVE  Rendered(Render(p, IF Contracts[p.app].injects THEN k ELSE None, v), p, v)
<1> DEFINE given == IF Contracts[p.app].injects THEN k ELSE None
           e == Allowed(given, v)
           r == Render(p, given, v)
<1>1. /\ k # None => CredentialCompatible(p.provider, v[k].provider)
      /\ ~(NeedsKey(p.provider) /\ Provider[p.provider].var = "")
      /\ Supports(p.app, p.provider)
  BY DEF BindingRefusal
<1>2. given \in Keys \cup {None}
  OBVIOUS
<1>3. Sound(r, p, e)
  <2> HIDE DEF given
  <2> QED BY <1>1, <1>2, RenderSound
<1>4. e \in Keys => /\ v[e].inject /\ Contracts[p.app].injects
                    /\ CredentialCompatible(p.provider, v[e].provider)
  BY <1>1, AdapterAssumption DEF Allowed
<1>5. e \in Keys \cup {None}
  BY DEF Allowed
<1> HIDE DEF e, r
<1>6. OnlyKey(r.env, e) => Placed(r.env, p, v)
  BY <1>4 DEF OnlyKey, Placed
<1>7. Rendered(r, p, v)
  BY <1>3, <1>5, <1>6 DEF Rendered, Sound
<1> QED
  BY <1>7 DEF r

(* What the gate lets through is as it was, with one wire protocol. *)
LEMMA GatePasses ==
  ASSUME NEW s, NEW c, NEW p, NEW k, NEW mode, Gate(s, c, p, k, mode).ok
  PROVE  Gate(s, c, p, k, mode) = s /\ TransportValid(s.env, s.transport)
BY RefusedIs DEF Gate, GateValid

(* A profile's own variables have no secret. *)
LEMMA BehindKept ==
  ASSUME NEW env, NEW names, NEW p, Behind(env)
  PROVE  Behind(Without(env, names)) /\ Behind(OwnEnv(p) ++ env)
<1>1. Behind(Without(env, names))
  BY DEF Behind, Without, Restrict
<1>2. \A n \in DOMAIN OwnEnv(p) :
        (\A j \in Keys : OwnEnv(p)[n] \notin RawSecrets(j)) /\ OwnEnv(p)[n] # BridgeToken
  BY PlainValues, NotToken DEF OwnEnv
<1> DEFINE own == OwnEnv(p)
<1>3. \A n \in DOMAIN own :
        (\A j \in Keys : own[n] \notin RawSecrets(j)) /\ own[n] # BridgeToken
  BY <1>2
<1> HIDE DEF own
<1>4. Behind(own ++ env)
  BY <1>3 DEF Behind, ++
<1> QED
  BY <1>1, <1>4 DEF own

(* Stripping, overlaying and the gate keep what the rendering promised. *)
LEMMA FinishedResolved ==
  ASSUME NEW s, NEW p, NEW k, NEW v, NEW mode, Rendered(s, p, v)
  PROVE  Resolved(Finished(s, p, k, mode), p, v)
<1> SUFFICES ASSUME Finished(s, p, k, mode).ok
             PROVE  Resolved(Finished(s, p, k, mode), p, v)
    BY DEF Resolved, Rendered
<1> DEFINE c == Contracts[p.app]
           var == Provider[p.provider].var
           stripped == IF c.injects THEN s ELSE [s EXCEPT !.env = Without(@, {var})]
           overlaid == Overlaid(stripped, p)
           finished == Finished(s, p, k, mode)
<1>1. s.ok /\ overlaid.ok /\ finished = Gate(overlaid, c, p, k, mode)
  BY RefusedIs DEF Finished
<1>2. finished = overlaid /\ TransportValid(overlaid.env, overlaid.transport)
  BY <1>1, GatePasses
<1>3. /\ DOMAIN s = StrategyFields /\ Placed(s.env, p, v)
      /\ s.bridge # None => p.app = "claude" /\ s.bridge \in Keys /\ Behind(s.env)
      /\ p.app = "free-claude" => s.transport \in {"openai chat", "anthropic messages"}
  BY <1>1 DEF Rendered
<1> HIDE DEF c, finished
<1>4. /\ DOMAIN stripped = StrategyFields /\ Placed(stripped.env, p, v)
      /\ stripped.bridge = s.bridge /\ stripped.transport = s.transport
      /\ s.bridge # None => Behind(stripped.env)
  <2>1. CASE c.injects
    BY <1>3, <2>1
  <2>2. CASE ~c.injects
    <3>1. /\ DOMAIN stripped = StrategyFields /\ stripped.env = Without(s.env, {var})
          /\ stripped.bridge = s.bridge /\ stripped.transport = s.transport
      BY <1>3, <2>2 DEF StrategyFields
    <3> HIDE DEF stripped, var
    <3>2. Placed(Without(s.env, {var}), p, v)
      BY <1>3, WithoutPlaced
    <3>3. s.bridge # None => Behind(Without(s.env, {var}))
      BY <1>3, BehindKept
    <3> QED BY <3>1, <3>2, <3>3
  <2> QED BY <2>1, <2>2
<1>5. overlaid = [stripped EXCEPT !.env = OwnEnv(p) ++ @]
  BY <1>1, RefusedIs DEF Overlaid
<1> HIDE DEF stripped, overlaid
<1>6. /\ DOMAIN overlaid = StrategyFields /\ overlaid.env = OwnEnv(p) ++ stripped.env
      /\ overlaid.bridge = s.bridge /\ overlaid.transport = s.transport
  BY <1>4, <1>5 DEF StrategyFields
<1>7. Placed(OwnEnv(p) ++ stripped.env, p, v)
  <2>1. Placed(OwnEnv(p), p, v)
    BY OwnPlain, PlainPlaced
  <2> QED BY <1>4, <2>1, OverPlaced
<1>8. s.bridge # None => Behind(OwnEnv(p) ++ stripped.env)
  BY <1>4, BehindKept
<1>9. Resolved(overlaid, p, v)
  BY <1>2, <1>3, <1>6, <1>7, <1>8 DEF Resolved, Rendered
<1> QED
  BY <1>2, <1>9 DEF finished

(* What the resolver lets through, for every profile, key and vault        *)
(* (ResolveLaunchStrategyCatalog).                                         *)
LEMMA ResolveResolved ==
  ASSUME NEW p, p.app \in Apps, p.provider \in Slugs, NEW k \in Keys \cup {None},
         NEW v, NEW mode
  PROVE  Resolved(Resolve(p, k, v, mode), p, v)
<1>1. CASE p.app \in CatalogApps
  BY <1>1, CatalogRendered, FinishedResolved DEF Resolve
<1>2. CASE p.app \notin CatalogApps /\ BindingRefusal(p, k, v) # ""
  BY <1>2, RefusedResolved DEF Resolve, ResolveSingle
<1>3. CASE p.app \notin CatalogApps /\ BindingRefusal(p, k, v) = ""
  <2> DEFINE s == Render(p, IF Contracts[p.app].injects THEN k ELSE None, v)
  <2>1. Rendered(s, p, v)
    BY <1>3, SingleRendered
  <2>2. Resolve(p, k, v, mode) = Finished(s, p, k, mode)
    BY <1>3 DEF Resolve, ResolveSingle
  <2> HIDE DEF s
  <2> QED BY <2>1, <2>2, FinishedResolved
<1> QED
  BY <1>1, <1>2, <1>3

(* Another command changes nothing of it. *)
LEMMA OverriddenResolved ==
  ASSUME NEW plan, NEW seen, Resolved(plan, launch.of, seen)
  PROVE  Resolved(Overridden(plan, seen), launch.of, seen)
<1> DEFINE p == launch.of
           replaced == [plan EXCEPT !.command = launch.typed]
           again == Gate(replaced, Contracts[p.app], p, p.key, "run")
           made == Overridden(plan, seen)
<1>1. plan.ok => Resolved(replaced, p, seen)
  <2> SUFFICES ASSUME plan.ok PROVE Resolved(replaced, p, seen)
      OBVIOUS
  <2>1. DOMAIN plan = StrategyFields
    BY DEF Resolved, Rendered
  <2>2. /\ DOMAIN replaced = StrategyFields /\ replaced.ok = plan.ok /\ replaced.env = plan.env
        /\ replaced.bridge = plan.bridge /\ replaced.transport = plan.transport
    BY <2>1 DEF StrategyFields
  <2> HIDE DEF replaced
  <2> QED BY <2>2 DEF Resolved, Rendered
<1>2. again.ok => again = replaced
  BY GatePasses
<1>3. plan.ok => Resolved(again, p, seen)
  <2> HIDE DEF again, replaced
  <2> QED BY <1>1, <1>2 DEF Resolved, Rendered
<1>4. \/ made = plan \/ (plan.ok /\ made = replaced)
      \/ (plan.ok /\ made = again) \/ made = Refused("override")
  <2> HIDE DEF again, replaced
  <2>1. ~plan.ok \/ launch.typed = "" => made = plan
    BY DEF Overridden
  <2> DEFINE surface == launch.surface
             instead == IF plan.command = "" THEN replaced ELSE plan
             typed == IF Contracts[p.app].arbitrary THEN again ELSE Refused("override")
  <2>2. ~(~plan.ok \/ launch.typed = "") =>
          made = CASE surface = "run" -> replaced [] surface = "launch" -> instead
                   [] surface = "tui" -> typed [] OTHER -> plan
    BY DEF Overridden, again, replaced
  <2>3. (instead = replaced \/ instead = plan) /\ (typed = again \/ typed = Refused("override"))
    OBVIOUS
  <2> HIDE DEF made, instead, typed, surface
  <2> QED BY <2>1, <2>2, <2>3
<1> HIDE DEF made, again, replaced
<1> QED
  BY <1>1, <1>3, <1>4, RefusedResolved DEF made

-----------------------------------------------------------------------------
(* The plan of a launch, from the resolver to the child. *)

(* What inherit_env brings decides nothing of how a child speaks to its provider *)
InheritsNoTransport == Inherited \cap (OpenAITransport \cup AnthropicTransport) = {}

WithPlan(plan, seen) ==
  /\ DOMAIN plan = StrategyFields /\ plan.bridge = None
  /\ \A n \in DOMAIN plan.env : \A j \in Keys : plan.env[n] \in RawSecrets(j) => seen[j].inject

PlanInv ==
    /\ DOMAIN launch = Fields
    /\ profile \in Drafts \cup {None}
    /\ launch.stage = "read" => launch.surface # "with"
    /\ launch.stage \in {"read", "resolved"} /\ launch.surface # "with" => launch.of \in Drafts
    /\ launch.stage = "resolved" =>
         IF launch.surface = "with" THEN WithPlan(launch.plan, launch.seen)
         ELSE launch.plan.ok /\ Resolved(launch.plan, launch.of, launch.seen)

(* Nothing is resolved at first. *)
LEMMA PlanInit == Init => PlanInv
BY NoLaunchFields DEF Init, PlanInv

(* What `with` resolves. *)
LEMMA WithFields ==
  ASSUME NEW names, NEW f \in [names -> Keys], With(f)
  PROVE  DOMAIN launch' = Fields /\ launch'.surface = "with" /\ launch'.stage = "resolved"
         /\ WithPlan(launch'.plan, launch'.seen) /\ Stored
<1> DEFINE env == [n \in DOMAIN f |-> Secret(f[n])]
           plan == Strategy("tool", env, {})
           new == [NoLaunch EXCEPT !.surface = "with", !.seen = vault, !.stage = "resolved",
                                   !.plan = plan]
<1>1. launch' = new
  BY DEF With
<1>2. DOMAIN plan = StrategyFields /\ plan.env = env /\ plan.bridge = None
  BY DEF Strategy, StrategyFields
<1>3. \A n \in DOMAIN env : \A j \in Keys : env[n] \in RawSecrets(j) => vault[j].inject
  BY SecretValues DEF With
<1> HIDE DEF plan, env
<1>4. /\ DOMAIN new = Fields /\ new.surface = "with" /\ new.stage = "resolved"
      /\ new.plan = plan /\ new.seen = vault
  BY NoLaunchFields DEF Fields
<1> HIDE DEF new
<1> QED
  BY <1>1, <1>2, <1>3, <1>4 DEF WithPlan, With

(* Every step keeps it: a plan comes from the resolver or from `with`, and *)
(* what follows hands it on or gives it up.                                *)
LEMMA PlanStep == PlanInv /\ [Next]_vars => PlanInv'
<1> SUFFICES ASSUME PlanInv, [Next]_vars PROVE PlanInv'
    OBVIOUS
<1> DEFINE LaunchPart ==
    /\ DOMAIN launch = Fields
    /\ launch.stage = "read" => launch.surface # "with"
    /\ launch.stage \in {"read", "resolved"} /\ launch.surface # "with" => launch.of \in Drafts
    /\ launch.stage = "resolved" =>
         IF launch.surface = "with" THEN WithPlan(launch.plan, launch.seen)
         ELSE launch.plan.ok /\ Resolved(launch.plan, launch.of, launch.seen)
<1>0. /\ LaunchPart /\ profile \in Drafts \cup {None}
      /\ PlanInv' <=> (LaunchPart' /\ profile' \in Drafts \cup {None})
    BY DEF PlanInv
<1> SUFFICES LaunchPart' /\ profile' \in Drafts \cup {None}
    BY <1>0
<1>1. CASE Apart
  <2>1. profile' \in Drafts \cup {None}
    BY <1>0, <1>1 DEF Apart, Create, WizardSave, SavesChecked, EditProfile, Upgrade, Decrypt,
       DeleteProfile, ChangeKey, Saves, vars
  <2>2. launch' = launch
    BY <1>1, ApartKeepsLaunch
  <2> QED BY <1>0, <2>1, <2>2
<1>2. ASSUME Stored PROVE profile' \in Drafts \cup {None}
  BY <1>0, <1>2 DEF Stored
<1>3. ASSUME NEW p \in Drafts, SavePanics(p)
      PROVE  LaunchPart' /\ profile' \in Drafts \cup {None}
  BY <1>0, <1>3, NoLaunchFields DEF SavePanics, Fields
<1>4. ASSUME NEW surface \in {"run", "launch", "tui", "env"}, NEW typed, Begin(surface, typed)
      PROVE  LaunchPart' /\ profile' \in Drafts \cup {None}
  <2> DEFINE new == [NoLaunch EXCEPT !.stage = "read", !.surface = surface, !.of = profile,
                    !.typed = typed, !.seen = IF surface = "tui" THEN vault ELSE None]
  <2>1. DOMAIN new = Fields /\ new.stage = "read" /\ new.surface = surface /\ new.of = profile
    BY NoLaunchFields DEF Fields
  <2>2. launch' = new /\ profile \in Drafts /\ Stored
    BY <1>0, <1>4 DEF Begin
  <2> HIDE DEF new
  <2> QED BY <1>2, <2>1, <2>2
<1>5. ASSUME NEW names, NEW f \in [names -> Keys], With(f)
      PROVE  LaunchPart' /\ profile' \in Drafts \cup {None}
  BY <1>2, <1>5, WithFields
<1>6. ASSUME NEW stays, NEW why, RefuseLeaving(stays, why) PROVE LaunchPart'
  BY <1>6, RefusedFields
<1>7. CASE Resolves
  <2>0. DOMAIN launch = Fields /\ Stored
    BY <1>7 DEF PlanInv, Resolves
  <2>1. CASE \E why : Refuse(why)
    <3> HIDE DEF LaunchPart
    <3> QED BY <1>2, <1>6, <2>0, <2>1 DEF Refuse
  <2>2. CASE ~\E why : Refuse(why)
    <3>1. /\ launch.stage = "read" /\ Stored /\ PlanMade.ok
          /\ Same({"seen", "plan", "stage"})
          /\ launch'.seen = SeenBy /\ launch'.plan = PlanMade
      BY <1>0, <1>7, <2>2, ResolvesFields
    <3>2. launch.of \in Drafts /\ launch.surface # "with"
      BY <1>0, <3>1
    <3>3. launch.of.app \in Apps /\ launch.of.provider \in Slugs /\ launch.of.key \in Keys \cup {None}
      BY <3>2, LaunchAssumption
    <3>4. Resolved(PlanMade, launch.of, SeenBy)
      BY <3>3, ResolveResolved, OverriddenResolved DEF PlanMade
    <3>5. launch'.of = launch.of /\ launch'.surface = launch.surface /\ DOMAIN launch' = Fields
      BY <3>1 DEF Same, Fields
    <3>6. launch'.stage # "read"
      BY <1>0, <1>7, <2>2, ResolvesFields
    <3> QED BY <1>2, <3>1, <3>2, <3>4, <3>5, <3>6
  <2> QED BY <2>1, <2>2
<1>8. CASE Execute
  BY <1>0, <1>2, <1>8, ExecuteFields, NoExecutor
<1>9. CASE Prepare
  <2>1. DOMAIN launch = Fields /\ Stored
    BY <1>9 DEF PlanInv, Prepare
  <2>2. \/ \E stays, why : RefuseLeaving(stays, why)
        \/ launch'.stage = "running" /\ DOMAIN launch' = Fields
    BY <1>9, <2>1, PrepareFields DEF Same
  <2>3. CASE \E stays, why : RefuseLeaving(stays, why)
    <3> HIDE DEF LaunchPart
    <3> QED BY <1>2, <1>6, <2>1, <2>3
  <2>4. CASE launch'.stage = "running" /\ DOMAIN launch' = Fields
    BY <1>2, <2>1, <2>4
  <2> QED BY <2>2, <2>3, <2>4
<1>10. ASSUME NEW stays \in SUBSET {"unrestored"},
              Forgotten(stays) \/ \E well \in BOOLEAN : Finish(well, stays)
      PROVE  LaunchPart' /\ profile' \in Drafts \cup {None}
  BY <1>2, <1>10, EndFields
<1> HIDE DEF LaunchPart
<1> QED
  BY <1>1, <1>3, <1>4, <1>5, <1>7, <1>8, <1>9, <1>10, StepKinds DEF Starts, Goes

(* A launch that is running is the one it was, or has just been prepared.  *)
LEMMA RunningSince ==
    ASSUME DOMAIN launch = Fields, [Next]_vars, Running'
    PROVE  \/ launch' = launch
           \/ /\ launch.stage = "resolved" /\ launch'.surface = launch.surface
              /\ launch'.of = launch.of /\ launch'.seen = launch.seen
              /\ launch'.plan = Bridged(launch.plan)
              /\ launch'.child = ChildEnv(Bridged(launch.plan), ContractOf(launch),
                                          InheritedBy(launch))
              /\ launch'.bridge = (Bridged(launch.plan).bridge # None)
<1>1. CASE Apart
    BY <1>1, ApartKeepsLaunch
<1>2. CASE Starts
    BY <1>2, NoLaunchFields DEF Starts, SavePanics, Begin, With, Fields, Running
<1>3. ASSUME NEW stays, NEW why PROVE ~RefuseLeaving(stays, why)
    BY RefusedFields DEF Running
<1>4. CASE Resolves
    BY <1>3, <1>4, ResolvesFields DEF Running, Refuse
<1>5. CASE Execute
    BY <1>5, ExecuteFields DEF Same, Fields, Running
<1>6. CASE Prepare
    BY <1>3, <1>6, PrepareFields DEF Same, Fields
<1>7. ASSUME NEW stays \in SUBSET {"unrestored"}
      PROVE  ~(Forgotten(stays) \/ \E well \in BOOLEAN : Finish(well, stays))
    BY EndFields DEF Running
<1> QED
    BY <1>1, <1>2, <1>4, <1>5, <1>6, <1>7, StepKinds DEF Goes

BridgeEnv == [ANTHROPIC_BASE_URL |-> Text("bridge url"),
              ANTHROPIC_API_KEY |-> Text("bridge token"),
              ANTHROPIC_AUTH_TOKEN |-> Text("bridge token")]

(* What Prepare puts over the plan of a bridged child. *)
LEMMA BridgeEnvIs ==
  /\ DOMAIN BridgeEnv = AnthropicTransport
  /\ BridgeEnv["ANTHROPIC_BASE_URL"] = Text("bridge url")
  /\ \A n \in DOMAIN BridgeEnv : BridgeEnv[n] \in {Text("bridge url"), Text("bridge token")}
<1>1. DOMAIN BridgeEnv = AnthropicTransport
  BY DEF BridgeEnv, AnthropicTransport
<1>2. BridgeEnv["ANTHROPIC_BASE_URL"] = Text("bridge url")
  BY DEF BridgeEnv
<1>3. BridgeEnv["ANTHROPIC_API_KEY"] = Text("bridge token")
  BY DEF BridgeEnv
<1>4. BridgeEnv["ANTHROPIC_AUTH_TOKEN"] = Text("bridge token")
  BY DEF BridgeEnv
<1> QED
  BY <1>1, <1>2, <1>3, <1>4 DEF AnthropicTransport

(* A plan without a bridge stays as it is. *)
LEMMA BridgedIs ==
  ASSUME NEW plan, DOMAIN plan = StrategyFields
  PROVE  /\ Bridged(plan).bridge = plan.bridge
         /\ plan.bridge = None => Bridged(plan) = plan
         /\ plan.bridge # None => Bridged(plan).env = BridgeEnv ++ plan.env
<1>1. CASE plan.bridge = None
  BY <1>1 DEF Bridged
<1>2. CASE plan.bridge # None
  <2>1. Bridged(plan) = [plan EXCEPT !.env = BridgeEnv ++ @]
    BY <1>2 DEF Bridged, BridgeEnv
  <2> QED BY <1>2, <2>1 DEF StrategyFields
<1> QED
  BY <1>1, <1>2

(* A value a child has is the parent's or its plan's. *)
LEMMA ChildValue ==
  ASSUME NEW s, NEW c, NEW given, NEW n \in DOMAIN ChildEnv(s, c, given)
  PROVE  \/ ChildEnv(s, c, given)[n] = FromParent(n)
         \/ n \in DOMAIN s.env /\ ChildEnv(s, c, given)[n] = s.env[n]
<1>1. CASE n \in given
  BY <1>1, ChildEnvValues
<1>2. CASE n \in DOMAIN s.env \ given
  <2>1. IF s.env[n] = Unset THEN n \notin DOMAIN ChildEnv(s, c, given)
                ELSE n \in DOMAIN ChildEnv(s, c, given) /\ ChildEnv(s, c, given)[n] = s.env[n]
    BY <1>2, ChildEnvValues
  <2> QED BY <1>2, <2>1
<1>3. CASE n \notin DOMAIN s.env \cup given
  BY <1>3, ChildEnvValues
<1> QED
  BY <1>1, <1>2, <1>3

SecretsInv == PlanInv /\ SecretsInPlace

(* A child that starts has what the plan has, and the bridge's address. *)
LEMMA SecretsStep == SecretsInv /\ [Next]_vars => SecretsInv'
<1> SUFFICES ASSUME SecretsInv, [Next]_vars PROVE SecretsInPlace'
    BY PlanStep DEF SecretsInv
<1> SUFFICES ASSUME Running', NEW n \in DOMAIN launch'.child, NEW j \in Keys,
                    launch'.child[n] \in RawSecrets(j)
             PROVE  /\ launch'.seen[j].inject
                    /\ launch'.surface # "with" =>
                         /\ Contracts[launch'.of.app].injects
                         /\ \E s \in CatalogProviders(launch'.of.app) \cup {launch'.of.provider} :
                              CredentialCompatible(s, launch'.seen[j].provider)
    BY DEF SecretsInPlace, KeyOf
<1>1. CASE launch' = launch
  BY <1>1 DEF SecretsInv, SecretsInPlace, KeyOf, Running
<1>2. CASE launch' # launch
  <2> DEFINE plan == launch.plan
             bridged == Bridged(plan)
             c == ContractOf(launch)
             given == InheritedBy(launch)
  <2>1. /\ launch.stage = "resolved" /\ launch'.surface = launch.surface
        /\ launch'.of = launch.of /\ launch'.seen = launch.seen
        /\ launch'.child = ChildEnv(bridged, c, given)
    BY <1>2, RunningSince DEF SecretsInv, PlanInv
  <2>2. DOMAIN plan = StrategyFields
    BY <2>1 DEF SecretsInv, PlanInv, WithPlan, Resolved, Rendered
  <2>3. n \in DOMAIN bridged.env /\ bridged.env[n] \in RawSecrets(j)
    <3> HIDE DEF bridged, c, given
    <3>1. FromParent(n) \notin RawSecrets(j)
      BY PlainValues
    <3>2. n \in DOMAIN ChildEnv(bridged, c, given) /\ ChildEnv(bridged, c, given)[n] \in RawSecrets(j)
      BY <2>1
    <3> QED BY <3>1, <3>2, ChildValue
  <2>4. n \in DOMAIN plan.env /\ plan.env[n] \in RawSecrets(j)
    <3>1. CASE plan.bridge = None
      BY <2>2, <2>3, <3>1, BridgedIs
    <3>2. CASE plan.bridge # None
      <4>1. bridged.env = BridgeEnv ++ plan.env
        BY <2>2, <3>2, BridgedIs
      <4>2. n \notin DOMAIN BridgeEnv
        <5>1. n \in DOMAIN BridgeEnv => bridged.env[n] = BridgeEnv[n]
          BY <4>1 DEF ++
        <5> QED BY <2>3, <5>1, BridgeEnvIs, PlainValues
      <4> QED BY <2>3, <4>1, <4>2 DEF ++
    <3> QED BY <3>1, <3>2
  <2>5. CASE launch.surface = "with"
    BY <2>1, <2>4, <2>5 DEF SecretsInv, PlanInv, WithPlan
  <2>6. CASE launch.surface # "with"
    <3>1. Placed(plan.env, launch.of, launch.seen)
      BY <2>1, <2>6 DEF SecretsInv, PlanInv, Resolved, Rendered
    <3> QED BY <2>1, <2>4, <3>1 DEF Placed
  <2> QED BY <2>5, <2>6
<1> QED
  BY <1>1, <1>2

(* A secret in a child's environment may be injected, was kept for no      *)
(* provider or belongs with one the app was told of, and went to an app    *)
(* that takes secrets, whatever the vault, the profile and the shell, for  *)
(* every registry that RegistryAssumption allows (buildBaseEnv,            *)
(* buildCatalogProviders).                                                 *)
THEOREM SecretsAlwaysInPlace == Spec => []SecretsInPlace
<1>1. Init => SecretsInv
  BY PlanInit, NoLaunchFields DEF Init, SecretsInv, SecretsInPlace, Running
<1>2. SecretsInv => SecretsInPlace
  BY DEF SecretsInv
<1> QED
  BY <1>1, <1>2, SecretsStep, PTL DEF Spec

BridgedInv == PlanInv /\ BridgedKnowsBridge

(* The bridge's variables are over the plan's, and nothing inherited is    *)
(* over them.                                                              *)
LEMMA BridgedStep == InheritsNoTransport /\ BridgedInv /\ [Next]_vars => BridgedInv'
<1> SUFFICES ASSUME InheritsNoTransport, BridgedInv, [Next]_vars PROVE BridgedKnowsBridge'
    BY PlanStep DEF BridgedInv
<1> SUFFICES ASSUME Running', launch'.plan.bridge # None
             PROVE  /\ launch'.bridge
                    /\ launch'.child["ANTHROPIC_BASE_URL"] = Text("bridge url")
                    /\ \A n \in DOMAIN launch'.child :
                         /\ launch'.child[n] \notin RawSecrets(launch'.plan.bridge)
                         /\ launch'.child[n] # BridgeToken
    BY DEF BridgedKnowsBridge
<1>1. CASE launch' = launch
  BY <1>1 DEF BridgedInv, BridgedKnowsBridge, Running
<1>2. CASE launch' # launch
  <2> DEFINE plan == launch.plan
             bridged == Bridged(plan)
             c == ContractOf(launch)
             given == InheritedBy(launch)
             url == "ANTHROPIC_BASE_URL"
  <2>1. /\ launch.stage = "resolved" /\ launch'.plan = bridged
        /\ launch'.bridge = (bridged.bridge # None)
        /\ launch'.child = ChildEnv(bridged, c, given)
    BY <1>2, RunningSince DEF BridgedInv, PlanInv
  <2>2. DOMAIN plan = StrategyFields
    BY <2>1 DEF BridgedInv, PlanInv, WithPlan, Resolved, Rendered
  <2>3. plan.bridge # None /\ bridged.bridge = plan.bridge /\ bridged.env = BridgeEnv ++ plan.env
    BY <2>1, <2>2, BridgedIs
  <2>4. plan.bridge \in Keys /\ Behind(plan.env)
    BY <2>1, <2>3 DEF BridgedInv, PlanInv, WithPlan, Resolved, Rendered
  <2> HIDE DEF bridged, c, plan
  <2>5. url \in DOMAIN bridged.env /\ bridged.env[url] = Text("bridge url")
    BY <2>3, BridgeEnvIs DEF ++, AnthropicTransport
  <2>6. Text("bridge url") # Unset
    BY DEF Text, Unset
  <2>7. url \notin given
    BY DEF InheritsNoTransport, AnthropicTransport, InheritedBy
  <2> HIDE DEF given
  <2>8. ChildEnv(bridged, c, given)[url] = Text("bridge url")
    <3>1. \A n \in DOMAIN bridged.env \ given :
                IF bridged.env[n] = Unset THEN n \notin DOMAIN ChildEnv(bridged, c, given)
                ELSE n \in DOMAIN ChildEnv(bridged, c, given) /\ ChildEnv(bridged, c, given)[n] = bridged.env[n]
      BY ChildEnvValues
    <3> QED BY <2>5, <2>6, <2>7, <3>1
  <2>9. ASSUME NEW n \in DOMAIN bridged.env
        PROVE  bridged.env[n] \notin RawSecrets(plan.bridge) /\ bridged.env[n] # BridgeToken
    <3>1. CASE n \in DOMAIN BridgeEnv
      <4>1. bridged.env[n] \in {Text("bridge url"), Text("bridge token")}
        BY <2>3, <3>1, BridgeEnvIs DEF ++
      <4> QED BY <4>1, PlainValues, NotToken
    <3>2. CASE n \notin DOMAIN BridgeEnv
      <4>1. n \in DOMAIN plan.env \ AnthropicTransport /\ bridged.env[n] = plan.env[n]
        BY <2>3, <2>9, <3>2, BridgeEnvIs DEF ++
      <4> QED BY <2>4, <4>1 DEF Behind
    <3> QED BY <3>1, <3>2
  <2>10. ASSUME NEW n \in DOMAIN ChildEnv(bridged, c, given)
         PROVE  /\ ChildEnv(bridged, c, given)[n] \notin RawSecrets(plan.bridge)
                /\ ChildEnv(bridged, c, given)[n] # BridgeToken
    <3>1. FromParent(n) \notin RawSecrets(plan.bridge) /\ FromParent(n) # BridgeToken
      BY PlainValues, NotToken
    <3> QED BY <2>9, <2>10, <3>1, ChildValue
  <2> QED BY <2>1, <2>3, <2>8, <2>10
<1> QED
  BY <1>1, <1>2

(* A child behind the bridge has the bridge's address and token and        *)
(* nowhere the key behind it, unless the user lets it inherit an address   *)
(* of its own (PrepareCommandWithCleanup, appendInheritedEnv).             *)
THEOREM BridgedAlwaysKnowsBridge == InheritsNoTransport /\ Spec => []BridgedKnowsBridge
<1> SUFFICES ASSUME InheritsNoTransport
             PROVE  Spec => []BridgedKnowsBridge
    OBVIOUS
<1>1. Init => BridgedInv
  BY PlanInit, NoLaunchFields DEF Init, BridgedInv, BridgedKnowsBridge, Running
<1>2. BridgedInv => BridgedKnowsBridge
  BY DEF BridgedInv
<1> QED
  BY <1>1, <1>2, BridgedStep, PTL DEF Spec

OneInv == PlanInv /\ OneTransport

(* What the gate saw of the two protocols is all the child has of them. *)
LEMMA OneStep == InheritsNoTransport /\ OneInv /\ [Next]_vars => OneInv'
<1> SUFFICES ASSUME InheritsNoTransport, OneInv, [Next]_vars PROVE OneTransport'
    BY PlanStep DEF OneInv
<1> SUFFICES ASSUME Running', launch'.surface # "with", launch'.of.app = "free-claude"
             PROVE  OneTransport'
    BY DEF OneTransport
<1>1. CASE launch' = launch
  BY <1>1 DEF OneInv, OneTransport, Running, Carries
<1>2. CASE launch' # launch
  <2> DEFINE plan == launch.plan
             c == ContractOf(launch)
             given == InheritedBy(launch)
  <2>1. /\ launch.stage = "resolved" /\ launch'.surface = launch.surface /\ launch'.of = launch.of
        /\ launch'.child = ChildEnv(Bridged(plan), c, given)
    BY <1>2, RunningSince DEF OneInv, PlanInv
  <2>2. /\ DOMAIN plan = StrategyFields /\ plan.bridge = None
        /\ plan.transport \in {"openai chat", "anthropic messages"}
        /\ TransportValid(plan.env, plan.transport)
    BY <2>1 DEF OneInv, PlanInv, Resolved, Rendered
  <2>3. launch'.child = ChildEnv(plan, c, given)
    BY <2>1, <2>2, BridgedIs
  <2> HIDE DEF plan, c
  <2>4. ASSUME NEW n \in OpenAITransport \cup AnthropicTransport, n \in DOMAIN launch'.child
        PROVE  Has(plan.env, n)
    <3>1. n \notin given
      BY DEF InheritsNoTransport, InheritedBy
    <3>2. n \notin Allowlist(c)
      BY LaunchPlanAssumption DEF Allowlist
    <3> QED BY <2>3, <2>4, <3>1, <3>2, ChildEnvValues DEF Has
  <2>5. \/ \A n \in AnthropicTransport : n \notin DOMAIN launch'.child
        \/ \A n \in OpenAITransport : n \notin DOMAIN launch'.child
    BY <2>2, <2>4 DEF TransportValid
  <2> QED BY <2>5 DEF OneTransport, Carries, OpenAITransport, AnthropicTransport
<1> QED
  BY <1>1, <1>2

(* A free-code child has the variables of one wire protocol and none of    *)
(* the other's credentials, unless the user lets it inherit them           *)
(* (validateTransport, appendInheritedEnv).                                *)
THEOREM AlwaysOneTransport == InheritsNoTransport /\ Spec => []OneTransport
<1> SUFFICES ASSUME InheritsNoTransport
             PROVE  Spec => []OneTransport
    OBVIOUS
<1>1. Init => OneInv
  BY PlanInit, NoLaunchFields DEF Init, OneInv, OneTransport, Running
<1>2. OneInv => OneTransport
  BY DEF OneInv
<1> QED
  BY <1>1, <1>2, OneStep, PTL DEF Spec

-----------------------------------------------------------------------------
(* The bridge of one launch, a specification of its own (Bridge.tla):      *)
(* nothing above is about its variables and nothing below about others.    *)

(* The bridge is out of use once its Close has returned, for any number of *)
(* connections: Shutdown has waited for all of them, and a connection that *)
(* is not there or has been closed takes no step while the server is not   *)
(* listening.                                                              *)
Quietly ==
    /\ host \in {"running", "closing", "returned"}
    /\ at \in [Requests -> Places]
    /\ host = "returned" => Quiet

(* It holds before anybody has connected.                                  *)
LEMMA QuietlyInit == BridgeInit => Quietly
BY DEF BridgeInit, Quietly, Places

(* A connection that is over, where no new ones are taken, takes no step. *)
LEMMA OverForGood ==
    ASSUME NEW r \in Requests, host # "running", at[r] \in {"none", "closed"}
    PROVE  ~(Serve(r) \/ Others(r))
BY DEF Serve, Check, StreamCall, Cancelled, Cancels, DropHeader, DropIdle, Others,
   Connect, SendHeader, ReceiveBody, Drained, Leave, UpstreamAnswers, StreamChunk, StreamEnds

(* Every step of a connection is a step of that connection alone. *)
LEMMA Alone ==
    ASSUME Quietly, NEW r \in Requests, Serve(r) \/ Others(r)
    PROVE  /\ host' = host
           /\ at' \in [Requests -> Places]
<1>1. CASE at' = at /\ host' = host
    BY <1>1 DEF Quietly
<1>2. ASSUME NEW place \in Places, Goto(r, place), host' = host
      PROVE  host' = host /\ at' \in [Requests -> Places]
    BY <1>2 DEF Quietly, Goto
<1>3. CASE Serve(r)
    BY <1>1, <1>2, <1>3
    DEF Serve, Check, StreamCall, Answer, Rests, Cancelled, DropHeader, DropIdle, Places
<1>4. CASE Connect(r) \/ SendHeader(r) \/ ReceiveBody(r) \/ Drained(r)
    BY <1>2, <1>4 DEF Connect, SendHeader, ReceiveBody, Drained, Answer, Rests, Places
<1>5. CASE Leave(r) \/ StreamChunk(r)
    BY <1>1, <1>5 DEF Leave, StreamChunk
<1>6. CASE UpstreamAnswers(r) \/ StreamEnds(r)
    BY <1>2, <1>6 DEF UpstreamAnswers, StreamEnds, Answer, Rests, Places
<1> QED
    BY <1>3, <1>4, <1>5, <1>6 DEF Others

(* Every step keeps it: who is over is over for good.                      *)
LEMMA QuietlyStep == Quietly /\ [BridgeNext]_(bridgeVars) => Quietly'
<1> SUFFICES ASSUME Quietly, [BridgeNext]_(bridgeVars) PROVE Quietly'
    OBVIOUS
<1>1. CASE ChildEnds
    BY <1>1 DEF ChildEnds, Quietly
<1>2. CASE ShutdownReturns
    BY <1>2 DEF ShutdownReturns, Quietly, Quiet
<1>3. ASSUME NEW r \in Requests, Serve(r) \/ Others(r)
      PROVE  Quietly'
    <2>1. host = "returned" => FALSE
        BY <1>3, OverForGood DEF Quietly, Quiet
    <2> QED
        BY <1>3, <2>1, Alone DEF Quietly
<1>4. CASE UNCHANGED bridgeVars
    BY <1>4 DEF bridgeVars, Quietly, Quiet
<1> QED
    BY <1>1, <1>2, <1>3, <1>4 DEF BridgeNext

(* When Close has returned no handler runs and none will: the provider's   *)
(* key is out of use before the application's files are put back.          *)
THEOREM AlwaysSilentAfterClose == BridgeSpec => []SilentAfterClose
<1>1. Quietly => SilentAfterClose
    BY DEF Quietly, Quiet, SilentAfterClose, InHandler
<1> QED
    BY <1>1, QuietlyInit, QuietlyStep, PTL DEF BridgeSpec

-----------------------------------------------------------------------------
(* What the bridge makes of a stream, for any chunks of upstream.          *)

(* What a client is sent. *)
Events == [type : {"message_start", "start", "delta", "stop", "message_delta", "message_stop"},
           index : Nat, kind : {"", "text", "tool", "end_turn", "tool_use"}]

(* Where the events of a type are, and the blocks that are open. *)
Pos(s, type) == {i \in 1..Len(s) : s[i].type = type}
Open(s, b, kind) == \E i \in Pos(s, "start") : s[i].index = b /\ s[i].kind = kind
TextCameFirst(s) ==
    \A i, j \in Pos(s, "start") : s[i].kind = "text" /\ j < i => s[j].kind = "text"

(* What the property says of the starts and deltas.                        *)
Once(s) == \A i, j \in Pos(s, "start") : i < j /\ s[i].index = s[j].index =>
              s[i].index = 0 /\ s[i].kind = "tool" /\ s[j].kind = "text"
NoGaps(s) == \A i \in Pos(s, "start") : \A b \in 0..s[i].index - 1 :
                \E j \in Pos(s, "start") : j < i /\ s[j].index = b
Deltas(s) == \A d \in Pos(s, "delta") : \E i \in Pos(s, "start") :
               i < d /\ s[i].index = s[d].index /\ s[i].kind = s[d].kind
Covered(s, n) == \A b \in 0..n - 1 : \E i \in Pos(s, "start") : s[i].index = b
Sent(s) == Once(s) /\ (TextCameFirst(s) => NoGaps(s)) /\ Deltas(s)

(* What was started is what the stream knows of: its text, with the index  *)
(* 0, and its calls, each with an index of its own below the next one; all *)
(* of those below that where the text came first.                          *)
First(st) == IF st.text THEN 1 ELSE 0
Known(s, st) ==
    LET n == Len(st.order)
        Index(k) == st.block[st.order[k]]
    IN /\ \A i \in Pos(s, "start") :
             \/ s[i].kind = "text" /\ s[i].index = 0 /\ st.text
             \/ s[i].kind = "tool" /\ \E k \in 1..n : s[i].index = Index(k)
       /\ st.text => Open(s, 0, "text")
       /\ \A k \in 1..n : Open(s, Index(k), "tool") /\ Index(k) < n + First(st)
       /\ \A k, l \in 1..n : Index(k) = Index(l) => k = l
       /\ TextCameFirst(s) => Covered(s, n + First(st))

(* One more event, after the others.                                       *)
LEMMA Appended ==
  ASSUME NEW s \in Seq(Events), NEW e \in Events
  PROVE  /\ Append(s, e) \in Seq(Events) /\ Len(Append(s, e)) = Len(s) + 1
         /\ \A i \in 1..Len(s) : Append(s, e)[i] = s[i]
         /\ Append(s, e)[Len(s) + 1] = e
OBVIOUS

(* It is one more of its type and none of another.                         *)
LEMMA AppendedPos ==
  ASSUME NEW s \in Seq(Events), NEW e \in Events
  PROVE  \A type : Pos(Append(s, e), type) =
                     Pos(s, type) \cup (IF e.type = type THEN {Len(s) + 1} ELSE {})
<1> DEFINE t == Append(s, e)
<1>1. /\ Len(t) = Len(s) + 1 /\ t[Len(s) + 1] = e
      /\ \A i \in 1..Len(s) : t[i] = s[i]
  BY Appended
<1> HIDE DEF t
<1>2. \A i \in 1..Len(t) : i \in 1..Len(s) \/ i = Len(s) + 1
  BY <1>1
<1>3. Len(s) + 1 \in 1..Len(t) /\ 1..Len(s) \subseteq 1..Len(t) /\ Len(s) + 1 \notin 1..Len(s)
  BY <1>1
<1>4. \A type : Pos(t, type) = Pos(s, type) \cup (IF e.type = type THEN {Len(s) + 1} ELSE {})
  BY <1>1, <1>2, <1>3 DEF Pos
<1> QED
  BY <1>4 DEF t

(* What was sent first stays so. *)
LEMMA StillFirst ==
  ASSUME NEW s \in Seq(Events), NEW e \in Events, TextCameFirst(Append(s, e))
  PROVE  TextCameFirst(s)
<1> DEFINE t == Append(s, e)
<1>1. /\ Pos(s, "start") \subseteq Pos(t, "start")
      /\ \A i \in 1..Len(s) : t[i] = s[i]
  BY Appended, AppendedPos
<1>2. Pos(s, "start") \subseteq 1..Len(s)
  BY DEF Pos
<1> QED
  BY <1>1, <1>2 DEF TextCameFirst

(* A block that is opened: its index is new, or that of the first call for *)
(* a text; with the text first it is the next one.                         *)
LEMMA AddStart ==
  ASSUME NEW s \in Seq(Events), Sent(s), NEW e \in Events, e.type = "start",
         \A i \in Pos(s, "start") : s[i].index = e.index =>
             e.index = 0 /\ s[i].kind = "tool" /\ e.kind = "text",
         TextCameFirst(Append(s, e)) => Covered(s, e.index)
  PROVE  Sent(Append(s, e))
<1> DEFINE t == Append(s, e)
           last == Len(s) + 1
<1>1. /\ Pos(t, "start") = Pos(s, "start") \cup {last}
      /\ Pos(t, "delta") = Pos(s, "delta")
      /\ \A i \in 1..Len(s) : t[i] = s[i]
      /\ t[last] = e
  <2>1. Pos(t, "start") = Pos(s, "start") \cup (IF e.type = "start" THEN {last} ELSE {})
    BY AppendedPos
  <2>2. Pos(t, "delta") = Pos(s, "delta") \cup (IF e.type = "delta" THEN {last} ELSE {})
    BY AppendedPos
  <2>3. (\A i \in 1..Len(s) : t[i] = s[i]) /\ t[last] = e
    BY Appended
  <2> HIDE DEF t, last
  <2> QED
    BY <2>1, <2>2, <2>3
<1>2. TextCameFirst(t) => TextCameFirst(s)
  BY StillFirst
<1>3. /\ Pos(s, "start") \subseteq 1..Len(s) /\ Pos(s, "delta") \subseteq 1..Len(s)
      /\ \A i \in 1..Len(s) : i < last
      /\ last \in Int /\ Pos(s, "start") \subseteq Int
  BY DEF Pos
<1> HIDE DEF t, last
<1>4. Once(t)
  <2> SUFFICES ASSUME NEW i \in Pos(t, "start"), NEW j \in Pos(t, "start"),
                      i < j, t[i].index = t[j].index
               PROVE  t[i].index = 0 /\ t[i].kind = "tool" /\ t[j].kind = "text"
    BY DEF Once
  <2>1. i \in Pos(s, "start")
    BY <1>1, <1>3
  <2>2. CASE j \in Pos(s, "start")
    BY <1>1, <1>3, <2>1, <2>2 DEF Sent, Once
  <2>3. CASE j = last
    BY <1>1, <1>3, <2>1, <2>3
  <2> QED
    BY <1>1, <2>2, <2>3
<1>5. ASSUME TextCameFirst(t) PROVE NoGaps(t)
  <2> SUFFICES ASSUME NEW i \in Pos(t, "start"), NEW b \in 0..t[i].index - 1
               PROVE  \E j \in Pos(t, "start") : j < i /\ t[j].index = b
    BY DEF NoGaps
  <2>1. CASE i \in Pos(s, "start")
    <3>1. PICK j \in Pos(s, "start") : j < i /\ s[j].index = b
      BY <1>1, <1>2, <1>3, <1>5, <2>1 DEF Sent, NoGaps
    <3> QED
      BY <1>1, <1>3, <3>1
  <2>2. CASE i = last
    <3>1. PICK j \in Pos(s, "start") : s[j].index = b
      BY <1>1, <1>5, <2>2 DEF t, Covered
    <3> QED
      BY <1>1, <1>3, <2>2, <3>1
  <2> QED
    BY <1>1, <2>1, <2>2
<1>6. Deltas(t)
  BY <1>1, <1>3 DEF Sent, Deltas
<1> QED
  BY <1>4, <1>5, <1>6 DEF Sent, t

(* A delta of a block that is open.                                        *)
LEMMA AddDelta ==
  ASSUME NEW s \in Seq(Events), NEW st, Sent(s), Known(s, st),
         NEW e \in Events, e.type = "delta", Open(s, e.index, e.kind)
  PROVE  Sent(Append(s, e)) /\ Known(Append(s, e), st)
<1> DEFINE t == Append(s, e)
           last == Len(s) + 1
<1>1. /\ Pos(t, "start") = Pos(s, "start")
      /\ Pos(t, "delta") = Pos(s, "delta") \cup {last}
      /\ \A i \in 1..Len(s) : t[i] = s[i]
      /\ t[last] = e
  <2>1. Pos(t, "start") = Pos(s, "start") \cup (IF e.type = "start" THEN {last} ELSE {})
    BY AppendedPos
  <2>2. Pos(t, "delta") = Pos(s, "delta") \cup (IF e.type = "delta" THEN {last} ELSE {})
    BY AppendedPos
  <2>3. (\A i \in 1..Len(s) : t[i] = s[i]) /\ t[last] = e
    BY Appended
  <2> HIDE DEF t, last
  <2> QED
    BY <2>1, <2>2, <2>3
<1>2. Pos(s, "start") \subseteq 1..Len(s) /\ Pos(s, "delta") \subseteq 1..Len(s)
      /\ \A i \in 1..Len(s) : i < last
  BY DEF Pos
<1> HIDE DEF t, last
<1>3. \A i \in Pos(s, "start") : t[i] = s[i]
  BY <1>1, <1>2
<1>4. TextCameFirst(t) <=> TextCameFirst(s)
  BY <1>1, <1>3 DEF TextCameFirst
<1>5. Once(t) /\ (NoGaps(s) => NoGaps(t))
  BY <1>1, <1>3 DEF Sent, Once, NoGaps
<1>6. Deltas(t)
  BY <1>1, <1>2 DEF Sent, Deltas, Open
<1>7. \A b, kind : Open(t, b, kind) <=> Open(s, b, kind)
  BY <1>1, <1>3 DEF Open
<1>8. Known(t, st)
  <2>1. \A n : Covered(t, n) <=> Covered(s, n)
    BY <1>1, <1>3 DEF Covered
  <2> QED
    BY <1>1, <1>3, <1>4, <1>7, <2>1 DEF Known
<1> QED
  BY <1>4, <1>5, <1>6, <1>8 DEF Sent, t

(* A block that is open stays so.                                          *)
LEMMA StillOpen ==
  ASSUME NEW s \in Seq(Events), NEW e \in Events, NEW b, NEW kind, Open(s, b, kind)
  PROVE  Open(Append(s, e), b, kind)
<1> DEFINE t == Append(s, e)
<1>1. /\ Pos(s, "start") \subseteq Pos(t, "start")
      /\ \A i \in 1..Len(s) : t[i] = s[i]
  BY Appended, AppendedPos
<1>2. Pos(s, "start") \subseteq 1..Len(s)
  BY DEF Pos
<1> QED
  BY <1>1, <1>2 DEF Open

(* A start opens its block.                                                *)
LEMMA NowOpen ==
  ASSUME NEW s \in Seq(Events), NEW e \in Events, e.type = "start"
  PROVE  Open(Append(s, e), e.index, e.kind)
<1>1. Len(s) + 1 \in Pos(Append(s, e), "start") /\ Append(s, e)[Len(s) + 1] = e
  BY Appended, AppendedPos
<1> QED
  BY <1>1 DEF Open

(* The invariant of a stream that goes on: nothing is closed yet.          *)
StreamFields == {"text", "block", "order", "stop", "sent"}
Shape(st) ==
    /\ DOMAIN st = StreamFields
    /\ st.text \in BOOLEAN /\ st.stop \in {"end_turn", "tool_use"}
    /\ st.order \in Seq(DOMAIN st.block) /\ DOMAIN st.block = ToSet(st.order)
    /\ \A c \in DOMAIN st.block : st.block[c] \in Nat
    /\ st.sent \in Seq(Events)
Going(s) == \A i \in 1..Len(s) : s[i].type \in {"message_start", "start", "delta"}
Live(st) == Shape(st) /\ Going(st.sent) /\ Sent(st.sent) /\ Known(st.sent, st)

(* What a chunk or a call makes the client be sent, event by event.        *)
LEMMA Joined ==
  ASSUME NEW s \in Seq(Events), NEW e \in Events, NEW f \in Events
  PROVE  /\ s \o (<<>> \o <<>>) = s
         /\ s \o (<<>> \o <<e>>) = Append(s, e)
         /\ s \o (<<e>> \o <<>>) = Append(s, e)
         /\ s \o (<<e>> \o <<f>>) = Append(Append(s, e), f)
<1>1. s \o (<<>> \o <<>>) = s
  OBVIOUS
<1>2. s \o (<<>> \o <<e>>) = Append(s, e)
  OBVIOUS
<1>3. s \o (<<e>> \o <<>>) = Append(s, e)
  OBVIOUS
<1>4. s \o (<<e>> \o <<f>>) = Append(Append(s, e), f)
  OBVIOUS
<1> QED
  BY <1>1, <1>2, <1>3, <1>4

(* Nothing is closed by a start or a delta.                                *)
LEMMA StillGoing ==
  ASSUME NEW s \in Seq(Events), NEW e \in Events, Going(s), e.type \in {"start", "delta"}
  PROVE  Going(Append(s, e))
BY Appended DEF Going

(* Sending changes what was sent.                                          *)
LEMMA EmitFields ==
  ASSUME NEW st, NEW events, Shape(st)
  PROVE  /\ DOMAIN Emit(st, events) = StreamFields
         /\ Emit(st, events).sent = st.sent \o events
         /\ Emit(st, events).text = st.text /\ Emit(st, events).block = st.block
         /\ Emit(st, events).order = st.order /\ Emit(st, events).stop = st.stop
BY DEF Emit, Shape, StreamFields

(* A stream that has just begun.                                           *)
LEMMA OpenedLive == Live(Opened)
<1> DEFINE st == Opened
           e == Event("message_start", 0, "")
<1>1. /\ DOMAIN st = StreamFields /\ ~st.text /\ st.stop = "end_turn" /\ st.order = <<>>
      /\ st.block = <<>> /\ st.sent = <<e>> /\ st.text \in BOOLEAN
  BY DEF Opened, StreamFields
<1>2. e \in Events /\ e.type = "message_start"
  BY DEF Event, Events
<1> HIDE DEF st, e
<1>3. Len(st.sent) = 1 /\ st.sent[1] = e /\ st.sent \in Seq(Events) /\ Len(st.order) = 0
  BY <1>1, <1>2
<1>4. Pos(st.sent, "start") = {} /\ Pos(st.sent, "delta") = {}
  BY <1>2, <1>3 DEF Pos
<1>5. Shape(st)
  <2>1. DOMAIN <<>> = {} /\ ToSet(<<>>) = {} /\ <<>> \in Seq({})
    BY DEF ToSet
  <2> QED
    BY <1>1, <1>3, <2>1 DEF Shape
<1>6. Sent(st.sent)
  BY <1>4 DEF Sent, Once, NoGaps, Deltas
<1>7. Known(st.sent, st)
  <2>1. TextCameFirst(st.sent) => Covered(st.sent, Len(st.order) + First(st))
    BY <1>1, <1>3 DEF First, Covered
  <2> QED
    BY <1>1, <1>3, <1>4, <2>1 DEF Known, First
<1>8. Going(st.sent)
  BY <1>2, <1>3 DEF Going
<1> QED
  BY <1>5, <1>6, <1>7, <1>8 DEF Live, st

(* A text: a delta of block 0, which it may have to open.                  *)
LEMMA TextLive ==
  ASSUME NEW st, Live(st)
  PROVE  Live(AddText(st))
<1> DEFINE start == Event("start", 0, "text")
           delta == Event("delta", 0, "text")
           events == (IF st.text THEN <<>> ELSE <<start>>) \o <<delta>>
           made == Emit(st, events)
           new == AddText(st)
           opened == IF st.text THEN st.sent ELSE Append(st.sent, start)
<1>1. /\ start \in Events /\ start.type = "start" /\ start.index = 0 /\ start.kind = "text"
      /\ delta \in Events /\ delta.type = "delta" /\ delta.index = 0 /\ delta.kind = "text"
  BY DEF Event, Events
<1>2. new = [made EXCEPT !.text = TRUE]
  BY DEF AddText
<1>3. /\ DOMAIN made = StreamFields /\ made.sent = st.sent \o events
      /\ made.block = st.block /\ made.order = st.order /\ made.stop = st.stop
  BY EmitFields DEF Live
<1> HIDE DEF made, new, start, delta
<1>4. /\ DOMAIN new = StreamFields /\ new.sent = st.sent \o events /\ new.text = TRUE
      /\ new.block = st.block /\ new.order = st.order /\ new.stop = st.stop
  BY <1>2, <1>3 DEF StreamFields
<1>5. st.sent \in Seq(Events) /\ opened \in Seq(Events)
  BY <1>1, Appended DEF Live, Shape
<1>6. new.sent = Append(opened, delta)
  BY <1>1, <1>4, <1>5, Joined
<1>7. Shape(new)
  <2>1. Append(opened, delta) \in Seq(Events)
    BY <1>1, <1>5, Appended
  <2> HIDE DEF opened
  <2> QED
    BY <1>4, <1>6, <2>1 DEF Shape, Live
<1>8. Going(new.sent)
  <2>1. Going(opened)
    BY <1>1, <1>5, StillGoing DEF Live
  <2> QED
    BY <1>1, <1>5, <1>6, <2>1, StillGoing
<1>9. Sent(opened) /\ Known(opened, new) /\ Open(opened, 0, "text")
  <2> DEFINE n == Len(st.order)
  <2>1. n \in Nat /\ Sent(st.sent) /\ Known(st.sent, st)
    BY DEF Live, Shape
  <2>2. CASE st.text
    <3>1. opened = st.sent /\ First(st) = 1 /\ First(new) = 1
      BY <1>4, <2>2 DEF First
    <3>2. Known(st.sent, new)
      BY <1>4, <2>1, <2>2, <3>1 DEF Known
    <3>3. Open(st.sent, 0, "text")
      BY <2>1, <2>2 DEF Known
    <3> QED
      BY <2>1, <3>1, <3>2, <3>3
  <2>3. CASE ~st.text
    <3>1. opened = Append(st.sent, start) /\ First(st) = 0 /\ First(new) = 1
      BY <1>4, <2>3 DEF First
    <3>2. \A i \in Pos(st.sent, "start") :
             st.sent[i].kind = "tool" /\ \E k \in 1..n : st.sent[i].index = st.block[st.order[k]]
      BY <2>1, <2>3 DEF Known
    <3>3. Sent(opened)
      <4> HIDE DEF opened
      <4> QED
        BY <1>1, <1>5, <2>1, <3>1, <3>2, AddStart DEF Covered
    <3>4. /\ Pos(opened, "start") = Pos(st.sent, "start") \cup {Len(st.sent) + 1}
          /\ opened[Len(st.sent) + 1] = start
          /\ \A i \in Pos(st.sent, "start") : opened[i] = st.sent[i] /\ i < Len(st.sent) + 1
      <4>1. \A i \in Pos(st.sent, "start") : i \in 1..Len(st.sent) /\ i < Len(st.sent) + 1
        BY DEF Pos
      <4> HIDE DEF opened
      <4> QED
        BY <1>1, <1>5, <3>1, <4>1, Appended, AppendedPos
    <3>5. Open(opened, 0, "text")
      BY <1>1, <1>5, <3>1, NowOpen
    <3> HIDE DEF opened
    <3>6. \A i \in Pos(opened, "start") :
             \/ opened[i].kind = "text" /\ opened[i].index = 0
             \/ opened[i].kind = "tool" /\ \E k \in 1..n : opened[i].index = st.block[st.order[k]]
      BY <1>1, <3>2, <3>4
    <3>7. \A k \in 1..n : /\ Open(opened, st.block[st.order[k]], "tool")
                          /\ st.block[st.order[k]] < n + 1
      <4>1. \A k \in 1..n : /\ Open(st.sent, st.block[st.order[k]], "tool")
                            /\ st.block[st.order[k]] < n + 0
        BY <2>1, <3>1 DEF Known
      <4>2. \A k \in 1..n : st.block[st.order[k]] \in Nat
        BY DEF Live, Shape
      <4>3. \A k \in 1..n : st.block[st.order[k]] < n + 1
        BY <2>1, <4>1, <4>2
      <4>4. \A k \in 1..n : Open(opened, st.block[st.order[k]], "tool")
        BY <1>1, <1>5, <3>1, <4>1, StillOpen
      <4> QED
        BY <4>3, <4>4
    <3>8. ASSUME TextCameFirst(opened)
          PROVE  n = 0
      <4>1. SUFFICES ASSUME n # 0 PROVE FALSE
        OBVIOUS
      <4>2. 1 \in 1..n
        BY <2>1, <4>1
      <4>3. PICK i \in Pos(st.sent, "start") : st.sent[i].kind = "tool"
        BY <2>1, <4>2 DEF Known, Open
      <4> QED
        BY <1>1, <3>4, <3>8, <4>3 DEF TextCameFirst
    <3>9. TextCameFirst(opened) => Covered(opened, n + 1)
      <4>1. \E i \in Pos(opened, "start") : opened[i].index = 0
        BY <1>1, <3>4
      <4>2. n = 0 => \A b \in 0..n + 1 - 1 : b = 0
        OBVIOUS
      <4> QED
        BY <3>8, <4>1, <4>2 DEF Covered
    <3>10. \A k, l \in 1..n : st.block[st.order[k]] = st.block[st.order[l]] => k = l
      BY <2>1 DEF Known
    <3>11. Known(opened, new)
      <4>1. Len(new.order) = n /\ \A k : new.block[new.order[k]] = st.block[st.order[k]]
        BY <1>4
      <4> HIDE DEF n
      <4>2. \A i \in Pos(opened, "start") :
               \/ opened[i].kind = "text" /\ opened[i].index = 0 /\ new.text
               \/ /\ opened[i].kind = "tool"
                  /\ \E k \in 1..Len(new.order) : opened[i].index = new.block[new.order[k]]
        BY <1>4, <3>6, <4>1
      <4>3. \A k \in 1..Len(new.order) :
               /\ Open(opened, new.block[new.order[k]], "tool")
               /\ new.block[new.order[k]] < Len(new.order) + First(new)
        BY <3>1, <3>7, <4>1
      <4>4. \A k, l \in 1..Len(new.order) :
               new.block[new.order[k]] = new.block[new.order[l]] => k = l
        BY <3>10, <4>1
      <4>5. TextCameFirst(opened) => Covered(opened, Len(new.order) + First(new))
        BY <3>1, <3>9, <4>1
      <4> HIDE DEF new
      <4> QED
        BY ONLY <3>5, <4>2, <4>3, <4>4, <4>5, Zenon DEF Known
    <3> QED
      BY <3>3, <3>5, <3>11
  <2> QED
    BY <2>2, <2>3 DEF Live, Shape
<1>10. Sent(new.sent) /\ Known(new.sent, new)
  <2> HIDE DEF opened
  <2> QED
    BY <1>1, <1>5, <1>6, <1>9, AddDelta
<1> QED
  BY <1>7, <1>8, <1>10 DEF Live, new

(* A chunk of upstream.                                                    *)
LEMMA ChunkLive ==
  ASSUME NEW st, NEW chunk, Live(st)
  PROVE  Live(AddChunk(st, chunk))
<1> DEFINE told == IF chunk.finish = "tool_calls" THEN [st EXCEPT !.stop = "tool_use"] ELSE st
<1>1. AddChunk(st, chunk) = IF chunk.text THEN AddText(told) ELSE told
  BY DEF AddChunk
<1>2. Live(told)
  <2> DEFINE new == [st EXCEPT !.stop = "tool_use"]
  <2>1. DOMAIN st = StreamFields
    BY DEF Live, Shape
  <2>2. /\ DOMAIN new = StreamFields /\ new.text = st.text /\ new.block = st.block
        /\ new.order = st.order /\ new.sent = st.sent /\ new.stop = "tool_use"
    BY <2>1 DEF StreamFields
  <2> HIDE DEF new
  <2>3. Live(new)
    <3>1. Known(st.sent, st) => Known(new.sent, new)
      <4>1. First(new) = First(st)
        BY <2>2 DEF First
      <4> QED
        BY <2>2, <4>1 DEF Known
    <3> QED
      BY <2>2, <3>1 DEF Live, Shape
  <2> QED
    BY <2>3 DEF new
<1> HIDE DEF told
<1> QED
  BY <1>1, <1>2, TextLive

(* A tool call: the block it has, or the next one.                         *)
LEMMA CallLive ==
  ASSUME NEW st, NEW call, Live(st)
  PROVE  Live(AddCall(st, call))
<1> DEFINE c == call.index
           known == c \in ToSet(st.order)
           b == IF known THEN st.block[c] ELSE NextBlock(st)
           start == Event("start", b, "tool")
           delta == Event("delta", b, "tool")
           open == IF known THEN <<>> ELSE <<start>>
           said == IF call.arguments THEN <<delta>> ELSE <<>>
           made == Emit(st, open \o said)
           order == IF known THEN st.order ELSE Append(st.order, c)
           block == [i \in DOMAIN st.block \cup {c} |-> IF i = c THEN b ELSE st.block[i]]
           new == AddCall(st, call)
           opened == IF known THEN st.sent ELSE Append(st.sent, start)
           n == Len(st.order)
<1>1. st.sent \in Seq(Events) /\ n \in Nat /\ st.text \in BOOLEAN
      /\ DOMAIN st.block = ToSet(st.order)
      /\ st.order \in Seq(DOMAIN st.block) /\ \A d \in DOMAIN st.block : st.block[d] \in Nat
  BY DEF Live, Shape
<1>0. First(st) \in {0, 1}
  BY DEF First
<1>2. b \in Nat
  BY <1>1 DEF NextBlock
<1>3. DOMAIN made = StreamFields /\ made.sent = st.sent \o (open \o said) /\ made.text = st.text
      /\ made.block = st.block /\ made.order = st.order /\ made.stop = st.stop
  BY EmitFields DEF Live
<1>4. new = [made EXCEPT !.order = order, !.block = block]
  <2>1. new = [made EXCEPT !.order = IF known THEN @ ELSE Append(@, c),
                 !.block = [i \in DOMAIN @ \cup {c} |-> IF i = c THEN b ELSE st.block[i]]]
    BY DEF AddCall
  <2> HIDE DEF made, known, b, c
  <2> QED
    BY <1>3, <2>1 DEF StreamFields
<1>5. /\ start \in Events /\ start.type = "start" /\ start.index = b /\ start.kind = "tool"
      /\ delta \in Events /\ delta.type = "delta" /\ delta.index = b /\ delta.kind = "tool"
  <2> HIDE DEF b
  <2> QED
    BY <1>2 DEF Event, Events
<1>6. DOMAIN block = DOMAIN st.block \cup {c} /\ block[c] = b
      /\ \A d \in DOMAIN st.block : d # c => block[d] = st.block[d]
  <2> HIDE DEF b
  <2> QED
    OBVIOUS
<1>7. b = IF known THEN st.block[c] ELSE n + First(st)
  <2>1. NextBlock(st) = n + First(st)
    <3>1. CASE st.text
      <4>1. NextBlock(st) = n + 1 /\ First(st) = 1
        BY <3>1 DEF NextBlock, First
      <4> QED
        BY <4>1
    <3>2. CASE ~st.text
      <4>1. NextBlock(st) = n /\ First(st) = 0
        BY <3>2 DEF NextBlock, First
      <4> HIDE DEF n
      <4> QED
        BY <1>1, <4>1
    <3> QED
      BY <1>1, <3>1, <3>2
  <2> HIDE DEF known, c
  <2> QED
    BY <2>1
<1> HIDE DEF made, new, start, delta, b, block, c
<1>8. /\ DOMAIN new = StreamFields /\ new.sent = st.sent \o (open \o said) /\ new.text = st.text
      /\ new.block = block /\ new.order = order /\ new.stop = st.stop
  <2> HIDE DEF order, open, said
  <2> QED
    BY <1>3, <1>4 DEF StreamFields
<1>9. opened \in Seq(Events)
  BY <1>1, <1>5, Appended
<1>10. new.sent = opened \/ new.sent = Append(opened, delta)
  BY <1>1, <1>5, <1>8, Joined
<1>11. new.sent \in Seq(Events)
  <2> HIDE DEF opened
  <2> QED
    BY <1>5, <1>9, <1>10, Appended
<1>12. /\ order \in Seq(DOMAIN block) /\ DOMAIN block = ToSet(order)
       /\ Len(order) = IF known THEN n ELSE n + 1
       /\ \A k \in 1..n : order[k] = st.order[k]
       /\ ~known => order[n + 1] = c
  <2>1. CASE known
    BY <1>1, <1>6, <2>1
  <2>2. CASE ~known
    <3>1. order = Append(st.order, c) /\ st.order \in Seq(DOMAIN block) /\ c \in DOMAIN block
      BY <1>1, <1>6, <2>2, SeqMonotonic
    <3> HIDE DEF order
    <3>2. /\ order \in Seq(DOMAIN block) /\ Len(order) = n + 1 /\ order[n + 1] = c
          /\ \A k \in 1..n : order[k] = st.order[k]
      BY <3>1
    <3>3. DOMAIN order = 1..n + 1 /\ DOMAIN st.order = 1..n
      BY <1>1, <3>2
    <3>4. 1..n + 1 = (1..n) \cup {n + 1}
      BY <1>1
    <3>5. ToSet(order) = ToSet(st.order) \cup {c}
      BY <3>2, <3>3, <3>4 DEF ToSet
    <3> QED
      BY <1>1, <1>6, <2>2, <3>2, <3>5
  <2> QED
    BY <2>1, <2>2
<1>13. Shape(new)
  <2>1. \A d \in DOMAIN block : block[d] \in Nat
    BY <1>1, <1>2, <1>6
  <2>2. st.stop \in {"end_turn", "tool_use"}
    BY DEF Live, Shape
  <2> HIDE DEF order
  <2> QED
    BY <1>1, <1>8, <1>11, <1>12, <2>1, <2>2 DEF Shape
<1>14. Going(new.sent)
  <2>1. Going(opened)
    BY <1>1, <1>5, StillGoing DEF Live
  <2> HIDE DEF opened
  <2> QED
    BY <1>5, <1>9, <1>10, <2>1, StillGoing
<1>15. Sent(opened) /\ Known(opened, new) /\ Open(opened, b, "tool")
  <2> DEFINE Was(k) == st.block[st.order[k]]
             Is(k) == block[order[k]]
  <2>1. Sent(st.sent) /\ Known(st.sent, st)
    BY DEF Live
  <2>2. First(new) = First(st)
    BY <1>8 DEF First
  <2>3. \A k \in 1..n : order[k] = st.order[k] /\ st.order[k] \in DOMAIN st.block
    BY <1>1, <1>12
  <2>4. CASE known
    <3>1. opened = st.sent /\ Len(order) = n
      BY <2>4
    <3>2. \A k \in 1..n : Is(k) = Was(k)
      BY <1>6, <1>7, <2>3, <2>4
    <3>3. PICK k \in 1..n : st.order[k] = c
      BY <1>1, <2>4 DEF ToSet
    <3>4. Open(st.sent, b, "tool")
      BY <1>7, <2>1, <2>4, <3>3 DEF Known
    <3> HIDE DEF opened, order, known
    <3>5. Known(st.sent, new)
      BY <1>8, <2>1, <2>2, <3>1, <3>2 DEF Known
    <3> QED
      BY <2>1, <3>1, <3>4, <3>5
  <2>5. CASE ~known
    <3>1. opened = Append(st.sent, start) /\ b = n + First(st) /\ Len(order) = n + 1
      BY <1>7, <1>12, <2>5
    <3>2. \A k \in 1..n : Is(k) = Was(k) /\ Was(k) \in Nat
      <4>1. \A k \in 1..n : st.order[k] # c
        BY <1>1, <2>5 DEF ToSet
      <4> QED
        BY <1>1, <1>6, <2>3, <4>1
    <3>3. Is(n + 1) = b
      BY <1>6, <1>12, <2>5
    <3>4. \A k \in 1..n : Open(st.sent, Was(k), "tool") /\ Was(k) < b
      BY <2>1, <3>1 DEF Known
    <3> HIDE DEF opened, order, known, n
    <3>5. \A i \in Pos(st.sent, "start") : st.sent[i].index # b
      <4> SUFFICES ASSUME NEW i \in Pos(st.sent, "start") PROVE st.sent[i].index # b
        OBVIOUS
      <4>1. CASE st.sent[i].index = 0 /\ st.text
        <5>1. First(st) = 1
          BY <4>1 DEF First
        <5> QED
          BY <1>1, <3>1, <4>1, <5>1
      <4>2. CASE \E k \in 1..n : st.sent[i].index = Was(k)
        BY <1>2, <3>2, <3>4, <4>2
      <4> QED
        BY <2>1, <4>1, <4>2 DEF Known, n
    <3>6. TextCameFirst(opened) => Covered(st.sent, b)
      <4>1. TextCameFirst(opened) => TextCameFirst(st.sent)
        BY <1>1, <1>5, <3>1, StillFirst
      <4> QED
        BY <2>1, <3>1, <4>1 DEF Known, n
    <3>7. Sent(opened)
      BY <1>1, <1>5, <2>1, <3>1, <3>5, <3>6, AddStart
    <3>8. Open(opened, b, "tool")
      BY <1>1, <1>5, <3>1, NowOpen
    <3>9. \A x, kind : Open(st.sent, x, kind) => Open(opened, x, kind)
      BY <1>1, <1>5, <3>1, StillOpen
    <3>10. /\ Pos(opened, "start") = Pos(st.sent, "start") \cup {Len(st.sent) + 1}
           /\ opened[Len(st.sent) + 1] = start
           /\ \A i \in Pos(st.sent, "start") : opened[i] = st.sent[i]
      <4>1. \A i \in Pos(st.sent, "start") : i \in 1..Len(st.sent)
        BY DEF Pos
      <4> QED
        BY <1>1, <1>5, <3>1, <4>1, Appended, AppendedPos
    <3>11. 1..n + 1 = (1..n) \cup {n + 1} /\ (n + 1) + First(st) = b + 1
           /\ 0..(n + 1) + First(st) - 1 = (0..b - 1) \cup {b}
      BY <1>0, <1>1, <3>1
    <3>12. \A i \in Pos(opened, "start") :
             \/ opened[i].kind = "text" /\ opened[i].index = 0 /\ st.text
             \/ opened[i].kind = "tool" /\ \E k \in 1..n + 1 : opened[i].index = Is(k)
      <4>1. \A i \in Pos(st.sent, "start") :
             \/ st.sent[i].kind = "text" /\ st.sent[i].index = 0 /\ st.text
             \/ st.sent[i].kind = "tool" /\ \E k \in 1..n : st.sent[i].index = Was(k)
        BY <2>1 DEF Known, n
      <4> QED
        BY <1>5, <3>2, <3>3, <3>10, <3>11, <4>1
    <3>13. \A k \in 1..n + 1 : Open(opened, Is(k), "tool") /\ Is(k) < (n + 1) + First(st)
      BY <1>2, <3>2, <3>3, <3>4, <3>8, <3>9, <3>11
    <3>14. \A k, l \in 1..n + 1 : Is(k) = Is(l) => k = l
      <4>1. \A k, l \in 1..n : Was(k) = Was(l) => k = l
        BY <2>1 DEF Known, n
      <4>2. \A k \in 1..n : Is(k) # b
        BY <1>2, <3>2, <3>4
      <4> QED
        BY <3>2, <3>3, <3>11, <4>1, <4>2
    <3>15. TextCameFirst(opened) => Covered(opened, (n + 1) + First(st))
      <4> SUFFICES ASSUME TextCameFirst(opened), NEW x \in 0..(b + 1) - 1
                   PROVE  \E i \in Pos(opened, "start") : opened[i].index = x
        BY <3>11 DEF Covered
      <4>1. CASE x \in 0..b - 1
        <5>1. Covered(st.sent, b)
          BY <3>6
        <5>2. PICK i \in Pos(st.sent, "start") : st.sent[i].index = x
          BY <4>1, <5>1 DEF Covered
        <5> QED
          BY <3>10, <5>2
      <4>2. CASE x = b
        BY <1>5, <3>10, <4>2
      <4> QED
        BY <1>2, <4>1, <4>2
    <3>16. st.text => Open(opened, 0, "text")
      BY <2>1, <3>9 DEF Known
    <3>17. Known(opened, new)
      <4>1. Len(new.order) = n + 1 /\ \A k : new.block[new.order[k]] = Is(k)
        BY <1>8, <3>1
      <4> HIDE DEF Is
      <4>2. \A i \in Pos(opened, "start") :
               \/ opened[i].kind = "text" /\ opened[i].index = 0 /\ new.text
               \/ /\ opened[i].kind = "tool"
                  /\ \E k \in 1..Len(new.order) : opened[i].index = new.block[new.order[k]]
        BY <1>8, <3>12, <4>1
      <4>3. \A k \in 1..Len(new.order) :
               /\ Open(opened, new.block[new.order[k]], "tool")
               /\ new.block[new.order[k]] < Len(new.order) + First(new)
        BY <2>2, <3>13, <4>1
      <4>4. \A k, l \in 1..Len(new.order) :
               new.block[new.order[k]] = new.block[new.order[l]] => k = l
        BY <3>14, <4>1
      <4>5. TextCameFirst(opened) => Covered(opened, Len(new.order) + First(new))
        BY <2>2, <3>15, <4>1
      <4>6. new.text => Open(opened, 0, "text")
        BY <1>8, <3>16
      <4> QED
        BY ONLY <4>2, <4>3, <4>4, <4>5, <4>6, Zenon DEF Known
    <3> QED
      BY <3>7, <3>8, <3>17
  <2> QED
    BY <2>4, <2>5
<1>16. Sent(new.sent) /\ Known(new.sent, new)
  <2> HIDE DEF opened
  <2> QED
    BY <1>5, <1>9, <1>10, <1>15, AddDelta
<1> QED
  BY <1>13, <1>14, <1>16 DEF Live, new

(* The property's own words for it.                                        *)
LEMMA InWords ==
  ASSUME NEW st
  PROVE  /\ \A type : Positions(st, type) = Pos(st.sent, type)
         /\ TextFirst(st) <=> TextCameFirst(st.sent)
         /\ \A i, j : BlockAt(st, i) = BlockAt(st, j) <=>
               st.sent[i].index = st.sent[j].index /\ st.sent[i].kind = st.sent[j].kind
<1>1. \A type : Positions(st, type) = Pos(st.sent, type)
  BY DEF Positions, Pos
<1>2. TextFirst(st) <=> TextCameFirst(st.sent)
  BY <1>1 DEF TextFirst, TextCameFirst
<1>3. \A i, j : BlockAt(st, i) = BlockAt(st, j) <=>
               st.sent[i].index = st.sent[j].index /\ st.sent[i].kind = st.sent[j].kind
  BY DEF BlockAt
<1> QED
  BY <1>1, <1>2, <1>3

(* A stream that goes on is well formed.                                   *)
LEMMA LiveWellFormed == ASSUME NEW st, Live(st) PROVE WellFormed(st)
<1>1. Pos(st.sent, "message_stop") = {} /\ Pos(st.sent, "stop") = {}
  BY DEF Live, Going, Pos
<1>2. Once(st.sent) /\ (TextCameFirst(st.sent) => NoGaps(st.sent)) /\ Deltas(st.sent)
  BY DEF Live, Sent
<1> QED
  BY <1>1, <1>2, InWords DEF WellFormed, Once, NoGaps, Deltas

(* What the end of a stream sends: a stop for each block that was opened. *)
Ends(st) == (IF st.text THEN <<Event("stop", 0, "text")>> ELSE <<>>)
            \o [i \in 1..Len(st.order) |-> Event("stop", st.block[st.order[i]], "tool")]
            \o <<Event("message_delta", 0, st.stop), Event("message_stop", 0, "")>>

(* What stands after the stops, in a list of stops and two events more.    *)
LEMMA AfterStops ==
  ASSUME NEW f, NEW g, NEW h, NEW b \in Nat, NEW n \in Nat, NEW j \in {1, 2},
         \A i \in 1..b + n + 2 : f[i] = IF i <= b + n THEN g[i] ELSE h[i - (b + n)]
  PROVE  f[n + b + j] = h[j]
<1>1. CASE j = 1
  <2>1. /\ n + b + 1 \in 1..b + n + 2 /\ ~(n + b + 1 <= b + n)
        /\ n + b + 1 - (b + n) = 1
    OBVIOUS
  <2> QED
    BY <1>1, <2>1
<1>2. CASE j = 2
  <2>1. /\ n + b + 2 \in 1..b + n + 2 /\ ~(n + b + 2 <= b + n)
        /\ n + b + 2 - (b + n) = 2
    OBVIOUS
  <2> QED
    BY <1>2, <2>1
<1> QED
  BY <1>1, <1>2

(* The text's stop, those of the calls, and the message is over after them. *)
LEMMA EndsAre ==
  ASSUME NEW st, Live(st)
  PROVE  LET k == Len(st.order) + First(st)
             ends == Ends(st)
         IN /\ ends \in Seq(Events) /\ Len(ends) = k + 2
            /\ \A i \in 1..k : /\ ends[i].type = "stop"
                               /\ i <= First(st) => ends[i].index = 0 /\ ends[i].kind = "text"
                               /\ ~(i <= First(st)) =>
                                     /\ ends[i].index = st.block[st.order[i - First(st)]]
                                     /\ ends[i].kind = "tool"
            /\ ends[k + 1].type = "message_delta" /\ ends[k + 2].type = "message_stop"
<1> DEFINE n == Len(st.order)
           stop == Event("stop", 0, "text")
           said == Event("message_delta", 0, st.stop)
           over == Event("message_stop", 0, "")
           text == IF st.text THEN <<stop>> ELSE <<>>
           Stop(i) == Event("stop", st.block[st.order[i]], "tool")
           tools == [i \in 1..n |-> Stop(i)]
           last == <<said, over>>
           base == First(st)
           ends == Ends(st)
<1>1. n \in Nat /\ st.text \in BOOLEAN /\ base \in {0, 1} /\ base = (IF st.text THEN 1 ELSE 0)
  BY DEF Live, Shape, First
<1>2. \A i \in 1..n : st.block[st.order[i]] \in Nat
  BY DEF Live, Shape
<1>3. \A i \in 1..n : Stop(i) \in Events /\ Stop(i).type = "stop"
                       /\ Stop(i).index = st.block[st.order[i]] /\ Stop(i).kind = "tool"
  BY <1>2 DEF Event, Events
<1>4. tools \in Seq(Events) /\ Len(tools) = n /\ \A i \in 1..n : tools[i] = Stop(i)
  <2> HIDE DEF Stop, n
  <2> QED
    BY <1>1, <1>3
<1>5. /\ text \in Seq(Events) /\ Len(text) = base
      /\ \A i \in 1..base : text[i].type = "stop" /\ text[i].index = 0 /\ text[i].kind = "text"
  <2>1. stop \in Events /\ stop.type = "stop" /\ stop.index = 0 /\ stop.kind = "text"
    BY DEF Event, Events
  <2> HIDE DEF stop, base
  <2>2. CASE st.text
    BY <1>1, <2>1, <2>2
  <2>3. CASE ~st.text
    <3>1. base = 0 /\ text = <<>>
      BY <1>1, <2>3
    <3> HIDE DEF text
    <3> QED
      BY <3>1
  <2> QED
    BY <2>2, <2>3
<1>6. /\ last \in Seq(Events) /\ Len(last) = 2
      /\ last[1].type = "message_delta" /\ last[2].type = "message_stop"
  <2>1. said \in Events /\ said.type = "message_delta"
    BY DEF Event, Events, Live, Shape
  <2>2. over \in Events /\ over.type = "message_stop"
    BY DEF Event, Events
  <2> HIDE DEF said, over
  <2> QED
    BY <2>1, <2>2
<1>7. ends = (text \o tools) \o last
  BY DEF Ends
<1> HIDE DEF text, tools, last, ends, n, base
<1> DEFINE blocks == text \o tools
<1>8. /\ blocks \in Seq(Events) /\ Len(blocks) = base + n
      /\ \A i \in 1..base + n : blocks[i] = IF i <= base THEN text[i] ELSE tools[i - base]
  BY <1>4, <1>5, ConcatProperties
<1> HIDE DEF blocks
<1>9. /\ ends \in Seq(Events) /\ Len(ends) = base + n + 2
      /\ \A i \in 1..base + n + 2 :
           ends[i] = IF i <= base + n THEN blocks[i] ELSE last[i - (base + n)]
  <2>1. ends = blocks \o last
    BY <1>7 DEF blocks
  <2>2. /\ blocks \o last \in Seq(Events) /\ Len(blocks \o last) = Len(blocks) + Len(last)
        /\ \A i \in 1..Len(blocks) + Len(last) : (blocks \o last)[i] =
              IF i <= Len(blocks) THEN blocks[i] ELSE last[i - Len(blocks)]
    BY <1>6, <1>8, ConcatProperties
  <2>3. Len(blocks) = base + n /\ Len(last) = 2
    BY <1>6, <1>8
  <2> QED
    BY <2>1, <2>2, <2>3
<1>10. ASSUME NEW i \in 1..n + base
       PROVE  /\ ends[i].type = "stop"
              /\ i <= base => ends[i].index = 0 /\ ends[i].kind = "text"
              /\ ~(i <= base) => /\ ends[i].index = st.block[st.order[i - base]]
                                 /\ ends[i].kind = "tool"
  <2>0. i \in 1..base + n /\ i \in 1..base + n + 2 /\ i <= base + n
    BY <1>1
  <2>1. ends[i] = blocks[i]
    BY <1>9, <2>0
  <2>4. blocks[i] = IF i <= base THEN text[i] ELSE tools[i - base]
    BY <1>8, <2>0
  <2>2. CASE i <= base
    <3>1. i \in 1..base
      BY <1>1, <2>2
    <3> QED
      BY <1>5, <2>1, <2>2, <2>4, <3>1
  <2>3. CASE ~(i <= base)
    <3>0. i - base \in 1..n
      BY <1>1, <2>0, <2>3
    <3>1. i - base \in 1..n /\ ends[i] = Stop(i - base)
      BY <1>4, <2>1, <2>3, <2>4, <3>0
    <3>2. /\ ends[i].type = "stop" /\ ends[i].index = st.block[st.order[i - base]]
          /\ ends[i].kind = "tool"
      BY <1>3, <3>1
    <3> QED
      BY <2>3, <3>2
  <2> QED
    BY <2>2, <2>3
<1>11. ends[n + base + 1] = last[1] /\ ends[n + base + 2] = last[2]
  <2>1. base \in Nat /\ n \in Nat
    BY <1>1
  <2>2. \A i \in 1..base + n + 2 :
           ends[i] = IF i <= base + n THEN blocks[i] ELSE last[i - (base + n)]
    BY <1>9
  <2>3. \A j \in {1, 2} : ends[n + base + j] = last[j]
    BY <2>1, <2>2, AfterStops
  <2> QED
    BY <2>3
<1>12. /\ ends \in Seq(Events) /\ Len(ends) = (n + base) + 2
       /\ ends[n + base + 1].type = "message_delta" /\ ends[n + base + 2].type = "message_stop"
  BY <1>1, <1>6, <1>9, <1>11
<1> QED
  BY <1>10, <1>12 DEF n, base, ends

(* A stream that has ended is well formed.                                 *)
LEMMA CloseWellFormed == ASSUME NEW st, Live(st) PROVE WellFormed(Close(st))
<1> DEFINE new == Close(st)
           s == st.sent
           t == new.sent
           n == Len(st.order)
           base == First(st)
           k == n + base
           ends == Ends(st)
           m == Len(s)
           Index(i) == st.block[st.order[i]]
<1>1. t = s \o ends
  BY EmitFields DEF Close, Ends, Live
<1>2. s \in Seq(Events) /\ m \in Nat /\ n \in Nat /\ base \in {0, 1} /\ k \in Nat
      /\ base = (IF st.text THEN 1 ELSE 0)
  <2>1. n \in Nat /\ s \in Seq(Events)
    BY DEF Live, Shape
  <2>2. base \in {0, 1} /\ base = (IF st.text THEN 1 ELSE 0)
    BY DEF First
  <2> HIDE DEF n, base
  <2> QED
    BY <2>1, <2>2
<1>3. /\ ends \in Seq(Events) /\ Len(ends) = k + 2
      /\ \A i \in 1..k : /\ ends[i].type = "stop"
                         /\ i <= base => ends[i].index = 0 /\ ends[i].kind = "text"
                         /\ ~(i <= base) => ends[i].index = Index(i - base) /\ ends[i].kind = "tool"
      /\ ends[k + 1].type = "message_delta" /\ ends[k + 2].type = "message_stop"
  BY EndsAre
<1>4. Sent(s) /\ Known(s, st)
  BY DEF Live
<1>5. /\ \A i \in Pos(s, "start") :
            \/ s[i].kind = "text" /\ s[i].index = 0 /\ base = 1
            \/ s[i].kind = "tool" /\ \E l \in 1..n : s[i].index = Index(l)
      /\ base = 1 => Open(s, 0, "text")
      /\ \A l \in 1..n : Open(s, Index(l), "tool")
      /\ \A l, j \in 1..n : Index(l) = Index(j) => l = j
  <2>1. st.text <=> base = 1
    BY <1>2
  <2> HIDE DEF base
  <2>2. \A i \in Pos(s, "start") :
            \/ s[i].kind = "text" /\ s[i].index = 0 /\ st.text
            \/ s[i].kind = "tool" /\ \E l \in 1..n : s[i].index = Index(l)
    BY <1>4 DEF Known
  <2>3. st.text => Open(s, 0, "text")
    BY <1>4 DEF Known
  <2>4. \A l \in 1..n : Open(s, Index(l), "tool")
    BY <1>4 DEF Known
  <2>5. \A l, j \in 1..n : Index(l) = Index(j) => l = j
    BY <1>4 DEF Known
  <2> QED
    BY <2>1, <2>2, <2>3, <2>4, <2>5
<1>6. \A i \in 1..m : s[i].type \notin {"stop", "message_stop"}
  BY DEF Live, Going
<1>7. \A type : Positions(new, type) = Pos(t, type)
  BY InWords
<1> HIDE DEF ends, k, m, t, s, n, base, Index
<1>8. /\ t \in Seq(Events) /\ Len(t) = m + (k + 2)
      /\ \A i \in 1..m + (k + 2) : t[i] = IF i <= m THEN s[i] ELSE ends[i - m]
  <2>1. /\ s \o ends \in Seq(Events) /\ Len(s \o ends) = Len(s) + Len(ends)
        /\ \A i \in 1..Len(s) + Len(ends) : (s \o ends)[i] =
              IF i <= Len(s) THEN s[i] ELSE ends[i - Len(s)]
    <3>1. s \in Seq(Events) /\ ends \in Seq(Events)
      BY <1>2, <1>3
    <3> QED
      BY <3>1, ConcatProperties
  <2>2. Len(s) = m /\ Len(ends) = k + 2
    BY <1>3 DEF m
  <2> QED
    BY <1>1, <2>1, <2>2
<1>9. \A i \in 1..m : i \in 1..Len(t) /\ t[i] = s[i]
  BY <1>2, <1>8
<1>10. \A i \in 1..Len(t) : i \notin 1..m =>
         i - m \in 1..k + 2 /\ t[i] = ends[i - m]
         /\ t[i].type \in {"stop", "message_delta", "message_stop"}
  <2> SUFFICES ASSUME NEW i \in 1..Len(t), i \notin 1..m
               PROVE  i - m \in 1..k + 2 /\ t[i] = ends[i - m]
                      /\ t[i].type \in {"stop", "message_delta", "message_stop"}
      OBVIOUS
  <2>1. i - m \in 1..k + 2 /\ t[i] = ends[i - m]
    BY <1>2, <1>8
  <2>2. i - m \in 1..k \/ i - m = k + 1 \/ i - m = k + 2
    BY <1>2, <2>1
  <2> QED
    BY <1>3, <2>1, <2>2
<1>11. Pos(t, "start") = Pos(s, "start") /\ Pos(t, "delta") = Pos(s, "delta")
  BY <1>9, <1>10 DEF Pos, m
<1>12. /\ Pos(s, "start") \subseteq 1..m /\ Pos(s, "delta") \subseteq 1..m
       /\ \A i \in Pos(t, "start") \cup Pos(t, "delta") : t[i] = s[i]
  BY <1>9, <1>11 DEF Pos, m
<1>13. Once(t) /\ (TextCameFirst(t) => NoGaps(t)) /\ Deltas(t)
  <2>1. TextCameFirst(t) => TextCameFirst(s)
    BY <1>11, <1>12 DEF TextCameFirst
  <2> QED
    BY <1>4, <1>11, <1>12, <2>1 DEF Sent, Once, NoGaps, Deltas
(* The stops, one for the text and one for each call.                      *)
<1>14. \A c \in Pos(t, "stop") : c - m \in 1..k /\ t[c] = ends[c - m] /\ c \in Int /\ c > m
  <2> SUFFICES ASSUME NEW c \in Pos(t, "stop")
               PROVE  c - m \in 1..k /\ t[c] = ends[c - m] /\ c \in Int /\ c > m
    OBVIOUS
  <2>1. c \in 1..Len(t) /\ c \notin 1..m
    BY <1>6, <1>9 DEF Pos
  <2>2. c - m \in 1..k + 2 /\ ends[c - m].type = "stop" /\ t[c] = ends[c - m]
    BY <1>10, <2>1 DEF Pos
  <2>3. c - m # k + 1 /\ c - m # k + 2
    BY <1>3, <2>2
  <2> QED
    BY <1>2, <2>1, <2>2, <2>3
<1>15. \A i \in 1..k : i + m \in Pos(t, "stop") /\ t[i + m] = ends[i]
  <2> SUFFICES ASSUME NEW i \in 1..k PROVE i + m \in Pos(t, "stop") /\ t[i + m] = ends[i]
    OBVIOUS
  <2>1. i + m \in 1..Len(t) /\ i + m \notin 1..m /\ (i + m) - m = i
    BY <1>2, <1>8
  <2> QED
    BY <1>3, <1>10, <2>1 DEF Pos
<1>16. \A c \in Pos(t, "stop") :
         \/ c - m <= base /\ t[c].index = 0 /\ t[c].kind = "text"
         \/ /\ c - m - base \in 1..n
            /\ t[c].index = Index(c - m - base) /\ t[c].kind = "tool"
  <2> SUFFICES ASSUME NEW c \in Pos(t, "stop"), ~(c - m <= base)
               PROVE  /\ c - m - base \in 1..n
                      /\ t[c].index = Index(c - m - base) /\ t[c].kind = "tool"
    BY <1>3, <1>14
  <2>1. c - m - base \in 1..n
    BY <1>2, <1>14 DEF k
  <2> QED
    BY <1>3, <1>14, <2>1
<1>17. \A c \in Pos(t, "stop") : \A d \in Pos(t, "delta") : d < c
  <2> SUFFICES ASSUME NEW c \in Pos(t, "stop"), NEW d \in Pos(t, "delta") PROVE d < c
    OBVIOUS
  <2>1. d \in 1..m
    BY <1>11, <1>12
  <2> QED
    BY <1>2, <1>14, <2>1
<1>18. \A c, d \in Pos(t, "stop") : t[c].index = t[d].index /\ t[c].kind = t[d].kind => c = d
  <2> SUFFICES ASSUME NEW c \in Pos(t, "stop"), NEW d \in Pos(t, "stop"),
                      t[c].index = t[d].index, t[c].kind = t[d].kind
               PROVE  c = d
    OBVIOUS
  <2>1. c - m \in 1..k /\ d - m \in 1..k /\ c \in Int /\ d \in Int
    BY <1>14
  <2>2. CASE c - m <= base /\ d - m <= base
    BY <1>2, <2>1, <2>2
  <2>3. CASE /\ c - m - base \in 1..n /\ t[c].index = Index(c - m - base)
             /\ d - m - base \in 1..n /\ t[d].index = Index(d - m - base)
    <3>1. c - m - base = d - m - base
      BY <1>5, <2>3
    <3> QED
      BY <1>2, <2>1, <3>1
  <2> QED
    BY <1>16, <2>2, <2>3
<1>19. ASSUME NEW i \in Pos(t, "start")
       PROVE  \E c \in Pos(t, "stop") : t[c].index = t[i].index /\ t[c].kind = t[i].kind
  <2>1. i \in Pos(s, "start") /\ t[i] = s[i]
    BY <1>11, <1>12
  <2>2. CASE s[i].kind = "text" /\ s[i].index = 0 /\ base = 1
    <3>1. 1 \in 1..k /\ 1 <= base
      BY <1>2, <2>2 DEF k
    <3> QED
      BY <1>3, <1>15, <2>1, <2>2, <3>1
  <2>3. ASSUME NEW l \in 1..n, s[i].kind = "tool", s[i].index = Index(l)
        PROVE  \E c \in Pos(t, "stop") : t[c].index = t[i].index /\ t[c].kind = t[i].kind
    <3>1. l + base \in 1..k /\ ~(l + base <= base) /\ (l + base) - base = l
      BY <1>2 DEF k
    <3> QED
      BY <1>3, <1>15, <2>1, <2>3, <3>1
  <2> QED
    BY <1>5, <2>1, <2>2, <2>3
<1>20. ASSUME NEW c \in Pos(t, "stop")
       PROVE  \E i \in Pos(t, "start") : t[i].index = t[c].index /\ t[i].kind = t[c].kind
  <2>1. CASE c - m <= base /\ t[c].index = 0 /\ t[c].kind = "text"
    <3>1. base = 1
      BY <1>2, <1>14, <2>1
    <3> QED
      BY <1>5, <1>11, <1>12, <2>1, <3>1 DEF Open
  <2>2. CASE /\ c - m - base \in 1..n
             /\ t[c].index = Index(c - m - base) /\ t[c].kind = "tool"
    BY <1>5, <1>11, <1>12, <2>2 DEF Open
  <2> QED
    BY <1>16, <2>1, <2>2
<1>21. {BlockAt(new, i) : i \in Pos(t, "start")} = {BlockAt(new, c) : c \in Pos(t, "stop")}
  <2>1. \A i \in Pos(t, "start") : \E c \in Pos(t, "stop") : BlockAt(new, i) = BlockAt(new, c)
    BY <1>19, InWords DEF t
  <2>2. \A c \in Pos(t, "stop") : \E i \in Pos(t, "start") : BlockAt(new, c) = BlockAt(new, i)
    BY <1>20, InWords DEF t
  <2> QED
    BY <2>1, <2>2
<1>22. TextFirst(new) <=> TextCameFirst(t)
  BY InWords DEF t
<1>23. \A i, j : BlockAt(new, i) = BlockAt(new, j) <=> t[i].index = t[j].index /\ t[i].kind = t[j].kind
  BY InWords DEF t
<1>24. new.sent = t
  BY DEF t
<1> HIDE DEF new
<1>25. Once(t) /\ (TextFirst(new) => NoGaps(t)) /\ Deltas(t)
  BY <1>13, <1>22
<1>26. \A i, j \in Pos(t, "start") : i < j /\ t[i].index = t[j].index =>
            t[i].index = 0 /\ t[i].kind = "tool" /\ t[j].kind = "text"
  BY <1>25 DEF Once
<1>27. TextFirst(new) => \A i \in Pos(t, "start") : \A b \in 0..t[i].index - 1 :
                           \E j \in Pos(t, "start") : j < i /\ t[j].index = b
  BY <1>25 DEF NoGaps
<1>28. \A d \in Pos(t, "delta") : \E i \in Pos(t, "start") :
          i < d /\ BlockAt(new, i) = BlockAt(new, d)
  BY <1>23, <1>25 DEF Deltas
<1>29. \A c \in Pos(t, "stop") : \A d \in Pos(t, "delta") :
          BlockAt(new, d) = BlockAt(new, c) => d < c
  BY <1>17
<1>30. \A c, d \in Pos(t, "stop") : BlockAt(new, c) = BlockAt(new, d) => c = d
  BY <1>18, <1>23
<1>31. Pos(t, "message_stop") # {} =>
          {BlockAt(new, i) : i \in Pos(t, "start")} = {BlockAt(new, c) : c \in Pos(t, "stop")}
  BY <1>21
<1> HIDE DEF t
<1>32. /\ Positions(new, "start") = Pos(t, "start") /\ Positions(new, "delta") = Pos(t, "delta")
       /\ Positions(new, "stop") = Pos(t, "stop")
       /\ Positions(new, "message_stop") = Pos(t, "message_stop")
  BY <1>7
<1>33. WellFormed(new)
  BY ONLY <1>24, <1>26, <1>27, <1>28, <1>29, <1>30, <1>31, <1>32 DEF WellFormed
<1> QED
  BY <1>33 DEF new

(* While a request is in its stream, the stream can go on; it is well      *)
(* formed whatever became of the request.                                  *)
StreamInv ==
    /\ DOMAIN at = Requests /\ DOMAIN stream = Requests
    /\ \A r \in Requests : /\ WellFormed(stream[r])
                           /\ at[r] = "streaming" => Live(stream[r])

(* What a step may do to the streams: nothing, or one opens, goes on or ends. *)
Streams(r) ==
    /\ \/ stream' = [stream EXCEPT ![r] = Opened]
       \/ /\ at[r] = "streaming"
          /\ \/ \E c : stream' = [stream EXCEPT ![r] = AddChunk(@, c)]
             \/ \E c : stream' = [stream EXCEPT ![r] = AddCall(@, c)]
             \/ stream' = [stream EXCEPT ![r] = Close(@)] /\ at'[r] # "streaming"
    /\ DOMAIN at' = DOMAIN at
    /\ \A q \in Requests : q # r => at'[q] = at[q]

(* Or nothing, and nobody enters a stream.                                 *)
Still == /\ stream' = stream /\ DOMAIN at' = DOMAIN at
         /\ \A q \in Requests : at'[q] = "streaming" => at[q] = "streaming"

(* A step of a connection does one or the other.                           *)
LEMMA StreamSteps ==
    ASSUME StreamInv, NEW r \in Requests, Serve(r) \/ Others(r)
    PROVE  Still \/ Streams(r)
<1>1. ASSUME NEW place, Goto(r, place)
      PROVE  DOMAIN at' = DOMAIN at /\ at'[r] = place
             /\ \A q \in Requests : q # r => at'[q] = at[q]
  BY <1>1 DEF Goto, StreamInv
<1>2. CASE \/ Check(r) \/ DropHeader(r) \/ DropIdle(r)
           \/ Connect(r) \/ ReceiveBody(r) \/ Drained(r)
  BY <1>1, <1>2 DEF Check, DropHeader, DropIdle, Connect, ReceiveBody, Drained, Answer, Rests, Still
<1>3. CASE Leave(r)
  BY <1>3 DEF Leave, Still
<1>4. CASE SendHeader(r)
  BY <1>1, <1>4 DEF SendHeader, Streams
<1>5. CASE UpstreamAnswers(r)
  BY <1>1, <1>5 DEF UpstreamAnswers, Answer, Rests, Still, Streams
<1>6. CASE StreamChunk(r)
  BY <1>6 DEF StreamChunk, Streams
<1>7. CASE StreamCall(r)
  BY <1>7 DEF StreamCall, Streams
<1>8. CASE StreamEnds(r)
  BY <1>1, <1>8 DEF StreamEnds, Answer, Rests, Streams
<1>9. CASE Cancelled(r)
  BY <1>1, <1>9 DEF Cancelled, Still, Streams
<1> QED
  BY <1>2, <1>3, <1>4, <1>5, <1>6, <1>7, <1>8, <1>9 DEF Serve, Others

(* No stream has anything but its beginning at first.                      *)
LEMMA StreamInit == BridgeInit => StreamInv
BY OpenedLive, LiveWellFormed DEF BridgeInit, StreamInv

(* Every step keeps it, whatever upstream sends.                           *)
LEMMA StreamStep == StreamInv /\ [BridgeNext]_(bridgeVars) => StreamInv'
<1> SUFFICES ASSUME StreamInv, [BridgeNext]_(bridgeVars) PROVE StreamInv'
    OBVIOUS
<1>1. CASE Still
  BY <1>1 DEF Still, StreamInv
<1>2. ASSUME NEW r \in Requests, Streams(r)
      PROVE  StreamInv'
  <2>1. ASSUME NEW st, stream' = [stream EXCEPT ![r] = st], WellFormed(st),
               at'[r] = "streaming" => Live(st)
        PROVE  StreamInv'
    BY <1>2, <2>1 DEF StreamInv, Streams
  <2>2. CASE stream' = [stream EXCEPT ![r] = Opened]
    BY <2>1, <2>2, OpenedLive, LiveWellFormed
  <2>3. ASSUME NEW c, at[r] = "streaming", stream' = [stream EXCEPT ![r] = AddChunk(@, c)]
        PROVE  StreamInv'
    <3>1. Live(AddChunk(stream[r], c))
      BY <2>3, ChunkLive DEF StreamInv
    <3> QED
      BY <2>1, <2>3, <3>1, LiveWellFormed
  <2>4. ASSUME NEW c, at[r] = "streaming", stream' = [stream EXCEPT ![r] = AddCall(@, c)]
        PROVE  StreamInv'
    <3>1. Live(AddCall(stream[r], c))
      BY <2>4, CallLive DEF StreamInv
    <3> QED
      BY <2>1, <2>4, <3>1, LiveWellFormed
  <2>5. CASE /\ at[r] = "streaming" /\ stream' = [stream EXCEPT ![r] = Close(@)]
             /\ at'[r] # "streaming"
    <3>1. WellFormed(Close(stream[r]))
      BY <2>5, CloseWellFormed DEF StreamInv
    <3> QED
      BY <2>1, <2>5, <3>1
  <2> QED
    BY <1>2, <2>2, <2>3, <2>4, <2>5 DEF Streams
<1>3. CASE ChildEnds \/ ShutdownReturns \/ UNCHANGED bridgeVars
  BY <1>1, <1>3 DEF ChildEnds, ShutdownReturns, bridgeVars, Still
<1>4. ASSUME NEW r \in Requests, Serve(r) \/ Others(r)
      PROVE  StreamInv'
  BY <1>1, <1>2, <1>4, StreamSteps
<1> QED
  BY <1>3, <1>4 DEF BridgeNext

(* A client is sent of every stream, whatever upstream sends and however   *)
(* it ends, blocks that are opened once, before their deltas, and closed   *)
(* once, after them, at the latest when the message is over.  Two have the *)
(* same index only where a text came after the first call; where it came   *)
(* first the indices have no gaps (streamOpenAI).                          *)
THEOREM BlocksAlwaysWellFormed == BridgeSpec => []BlocksWellFormed
<1>1. StreamInv => BlocksWellFormed
  BY DEF StreamInv, BlocksWellFormed
<1> QED
  BY <1>1, StreamInit, StreamStep, PTL DEF BridgeSpec

-----------------------------------------------------------------------------
(* What the bridge makes of a conversation, for any conversation.          *)

(* The parts of a sequence of sequences, joined up to one of them          *)
(* (FlattenSeq, whose recursion a smallest counterexample stands in for).  *)
Upto(f, seqs, n) ==
  f = [i \in 1..n |-> IF i = 1 THEN seqs[i] ELSE f[i - 1] \o seqs[i]]

(* There is such a function, for any length.                               *)
LEMMA FlattenExists ==
  ASSUME NEW seqs, NEW n \in Nat
  PROVE  \E f : Upto(f, seqs, n)
<1> DEFINE Bad == {k \in Nat : ~\E f : Upto(f, seqs, k)}
<1> SUFFICES ASSUME Bad # {} PROVE FALSE
  OBVIOUS
<1>1. PICK k \in Bad : \A other \in Bad : k <= other
  BY LeastOf
<1>2. Upto(<<>>, seqs, 0)
  BY DEF Upto
<1>3. k # 0 /\ k - 1 \in Nat /\ k - 1 \notin Bad
  BY <1>1, <1>2
<1>4. PICK f : Upto(f, seqs, k - 1)
  BY <1>3
<1> DEFINE g == [i \in 1..k |-> IF i < k THEN f[i]
                               ELSE IF i = 1 THEN seqs[i] ELSE f[i - 1] \o seqs[i]]
<1>5. \A i \in 1..k : i # 1 => g[i - 1] = f[i - 1]
  BY <1>1
<1>6. \A i \in 1..k : g[i] = IF i = 1 THEN seqs[i] ELSE g[i - 1] \o seqs[i]
  <2> SUFFICES ASSUME NEW i \in 1..k PROVE g[i] = IF i = 1 THEN seqs[i] ELSE g[i - 1] \o seqs[i]
    OBVIOUS
  <2>1. CASE i < k
    <3>1. i \in 1..k-1 /\ g[i] = f[i]
      BY <1>1, <2>1
    <3>2. f[i] = IF i = 1 THEN seqs[i] ELSE f[i - 1] \o seqs[i]
      BY <1>4, <3>1 DEF Upto
    <3> HIDE DEF g
    <3> QED
      BY <1>5, <3>1, <3>2
  <2>2. CASE i = k
    <3>1. g[i] = IF i = 1 THEN seqs[i] ELSE f[i - 1] \o seqs[i]
      BY <1>1, <2>2
    <3> HIDE DEF g
    <3> QED
      BY <1>5, <3>1
  <2> QED
    BY <1>1, <2>1, <2>2
<1>7. Upto(g, seqs, k)
  <2>1. g = [i \in 1..k |-> g[i]]
    OBVIOUS
  <2> HIDE DEF g
  <2> QED
    BY <1>6, <2>1 DEF Upto
<1> QED
  BY <1>1, <1>7

(* It is what FlattenSeq joins with.                                       *)
LEMMA FlattenIs ==
  ASSUME NEW seqs, Len(seqs) \in Nat, Len(seqs) # 0
  PROVE  \E f : Upto(f, seqs, Len(seqs)) /\ FlattenSeq(seqs) = f[Len(seqs)]
<1> DEFINE n == Len(seqs)
           flat == CHOOSE f : Upto(f, seqs, n)
<1>1. Upto(flat, seqs, n)
  BY FlattenExists
<1>2. FlattenSeq(seqs) = flat[n]
  BY DEF FlattenSeq, Upto
<1> QED
  BY <1>1, <1>2

(* The same of the loop over the blocks of a message (Ids).                *)
IdsUpto(f, blocks, type, n) ==
  f = [i \in 0..n |-> IF i = 0 THEN <<>>
         ELSE IF blocks[i].type = type THEN Append(f[i - 1], blocks[i].id) ELSE f[i - 1]]

(* There is such a function, for any number of blocks.                     *)
LEMMA IdsExist ==
  ASSUME NEW blocks, NEW type, NEW n \in Nat
  PROVE  \E f : IdsUpto(f, blocks, type, n)
<1> DEFINE Bad == {k \in Nat : ~\E f : IdsUpto(f, blocks, type, k)}
           Longer(f, i) ==
             IF blocks[i].type = type THEN Append(f[i - 1], blocks[i].id) ELSE f[i - 1]
<1> SUFFICES ASSUME Bad # {} PROVE FALSE
  OBVIOUS
<1>1. PICK k \in Bad : \A other \in Bad : k <= other
  BY LeastOf
<1>2. k # 0
  <2> DEFINE none == [i \in 0..0 |-> <<>>]
  <2>1. IdsUpto(none, blocks, type, 0)
    BY DEF IdsUpto
  <2> QED
    BY <1>1, <2>1
<1>3. k - 1 \in Nat /\ k - 1 \notin Bad
  BY <1>1, <1>2
<1>4. PICK f : IdsUpto(f, blocks, type, k - 1)
  BY <1>3
<1>5. DOMAIN f = 0..k - 1 /\ \A i \in 0..k - 1 : f[i] = IF i = 0 THEN <<>> ELSE Longer(f, i)
  BY <1>4 DEF IdsUpto
<1> HIDE DEF Longer
<1> DEFINE g == [i \in 0..k |-> IF i < k THEN f[i] ELSE Longer(f, i)]
<1>6. \A i \in 0..k - 1 : i \in 0..k /\ g[i] = f[i]
  BY <1>1
<1>7. g[k] = Longer(f, k)
  BY <1>1
<1>8. \A i \in 1..k : Longer(g, i) = Longer(f, i)
  <2> SUFFICES ASSUME NEW i \in 1..k PROVE Longer(g, i) = Longer(f, i)
    OBVIOUS
  <2>1. g[i - 1] = f[i - 1]
    BY <1>1, <1>6
  <2> HIDE DEF g
  <2> QED
    BY <2>1 DEF Longer
<1>9. g = [i \in 0..k |-> g[i]]
  OBVIOUS
<1> HIDE DEF g
<1>10. \A i \in 0..k : g[i] = IF i = 0 THEN <<>> ELSE Longer(g, i)
  BY <1>1, <1>2, <1>5, <1>6, <1>7, <1>8
<1>11. IdsUpto(g, blocks, type, k)
  BY <1>9, <1>10 DEF IdsUpto, Longer
<1> QED
  BY <1>1, <1>11

(* The numbers of a message's calls or results are a sequence. *)
LEMMA IdsType ==
  ASSUME NEW m \in Messages, NEW type
  PROVE  Ids(m.blocks, type) \in Seq(Nat)
<1> DEFINE blocks == m.blocks
           n == Len(blocks)
           f == CHOOSE f : IdsUpto(f, blocks, type, n)
<1>1. n \in Nat /\ \A i \in 1..n : blocks[i].id \in Nat
  <2> DEFINE Kinds == [type : STRING, id : Nat]
  <2>1. blocks \in Seq(Kinds)
    BY DEF Messages
  <2>2. \A b \in Kinds : b.id \in Nat
    OBVIOUS
  <2> HIDE DEF Kinds, blocks
  <2> QED
    BY <2>1, <2>2
<1>2. IdsUpto(f, blocks, type, n)
  BY <1>1, IdsExist
<1>3. Ids(blocks, type) = f[n]
  BY DEF Ids, IdsUpto
<1> HIDE DEF f, n, blocks
<1>4. \A i \in 0..n : f[i] = IF i = 0 THEN <<>>
         ELSE IF blocks[i].type = type THEN Append(f[i - 1], blocks[i].id) ELSE f[i - 1]
  BY <1>2 DEF IdsUpto
<1> DEFINE Bad == {k \in 0..n : f[k] \notin Seq(Nat)}
<1>5. ASSUME Bad # {} PROVE FALSE
  <2>1. PICK k \in Bad : \A other \in Bad : k <= other
    <3>1. Bad \in SUBSET Nat
      BY <1>1
    <3> HIDE DEF Bad
    <3> QED
      BY <1>5, <3>1, LeastOf
  <2>2. k # 0
    <3>1. f[0] = <<>> /\ <<>> \in Seq(Nat)
      BY <1>1, <1>4
    <3> QED
      BY <2>1, <3>1
  <2>3. k - 1 \in 0..n /\ k \in 1..n /\ k - 1 \notin Bad
    BY <1>1, <2>1, <2>2
  <2>4. f[k - 1] \in Seq(Nat)
    BY <2>3
  <2>5. f[k] \in Seq(Nat)
    <3>1. f[k] = f[k - 1] \/ f[k] = Append(f[k - 1], blocks[k].id)
      BY <1>4, <2>1, <2>2
    <3>2. blocks[k].id \in Nat
      BY <1>1, <2>3
    <3> DEFINE before == f[k - 1]
               id == blocks[k].id
    <3> HIDE DEF before, id
    <3>3. Append(before, id) \in Seq(Nat)
      BY <2>4, <3>2 DEF before, id
    <3> QED
      BY <2>4, <3>1, <3>3 DEF before, id
  <2> QED
    BY <2>1, <2>5
<1>6. f[n] \in Seq(Nat)
  BY <1>1, <1>5
<1> QED
  BY <1>3, <1>6 DEF blocks

(* What upstream is sent.                                                  *)
Entries == [role : {"tool"} \cup STRING, call : Nat, calls : Seq(Nat)]

(* One message: its answers, then what it says itself. *)
LEMMA TranslatedIs ==
  ASSUME NEW m \in Messages
  PROVE  LET ids == Ids(m.blocks, "tool_result")
             uses == Ids(m.blocks, "tool_use")
             t == Translated(m)
         IN /\ t \in Seq(Entries) /\ Len(t) \in {Len(ids), Len(ids) + 1}
            /\ \A i \in 1..Len(ids) : t[i].call = ids[i] /\ t[i].calls = <<>>
            /\ Len(t) = Len(ids) + 1 => t[Len(t)].calls = uses
<1> DEFINE ids == Ids(m.blocks, "tool_result")
           uses == Ids(m.blocks, "tool_use")
           Reply(i) == [role |-> "tool", call |-> ids[i], calls |-> <<>>]
           own == [role |-> m.role, call |-> 0, calls |-> uses]
           t == Translated(m)
           a == Answers(m)
           s == Said(m)
           n == Len(ids)
<1>1. ids \in Seq(Nat) /\ uses \in Seq(Nat) /\ m.role \in STRING
  BY IdsType DEF Messages
<1>2. a = [i \in 1..n |-> Reply(i)]
  BY DEF Answers
<1>3. s = <<own>> \/ s = <<>>
  BY DEF Said
<1>4. t = a \o s
  BY DEF Translated
<1> HIDE DEF ids, uses, t, a, s
<1>5. ASSUME NEW i \in 1..n
      PROVE  Reply(i) \in Entries /\ Reply(i).call = ids[i] /\ Reply(i).calls = <<>>
  <2>1. ids[i] \in Nat
    BY <1>1
  <2>3. <<>> \in Seq(Nat)
    OBVIOUS
  <2> DEFINE id == ids[i]
             none == <<>>
  <2> HIDE DEF none, id
  <2>2. [role |-> "tool", call |-> id, calls |-> none] \in Entries
    BY <2>1, <2>3 DEF Entries, none, id
  <2> QED
    BY <2>2 DEF none, id
<1>6. own \in Entries /\ own.calls = uses
  BY <1>1 DEF Entries
<1>7. n \in Nat
  BY <1>1
<1> HIDE DEF Reply, own, n
<1>8. a \in Seq(Entries) /\ Len(a) = n /\ \A i \in 1..n : a[i] = Reply(i)
  BY <1>2, <1>5, <1>7
<1>9. s \in Seq(Entries) /\ (s = <<>> => Len(s) = 0) /\ (s # <<>> => Len(s) = 1 /\ s[1] = own)
  <2>1. <<own>> \in Seq(Entries) /\ Len(<<own>>) = 1 /\ <<own>>[1] = own
    BY <1>6
  <2>2. <<>> \in Seq(Entries) /\ Len(<<>>) = 0
    OBVIOUS
  <2>3. <<own>> # <<>>
    BY <2>1, <2>2
  <2> QED
    BY <1>3, <2>1, <2>2, <2>3
<1>10. /\ t \in Seq(Entries) /\ Len(t) = Len(a) + Len(s)
       /\ \A i \in 1..Len(a) + Len(s) : t[i] = IF i <= Len(a) THEN a[i] ELSE s[i - Len(a)]
  BY <1>4, <1>8, <1>9, ConcatProperties
<1>11. /\ Len(t) \in {n, n + 1}
       /\ \A i \in 1..n : t[i] = Reply(i)
       /\ Len(t) = n + 1 => t[n + 1] = own
  BY <1>7, <1>8, <1>9, <1>10
<1>12. /\ t \in Seq(Entries) /\ Len(t) \in {n, n + 1}
       /\ \A i \in 1..n : t[i].call = ids[i] /\ t[i].calls = <<>>
       /\ Len(t) = n + 1 => t[Len(t)].calls = uses
  BY <1>5, <1>6, <1>10, <1>11
<1> QED
  BY <1>12 DEF ids, uses, t, n

(* The calls of the i-th entry are answered by those after it. *)
AnsweredAt(chat, i) ==
    LET calls == ToSet(chat[i].calls)
        n == Cardinality(calls)
    IN calls # {} => /\ Len(chat) >= i + n
                     /\ {chat[j].call : j \in i + 1..i + n} = calls

(* A translation up to and with the message m: only the calls of m may     *)
(* still wait for their answers.                                           *)
Halfway(chat, m) ==
    /\ chat \in Seq(Entries)
    /\ \A i \in 1..Len(chat) :
         \/ AnsweredAt(chat, i)
         \/ i = Len(chat) /\ chat[i].calls = Ids(m.blocks, "tool_use")

(* The first message.                                                      *)
LEMMA FirstHalfway ==
  ASSUME NEW m \in Messages
  PROVE  Halfway(Translated(m), m)
<1> DEFINE t == Translated(m)
           n == Len(Ids(m.blocks, "tool_result"))
<1>1. /\ t \in Seq(Entries) /\ Len(t) \in {n, n + 1}
      /\ \A i \in 1..n : t[i].calls = <<>>
      /\ Len(t) = n + 1 => t[Len(t)].calls = Ids(m.blocks, "tool_use")
  BY TranslatedIs
<1>2. n \in Nat
  BY IdsType
<1> HIDE DEF t, n
<1>3. ASSUME NEW i \in 1..Len(t)
      PROVE  AnsweredAt(t, i) \/ (i = Len(t) /\ t[i].calls = Ids(m.blocks, "tool_use"))
  <2>1. CASE i \in 1..n
    <3>1. ToSet(t[i].calls) = {}
      BY <1>1, <2>1 DEF ToSet
    <3> QED
      BY <3>1 DEF AnsweredAt
  <2>2. CASE i \notin 1..n
    BY <1>1, <1>2, <2>2
  <2> QED
    BY <2>1, <2>2
<1> QED
  BY <1>1, <1>3 DEF Halfway, t

(* The numbers of a sequence without repetitions are as many as it is long. *)
LEMMA SetOf ==
  ASSUME NEW s \in Seq(Nat)
  PROVE  /\ ToSet(s) = {s[j] : j \in 1..Len(s)} /\ Cardinality(ToSet(s)) \in Nat
         /\ IsInjective(s) => Cardinality(ToSet(s)) = Len(s)
<1>1. Len(s) \in Nat /\ DOMAIN s = 1..Len(s) /\ s \in [1..Len(s) -> Nat]
  OBVIOUS
<1>2. ToSet(s) = {s[j] : j \in 1..Len(s)}
  BY <1>1 DEF ToSet
<1>3. s \in Surjection(1..Len(s), ToSet(s))
  BY <1>1, <1>2 DEF Surjection
<1>4. IsFiniteSet(1..Len(s)) /\ Cardinality(1..Len(s)) = Len(s)
  <2>1. \A k \in Nat : 1 \in Int /\ k \in Int /\ (1 > k => k = 0) /\ k - 1 + 1 = k
    OBVIOUS
  <2>2. \A k \in Nat : IsFiniteSet(1..k) /\ Cardinality(1..k) = k
    BY <2>1, FS_Interval
  <2> QED
    BY <1>1, <2>2
<1>5. /\ IsFiniteSet(ToSet(s))
      /\ Cardinality(ToSet(s)) = Cardinality(1..Len(s))
            <=> s \in Injection(1..Len(s), ToSet(s))
  BY <1>3, <1>4, FS_Surjection
<1>6. IsInjective(s) => s \in Injection(1..Len(s), ToSet(s))
  BY <1>1, <1>2 DEF IsInjective, Injection, IsInjective
<1> QED
  BY <1>2, <1>4, <1>5, <1>6, FS_CardinalityType

(* The next message: its answers, which come first, are those of the calls *)
(* that waited for them.                                                   *)
LEMMA NextHalfway ==
  ASSUME NEW chat, NEW m \in Messages, NEW next \in Messages, Halfway(chat, m),
         LET asks == ToSet(Ids(m.blocks, "tool_use"))
             answers == Ids(next.blocks, "tool_result")
         IN asks # {} => ToSet(answers) = asks /\ IsInjective(answers)
  PROVE  Halfway(chat \o Translated(next), next)
<1> DEFINE t == Translated(next)
           ids == Ids(next.blocks, "tool_result")
           uses == Ids(m.blocks, "tool_use")
           n == Len(ids)
           k == Len(chat)
           new == chat \o t
<1>1. /\ t \in Seq(Entries) /\ Len(t) \in {n, n + 1}
      /\ \A i \in 1..n : t[i].call = ids[i] /\ t[i].calls = <<>>
      /\ Len(t) = n + 1 => t[Len(t)].calls = Ids(next.blocks, "tool_use")
  BY TranslatedIs
<1>2. ids \in Seq(Nat) /\ n \in Nat
  BY IdsType
<1>3. chat \in Seq(Entries) /\ k \in Nat
  BY DEF Halfway
<1>4. ToSet(uses) # {} => ToSet(ids) = ToSet(uses) /\ IsInjective(ids)
  OBVIOUS
<1> HIDE DEF t, ids, uses, new
<1>5. /\ new \in Seq(Entries) /\ Len(new) = k + Len(t)
      /\ \A i \in 1..k + Len(t) : new[i] = IF i <= k THEN chat[i] ELSE t[i - k]
  <2>1. new = chat \o t
    BY DEF new
  <2> QED
    BY <1>1, <1>3, <2>1, ConcatProperties
<1> HIDE DEF n, k
<1>6. \A i \in 1..k : new[i] = chat[i]
  BY <1>1, <1>2, <1>3, <1>5
<1>7. \A j \in 1..Len(t) : k + j \in 1..Len(new) /\ new[k + j] = t[j]
  BY <1>1, <1>2, <1>3, <1>5
<1>8. ASSUME NEW i \in 1..k
      PROVE  AnsweredAt(new, i)
  <2>1. CASE AnsweredAt(chat, i)
    <3> DEFINE calls == ToSet(chat[i].calls)
               c == Cardinality(calls)
    <3>1. new[i].calls = chat[i].calls
      BY <1>6
    <3>2. SUFFICES ASSUME calls # {}
                   PROVE  Len(new) >= i + c /\ {new[j].call : j \in i + 1..i + c} = calls
      BY <3>1 DEF AnsweredAt
    <3>3. Len(chat) >= i + c /\ {chat[j].call : j \in i + 1..i + c} = calls
      BY <2>1, <3>2 DEF AnsweredAt
    <3>4. c \in Nat
      <4>1. chat[i].calls \in Seq(Nat)
        <5>1. chat[i] \in Entries
          BY <1>3 DEF k
        <5> QED
          BY <5>1 DEF Entries
      <4> QED
        BY <4>1, SetOf
    <3> HIDE DEF calls, c
    <3>5. \A j \in i + 1..i + c : j \in 1..k
      BY <1>3, <3>3, <3>4 DEF k
    <3>6. {new[j].call : j \in i + 1..i + c} = {chat[j].call : j \in i + 1..i + c}
      BY <1>6, <3>5
    <3>7. Len(new) >= i + c
      BY <1>1, <1>2, <1>3, <1>5, <3>3, <3>4 DEF k
    <3> QED
      BY <3>3, <3>6, <3>7
  <2>2. CASE i = k /\ chat[i].calls = uses /\ ToSet(uses) # {}
    <3>1. ToSet(ids) = ToSet(uses) /\ Cardinality(ToSet(uses)) = n
      BY <1>2, <1>4, <2>2, SetOf DEF n
    <3>2. new[i].calls = uses
      BY <1>6, <2>2
    <3>3. Len(new) >= i + n
      BY <1>1, <1>2, <1>3, <1>5, <2>2
    <3>4. \A j \in i + 1..i + n : new[j].call = ids[j - i] /\ j - i \in 1..n
      BY <1>1, <1>2, <1>3, <1>7, <2>2
    <3>5. \A j \in 1..n : i + j \in i + 1..i + n /\ (i + j) - i = j
      BY <1>2, <1>3, <2>2
    <3>6. {new[j].call : j \in i + 1..i + n} = {ids[j] : j \in 1..n}
      BY <3>4, <3>5
    <3>7. ToSet(ids) = {ids[j] : j \in 1..n}
      BY <1>2 DEF ToSet, n
    <3> QED
      BY <3>1, <3>2, <3>3, <3>6, <3>7 DEF AnsweredAt
  <2>3. CASE i = k /\ chat[i].calls = uses /\ ToSet(uses) = {}
    BY <1>6, <2>3 DEF AnsweredAt
  <2> QED
    BY <2>1, <2>2, <2>3 DEF Halfway, k, uses
<1>9. ASSUME NEW i \in 1..Len(new), i \notin 1..k
      PROVE  AnsweredAt(new, i) \/ (i = Len(new) /\ new[i].calls = Ids(next.blocks, "tool_use"))
  <2>1. i - k \in 1..Len(t) /\ new[i] = t[i - k]
    BY <1>1, <1>2, <1>3, <1>5, <1>9
  <2>2. CASE i - k \in 1..n
    <3>1. ToSet(new[i].calls) = {}
      BY <1>1, <2>1, <2>2 DEF ToSet
    <3> QED
      BY <3>1 DEF AnsweredAt
  <2>3. CASE i - k \notin 1..n
    <3>1. Len(t) = n + 1 /\ i - k = Len(t)
      BY <1>1, <1>2, <2>1, <2>3
    <3> QED
      BY <1>1, <1>2, <1>3, <1>5, <2>1, <3>1
  <2> QED
    BY <2>2, <2>3
<1>10. Halfway(new, next)
  BY <1>5, <1>8, <1>9 DEF Halfway
<1> QED
  BY <1>10 DEF new, t

(* A whole conversation.                                                   *)
LEMMA ConversationAnswered ==
  ASSUME NEW c \in Seq(Messages), AnsweredInTurn(c)
  PROVE  AnsweredInPlace(ToOpenAI(c))
<1> DEFINE n == Len(c)
           seqs == [i \in 1..n |-> Translated(c[i])]
<1>1. n \in Nat /\ Len(seqs) = n /\ ToOpenAI(c) = FlattenSeq(seqs)
  BY DEF ToOpenAI
<1>2. \A i \in 1..n : seqs[i] = Translated(c[i]) /\ c[i] \in Messages
  OBVIOUS
<1> HIDE DEF seqs, n
<1>3. CASE n = 0
  <2>1. ToOpenAI(c) = seqs
    BY <1>1, <1>3 DEF FlattenSeq
  <2> QED
    BY <1>1, <1>3, <2>1 DEF AnsweredInPlace
<1>4. CASE n # 0
  <2>1. PICK f : Upto(f, seqs, n) /\ FlattenSeq(seqs) = f[n]
    BY <1>1, <1>4, FlattenIs
  <2>2. \A i \in 1..n : f[i] =
          IF i = 1 THEN Translated(c[i]) ELSE f[i - 1] \o Translated(c[i])
    BY <1>2, <2>1 DEF Upto
  <2> DEFINE Bad == {i \in 1..n : ~Halfway(f[i], c[i])}
  <2>3. ASSUME Bad # {} PROVE FALSE
    <3>1. PICK i \in Bad : \A other \in Bad : i <= other
      <4>1. Bad \in SUBSET Nat
        BY <1>1
      <4> HIDE DEF Bad
      <4> QED
        BY <2>3, <4>1, LeastOf
    <3>2. CASE i = 1
      <4>1. f[i] = Translated(c[i]) /\ c[i] \in Messages
        BY <1>2, <2>2, <3>1, <3>2
      <4> QED
        BY <3>1, <4>1, FirstHalfway
    <3>3. CASE i # 1
      <4> DEFINE before == i - 1
      <4>1. before \in 1..n /\ before \notin Bad /\ before + 1 = i /\ i \in 1..n
        BY <1>1, <3>1, <3>3
      <4>2. Halfway(f[before], c[before])
        BY <4>1
      <4>3. f[i] = f[before] \o Translated(c[i])
        BY <2>2, <3>3, <4>1
      <4> HIDE DEF before
      <4>4. LET asks == ToSet(Ids(c[before].blocks, "tool_use"))
                answers == Ids(c[i].blocks, "tool_result")
            IN asks # {} => ToSet(answers) = asks /\ IsInjective(answers)
        BY <4>1 DEF AnsweredInTurn, n
      <4>5. Halfway(f[i], c[i])
        BY <1>2, <4>1, <4>2, <4>3, <4>4, NextHalfway
      <4> QED
        BY <3>1, <4>5
    <3> QED
      BY <3>2, <3>3
  <2>4. Halfway(f[n], c[n]) /\ n \in 1..n
    BY <1>1, <1>4, <2>3
  <2>5. ToSet(Ids(c[n].blocks, "tool_use")) = {}
    BY <1>1, <2>4 DEF AnsweredInTurn, n
  <2>6. \A i \in 1..Len(f[n]) : AnsweredAt(f[n], i)
    BY <2>4, <2>5 DEF Halfway, AnsweredAt
  <2> QED
    <3>1. ToOpenAI(c) = f[n]
      BY <1>1, <2>1
    <3> DEFINE chat == f[n]
    <3>2. \A i \in 1..Len(chat) : AnsweredAt(chat, i)
      BY <2>6
    <3> HIDE DEF chat
    <3>3. AnsweredInPlace(chat)
      BY <3>2 DEF AnsweredInPlace, AnsweredAt
    <3> QED
      BY <3>1, <3>3 DEF chat
<1> QED
  BY <1>3, <1>4

(* Of every request.                                                       *)
AskedInv == DOMAIN asked = Requests /\ CallsAnswered

(* Nothing asked, nothing to answer.                                       *)
LEMMA NothingAsked == AnsweredInPlace(<<>>)
BY DEF AnsweredInPlace

(* Nothing is asked at first.                                              *)
LEMMA AskedInit == BridgeInit => AskedInv
BY NothingAsked DEF BridgeInit, AskedInv, CallsAnswered

(* What is asked of upstream changes with an answer or a request's body. *)
LEMMA AskedSteps ==
    ASSUME NEW r \in Requests, Serve(r) \/ Others(r)
    PROVE  \/ asked' = asked
           \/ asked' = [asked EXCEPT ![r] = <<>>]
           \/ \E c \in Conversations : asked' = [asked EXCEPT ![r] = ToOpenAI(c)]
BY DEF Serve, Check, StreamCall, Cancelled, DropHeader, DropIdle, Others,
   Connect, SendHeader, ReceiveBody, Drained, Leave, UpstreamAnswers, StreamChunk, StreamEnds,
   Answer, Rests

(* Every step keeps it.                                                    *)
LEMMA AskedStep == ClientsAnswer /\ AskedInv /\ [BridgeNext]_(bridgeVars) => AskedInv'
<1> SUFFICES ASSUME ClientsAnswer, AskedInv, [BridgeNext]_(bridgeVars) PROVE AskedInv'
    OBVIOUS
<1>1. CASE asked' = asked
    BY <1>1 DEF AskedInv, CallsAnswered
<1>2. ASSUME NEW r \in Requests, NEW chat, AnsweredInPlace(chat),
             asked' = [asked EXCEPT ![r] = chat]
      PROVE  AskedInv'
    BY <1>2 DEF AskedInv, CallsAnswered
<1>3. ASSUME NEW r \in Requests, Serve(r) \/ Others(r)
      PROVE  AskedInv'
    <2>1. \A c \in Conversations : AnsweredInPlace(ToOpenAI(c))
        BY ConversationAnswered DEF ClientsAnswer
    <2> QED
        BY <1>1, <1>2, <1>3, <2>1, AskedSteps, NothingAsked
<1>4. CASE ChildEnds \/ ShutdownReturns \/ UNCHANGED bridgeVars
    BY <1>1, <1>4 DEF ChildEnds, ShutdownReturns, bridgeVars
<1> QED
    BY <1>3, <1>4 DEF BridgeNext

(* Where clients answer the calls of a message in the next one, each once, *)
(* upstream is asked with each call answered right after it, however long  *)
(* the conversation (toOpenAI).                                            *)
THEOREM CallsAlwaysAnswered == ClientsAnswer /\ BridgeSpec => []CallsAnswered
<1> SUFFICES ASSUME ClientsAnswer PROVE BridgeSpec => []CallsAnswered
    OBVIOUS
<1>1. AskedInv => CallsAnswered
    BY DEF AskedInv
<1>2. AskedInv /\ [BridgeNext]_(bridgeVars) => AskedInv'
    BY AskedStep
<1> QED
    BY <1>1, <1>2, AskedInit, PTL DEF BridgeSpec
=============================================================================
