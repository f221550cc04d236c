------------------------------ MODULE Catalogue ------------------------------
(***************************************************************************)
(* Providers, keys and profiles: three files that refer to each other and  *)
(* that commands (cmd/provider.go, key.go, profile.go, root.go, init.go)   *)
(* and the terminal interface (internal/tui/update.go, wizard_update.go)   *)
(* edit from several processes.                                            *)
(*                                                                         *)
(* MutateRegistryFile and MutateStoreFile read and write their file under  *)
(* its lock, in two steps here; the coordination lock spans files.  An     *)
(* edit of the vault is one step: VaultStore shows that it acts like one.  *)
(* Of a provider its slug is kept and whose edits its record holds, of a   *)
(* key its provider, of a profile its provider and key; names, models and  *)
(* secrets are data.                                                       *)
(***************************************************************************)
EXTENDS Naturals, FiniteSets

CONSTANTS
    Slugs,
    Defaults,       \* DefaultProviders()
    Families,       \* the slugs that share credentials, CredentialCompatible
    Keys,
    Names,
    Processes,
    Tui,            \* the process that runs the terminal interface
    Commands,       \* ways to use the program: the operations of each process
    Default,        \* "default", what a blank provider of a new key becomes
    Blank,          \* "", the provider of a key edited to have none
    Missing,        \* a file that does not exist
    Unused,         \* a key id nobody has drawn yet
    None

InterfaceOnly == {"provider rename", "restore defaults", "key edit", "key replace",
                  "profile edit"}

ASSUME CatalogueAssumption ==
    /\ Tui \in Processes /\ Defaults \subseteq Slugs /\ Default \in Slugs
    /\ \A u \in Commands :
         /\ "bootstrap" \notin u[Tui]
         /\ \A p \in Processes \ {Tui} : u[p] \cap InterfaceOnly = {}
ASSUME MissingAssumption ==
    /\ \A s \in SUBSET Slugs : Missing # s
    /\ {None, Unused, Blank} \cap Slugs = {} /\ Blank \notin {None, Unused}

Bindings == [provider : Slugs, key : Keys]
Profiles == [Names -> Bindings \cup {None}]
NoProfiles == [n \in Names |-> None]
Records == [Keys -> Slugs \cup {Blank, Unused, None}]
Files == {"config", "registry", "profiles"}

VARIABLES
    uses,           \* the way the program is used this time
    registry,       \* the slugs of providers.json
    edits,          \* of each provider, the processes that have changed its record
    vault,          \* the provider of each key
    profiles,       \* profiles.json
    lock,           \* coordination.lock and the locks of the two files
    memory,         \* the interface's providers, vault and profiles
    proc            \* the command each process is in

vars == <<uses, registry, edits, vault, profiles, lock, memory, proc>>
files == <<registry, edits, vault, profiles>>

Ops == {"provider add", "provider remove", "provider edit", "provider rename",
        "provider models", "restore defaults",
        "key add", "key edit", "key delete", "key replace",
        "profile create", "profile edit", "profile delete", "bootstrap"}
Edits == [Slugs -> SUBSET Processes]
NoEdits == [s \in Slugs |-> {}]
Command == [op : Ops, slug : Slugs, new : Slugs \cup {Blank}, key : Keys, name : Names]
Activity == [op : Ops, slug : Slugs, new : Slugs \cup {Blank}, key : Keys, name : Names,
             at : {"begun", "coordinated", "checked", "read", "merged", "stat"},
             record : SUBSET Processes,
             data : [slugs : SUBSET Slugs, edits : Edits, profiles : Profiles]]
Nothing == [slugs |-> {}, edits |-> NoEdits, profiles |-> NoProfiles]
ASSUME NoneAssumption == None \notin Processes /\ Missing \notin Profiles

KnownUnchecked(r) == IF r = Missing THEN {Missing} ELSE r
Known(r) == IF r = Missing THEN {} ELSE r
Stored(s) == IF s = Missing THEN NoProfiles ELSE s
Compatible(slug, of) == of \in {Blank, slug} \/ \E f \in Families : {slug, of} \subseteq f
Present(v, k) == v[k] \notin {Unused, None}
Usable(v, k, slug) == Present(v, k) /\ Compatible(slug, v[k])
UsedBy(s, k) == {n \in Names : Stored(s)[n] # None /\ Stored(s)[n].key = k}

(* What the operations look at before they take any lock: a command at the *)
(* files, the interface at its memory.                                     *)
Seen(p) ==
    IF p = Tui THEN memory
    ELSE [registry |-> Known(registry), edits |-> edits, vault |-> vault,
          profiles |-> profiles]

(* Only a key can be given a blank provider.                               *)
Accepted(p, c) ==
    LET s == Seen(p)
    IN /\ c.new # c.slug => c.op \in {"provider rename", "key edit"}
       /\ CASE c.op = "provider remove" ->
                 p = Tui => \A k \in Keys : s.vault[k] # c.slug
            [] c.op = "key add" -> c.slug \in s.registry \/ (p = Tui /\ c.slug = Default)
            [] c.op \in {"provider edit", "provider models"} ->
                 c.slug \in s.registry
            [] c.op = "provider rename" -> c.slug \in s.registry /\ c.new \in Slugs
            [] c.op = "key edit" -> Present(s.vault, c.key)
            [] c.op = "key delete" ->
                 IF p = Tui THEN UsedBy(s.profiles, c.key) = {} ELSE Present(s.vault, c.key)
            [] c.op = "key replace" ->
                 /\ c.name \in UsedBy(s.profiles, c.key)
                 /\ Stored(s.profiles)[c.name].provider \in s.registry
                 /\ Usable(s.vault, c.key, Stored(s.profiles)[c.name].provider)
            [] c.op = "profile create" ->
                 c.slug \in s.registry /\ Usable(s.vault, c.key, c.slug)
            [] c.op = "profile edit" ->
                 c.slug \in s.registry /\ Stored(s.profiles)[c.name] # None
            [] OTHER -> TRUE
-----------------------------------------------------------------------------
Init ==
    /\ uses \in Commands
    /\ registry \in {Missing, Defaults, Slugs}
    /\ edits = NoEdits
    /\ profiles \in {Missing, NoProfiles}
    /\ vault = [k \in Keys |-> Unused]
    /\ lock = [f \in Files |-> None]
    /\ memory = [registry |-> Known(registry), edits |-> edits, vault |-> vault,
                 profiles |-> profiles]
    /\ proc = [p \in Processes |-> None]

At(p, ops, place) == /\ proc[p] # None
                     /\ proc[p].op \in ops
                     /\ proc[p].at = place
Goto(p, place) == proc' = [proc EXCEPT ![p].at = place]
Read(p, slugs, of, s) == proc' = [proc EXCEPT
    ![p].at = "read", ![p].data = [slugs |-> slugs, edits |-> of, profiles |-> s]]
Free(f) == lock[f] = None
Freed(p) == [f \in Files |-> IF lock[f] = p THEN None ELSE lock[f]]
Done(p) == /\ proc' = [proc EXCEPT ![p] = None]
           /\ lock' = Freed(p)

(* loadStores, which most commands begin with, has brought the defaults    *)
(* back (Heal).                                                            *)
Healed(p, op) ==
    p # Tui /\ op \notin {"key delete", "bootstrap"} => Defaults \subseteq Known(registry)

(* The forms of a provider change its whole record as it was read (the     *)
(* interface its copy in memory, there and then), before any lock.         *)
Whole == {"provider edit", "provider rename"}
Changed(m, p, c) == [m EXCEPT
    !.registry = (@ \ {c.slug}) \cup {c.new},
    !.edits = [@ EXCEPT ![c.slug] = {}, ![c.new] = m.edits[c.slug] \cup {p}]]
Begin(p, c) ==
    /\ proc[p] = None
    /\ Healed(p, c.op)
    /\ c.op \in uses[p]
    /\ Accepted(p, c)
    /\ proc' = [proc EXCEPT ![p] =
            [op |-> c.op, slug |-> c.slug, new |-> c.new, key |-> c.key,
             name |-> c.name, at |-> "begun",
             record |-> IF c.op \in Whole THEN Seen(p).edits[c.slug] \cup {p} ELSE {},
             data |-> Nothing]]
    /\ memory' = IF p = Tui /\ c.op \in Whole THEN Changed(memory, p, c) ELSE memory
    /\ UNCHANGED <<uses, files, lock>>

(* An operation refused by its check of the latest state, or killed. *)
GiveUp(p) ==
    /\ proc[p] # None
    /\ Done(p)
    /\ UNCHANGED <<uses, files, memory>>

(* Run and unlock: the interface loads the files; without a registry it    *)
(* saves the defaults.                                                     *)
Load ==
    /\ proc[Tui] = None
    /\ registry' = IF registry = Missing THEN Defaults ELSE registry
    /\ memory' = [registry |-> registry', edits |-> edits, vault |-> vault,
                  profiles |-> profiles]
    /\ UNCHANGED <<uses, edits, vault, profiles, lock, proc>>
Unlock ==
    /\ proc[Tui] = None
    /\ memory' = [memory EXCEPT !.vault = vault]
    /\ UNCHANGED <<uses, files, lock, proc>>

(* WithConfigLock, and what is checked first under it: the keys of a       *)
(* provider that goes, the provider of a key the interface adds unless it  *)
(* is "default".                                                           *)
Coordinated(p) ==
    {"provider remove"} \cup (IF p = Tui THEN {"provider add", "key add"} ELSE {})
NoProviderCheck(c) == TRUE
FreshProvider(c) == c.slug = Default \/ c.slug \in Known(registry)
KeysAllow(p) ==
    CASE proc[p].op = "provider remove" -> \A k \in Keys : vault[k] # proc[p].slug
      [] proc[p].op = "key add" -> FreshProvider(proc[p])
      [] OTHER -> TRUE
CoordinateUnlocked(p) ==
    /\ At(p, Coordinated(p), "begun")
    /\ KeysAllow(p)
    /\ Goto(p, "coordinated")
    /\ UNCHANGED <<uses, files, lock, memory>>
Coordinate(p) ==
    /\ At(p, Coordinated(p), "begun")
    /\ Free("config")
    /\ KeysAllow(p)
    /\ lock' = [lock EXCEPT !["config"] = p]
    /\ Goto(p, "coordinated")
    /\ UNCHANGED <<uses, files, memory>>

(* The profiles of a provider that goes. *)
CheckProfiles(p) ==
    /\ At(p, {"provider remove"}, "coordinated")
    /\ \A n \in Names : Stored(profiles)[n] # None
         => Stored(profiles)[n].provider # proc[p].slug
    /\ Goto(p, "checked")
    /\ UNCHANGED <<uses, files, lock, memory>>

(* MutateRegistryFile takes the lock of the file and reads it; restoring   *)
(* the defaults, and saving models, fall back to the interface's memory.   *)
RegistryOps == {"provider add", "provider remove", "provider edit", "provider rename",
                "provider models", "restore defaults"}
ReadyForRegistry(p) ==
    \/ At(p, {"provider remove"}, "checked")
    \/ At(p, RegistryOps \ {"provider remove"},
          IF proc[p] # None /\ proc[p].op \in Coordinated(p) THEN "coordinated" ELSE "begun")
Fallback(op) ==
    IF registry # Missing THEN registry
    ELSE IF op \in {"restore defaults", "provider models"} THEN memory.registry ELSE {}
ReadRegistryUnlocked(p) ==
    /\ ReadyForRegistry(p)
    /\ Read(p, Fallback(proc[p].op), edits, NoProfiles)
    /\ UNCHANGED <<uses, files, lock, memory>>
ReadRegistry(p) ==
    /\ ReadyForRegistry(p)
    /\ Free("registry")
    /\ lock' = [lock EXCEPT !["registry"] = p]
    /\ Read(p, Fallback(proc[p].op), edits, NoProfiles)
    /\ UNCHANGED <<uses, files, memory>>

(* Add, Remove, Update, SetDynamicModels and MergeDefaults on what was     *)
(* read, and Save: Update puts in the whole record the form was filled     *)
(* from.  The interface's memory follows a removal; an added provider, and *)
(* models, are not in it before the next start.                            *)
WriteRegistry(p) ==
    /\ At(p, RegistryOps, "read")
    /\ LET c == proc[p]  r == proc[p].data.slugs  e == proc[p].data.edits
           added == c.op = "provider add" /\ c.slug \notin r
           removed == c.op = "provider remove" /\ c.slug \in r
           to == IF c.op = "provider rename" THEN c.new ELSE c.slug
           replaced == /\ c.op \in Whole /\ c.slug \in r
                       /\ to = c.slug \/ to \in Slugs \ r
           refreshed == c.op = "provider models" /\ c.slug \in r
           leaves == IF removed \/ replaced THEN {c.slug} ELSE {}
           enters == IF added THEN {c.slug} ELSE IF replaced THEN {to}
                     ELSE IF c.op = "restore defaults" THEN Defaults ELSE {}
       IN /\ added \/ removed \/ replaced \/ refreshed \/ c.op = "restore defaults"
          /\ registry' = (r \ leaves) \cup enters
          /\ edits' = [s \in Slugs |->
                 IF replaced /\ s = to THEN c.record
                 ELSE IF s \in leaves THEN {}
                 ELSE IF refreshed /\ s = c.slug THEN e[s] \cup {p}
                 ELSE e[s]]
          /\ memory' = IF p = Tui /\ removed
                       THEN [memory EXCEPT !.registry = @ \ leaves] ELSE memory
    /\ Done(p)
    /\ UNCHANGED <<uses, vault, profiles>>

(* Edits of the vault: commands under the coordination lock, of the        *)
(* interface only the addition; it loads the vault again after its edit.   *)
VaultOps == {"key add", "key edit", "key delete", "key replace"}
VaultReady(p) ==
    IF p # Tui THEN At(p, VaultOps, "begun") /\ Free("config")
    ELSE At(p, {"key add"}, "coordinated") \/ At(p, VaultOps \ {"key add"}, "begun")
WriteVault(p) ==
    /\ VaultReady(p)
    /\ LET c == proc[p]
       IN /\ IF c.op = "key add" THEN vault[c.key] = Unused ELSE Present(vault, c.key)
          /\ vault' = [vault EXCEPT ![c.key] =
                  IF c.op = "key add" THEN c.slug
                  ELSE IF c.op = "key edit" THEN c.new
                  ELSE IF c.op = "key delete" THEN None ELSE @]
    /\ memory' = IF p = Tui THEN [memory EXCEPT !.vault = vault'] ELSE memory
    /\ Done(p)
    /\ UNCHANGED <<uses, registry, edits, profiles>>

(* commitProfileEdit checks the key in the vault; MutateStoreFile.         *)
StoreOps == {"profile create", "profile edit", "profile delete"}
CheckKey(p) ==
    /\ At(p, {"profile edit"}, "begun")
    /\ Usable(vault, proc[p].key, proc[p].slug)
    /\ Goto(p, "checked")
    /\ UNCHANGED <<uses, files, lock, memory>>
ReadProfiles(p) ==
    /\ At(p, StoreOps \ {"profile edit"}, "begun") \/ At(p, {"profile edit"}, "checked")
    /\ Free("profiles")
    /\ lock' = [lock EXCEPT !["profiles"] = p]
    /\ Read(p, {}, NoEdits, Stored(profiles))
    /\ UNCHANGED <<uses, files, memory>>
WriteProfiles(p) ==
    /\ At(p, StoreOps, "read")
    /\ LET c == proc[p]
       IN /\ (c.data.profiles[c.name] = None) = (c.op = "profile create")
          /\ profiles' = [c.data.profiles EXCEPT ![c.name] =
                  IF c.op = "profile delete" THEN None
                  ELSE [provider |-> c.slug, key |-> c.key]]
          /\ memory' = IF p = Tui /\ c.op = "profile edit"
                       THEN [memory EXCEPT !.profiles = profiles', !.vault = vault]
                       ELSE memory
    /\ Done(p)
    /\ UNCHANGED <<uses, registry, edits, vault>>

(* AutoBootstrap, which takes no lock: merge the defaults into the         *)
(* registry, then create profiles.json if it is missing.                   *)
BootstrapRead(p) ==
    /\ At(p, {"bootstrap"}, "begun")
    /\ Read(p, Known(registry), edits, NoProfiles)
    /\ UNCHANGED <<uses, files, lock, memory>>
BootstrapRegistry(p) ==
    /\ At(p, {"bootstrap"}, "read")
    /\ registry' = IF Defaults \subseteq proc[p].data.slugs THEN registry
                   ELSE proc[p].data.slugs \cup Defaults
    /\ edits' = IF Defaults \subseteq proc[p].data.slugs THEN edits ELSE proc[p].data.edits
    /\ Goto(p, "merged")
    /\ UNCHANGED <<uses, vault, profiles, lock, memory>>
BootstrapStat(p) ==
    /\ At(p, {"bootstrap"}, "merged")
    /\ IF profiles = Missing THEN Goto(p, "stat") /\ UNCHANGED lock ELSE Done(p)
    /\ UNCHANGED <<uses, files, memory>>
BootstrapProfiles(p) ==
    /\ At(p, {"bootstrap"}, "stat")
    /\ profiles' = NoProfiles
    /\ Done(p)
    /\ UNCHANGED <<uses, registry, edits, vault, memory>>

(* loadStores writes the defaults back when the registry lacks some. *)
Heal(p) ==
    /\ p # Tui /\ proc[p] = None
    /\ Free("registry")
    /\ ~ Defaults \subseteq Known(registry)
    /\ registry' = Known(registry) \cup Defaults
    /\ UNCHANGED <<uses, edits, vault, profiles, lock, memory, proc>>
-----------------------------------------------------------------------------
Step(p) ==
    \/ GiveUp(p) \/ Heal(p)
    \/ Coordinate(p) \/ CheckProfiles(p) \/ ReadRegistry(p) \/ WriteRegistry(p)
    \/ WriteVault(p)
    \/ CheckKey(p) \/ ReadProfiles(p) \/ WriteProfiles(p)
    \/ BootstrapRead(p) \/ BootstrapRegistry(p)
    \/ BootstrapStat(p) \/ BootstrapProfiles(p)

Next ==
    \/ Load \/ Unlock
    \/ \E p \in Processes : Step(p) \/ \E c \in Command : Begin(p, c)

Spec == Init /\ [][Next]_vars
-----------------------------------------------------------------------------
TypeOK ==
    /\ uses \in Commands
    /\ registry \in (SUBSET Slugs) \cup {Missing}
    /\ edits \in Edits
    /\ vault \in Records
    /\ profiles \in Profiles \cup {Missing}
    /\ lock \in [Files -> Processes \cup {None}]
    /\ memory \in [registry : SUBSET Slugs, edits : Edits, vault : Records,
                   profiles : Profiles \cup {Missing}]
    /\ proc \in [Processes -> Activity \cup {None}]

NotUsed(ops) == \A p \in Processes : uses[p] \cap ops = {}

(* Edits are built on the latest file under its lock (MutateRegistryFile,  *)
(* MutateStoreFile): one step changes one entry, or brings the defaults    *)
(* back, and never takes back what another process has written since.  The *)
(* exceptions are AutoBootstrap, which takes no lock, and the edit of a    *)
(* provider, which puts in the whole record it was filled from: what       *)
(* others wrote to that provider meanwhile goes, but to no other.          *)
NothingUndone ==
    [][NotUsed({"bootstrap"}) =>
       LET r == Known(registry)  q == Known(registry')
           s == Stored(profiles)  t == Stored(profiles')
       IN /\ Cardinality(r \ q) <= 1
          /\ Cardinality(q \ r) <= 1 \/ q = r \cup Defaults
          /\ r \ q # {} /\ q \ r # {} => \E p \in Processes : At(p, {"provider rename"}, "read")
          /\ \A of \in r \cap q : edits[of] \subseteq edits'[of]
               \/ \E p \in Processes : At(p, Whole, "read") /\ proc[p].slug = of
          /\ Cardinality({n \in Names : s[n] # t[n]}) <= 1
          /\ \A n \in Names : s[n] # t[n] =>
                \E p \in Processes : proc[p] # None /\ proc[p].name = n]_vars

(* Removing a provider (cmd/provider.go, applyDelete): while keys are      *)
(* edited under the coordination lock, none refers to it when it goes.     *)
(* (Editing a key, renaming a provider and AutoBootstrap do without.)      *)
RemovedUnused ==
    [][NotUsed({"provider rename", "key edit", "bootstrap"}) =>
       \A s \in Known(registry) \ Known(registry') :
         \A k \in Keys : vault[k] # s]_vars

(* When keys are added through the interface, which looks for the provider *)
(* again under the lock, every key has its provider for good, or is        *)
(* "default"'s, which nobody looks for.  (A command looks for the provider *)
(* before it asks for the key, AutoBootstrap may drop a provider that was  *)
(* added beside it, and editing a key or renaming a provider looks for     *)
(* nothing.)                                                               *)
KeysHaveProviders ==
    /\ NotUsed({"provider rename", "key edit", "bootstrap"})
    /\ \A p \in Processes \ {Tui} : "key add" \notin uses[p]
    => \A k \in Keys : Present(vault, k) => vault[k] \in Known(registry) \cup {Default}
=============================================================================
