--------------------------- MODULE CatalogueProofs ---------------------------
(***************************************************************************)
(* The catalogue's edits, for any set of processes, providers, keys and    *)
(* profiles, and any way the program is used.                              *)
(*                                                                         *)
(* Whoever is between a read and a write of a file has its lock, so what   *)
(* it has read is still the file; whoever removes a provider has the       *)
(* coordination lock since it saw that no key refers to it, and whoever    *)
(* adds a key needs that lock.                                             *)
(***************************************************************************)
EXTENDS Catalogue, FiniteSetTheorems, TLAPS

Registering(p) == At(p, RegistryOps, "read")
Storing(p) == At(p, StoreOps, "read")
Coordinating(p) == /\ proc[p] # None
                   /\ proc[p].op \in Coordinated(p) /\ proc[p].at # "begun"

OpsUsed == \A p \in Processes : proc[p] # None => proc[p].op \in uses[p]

LocksHeld ==
    \A p \in Processes :
        /\ Registering(p) => lock["registry"] = p
        /\ Storing(p) => lock["profiles"] = p
        /\ Coordinating(p) => lock["config"] = p

(* Before the first registry is saved nobody but a bootstrap, or a command *)
(* that has nothing to merge, is under way.                                *)
MissingSound ==
    registry = Missing =>
        /\ memory.registry = {}
        /\ \A p \in Processes \ {Tui} :
             proc[p] # None /\ proc[p].op \notin {"key delete", "bootstrap"} => Defaults = {}

(* What was read is still in the file. *)
Fresh ==
    NotUsed({"bootstrap"}) =>
        \A p \in Processes :
            /\ Registering(p) => /\ proc[p].data.slugs = Known(registry)
                                 /\ proc[p].data.edits = edits
            /\ Storing(p) => proc[p].data.profiles = Stored(profiles)

(* The keys have been looked through, and none is added any more. *)
RemoveSound ==
    NotUsed({"provider rename", "key edit", "bootstrap"}) =>
        \A p \in Processes :
            proc[p] # None /\ proc[p].op = "provider remove" /\ proc[p].at # "begun"
            => \A k \in Keys : vault[k] # proc[p].slug

AddSound ==
    NotUsed({"provider rename", "key edit", "bootstrap"}) =>
        (At(Tui, {"key add"}, "coordinated") =>
            proc[Tui].slug \in Known(registry) \cup {Default})

IInv == /\ TypeOK /\ OpsUsed /\ LocksHeld /\ MissingSound /\ Fresh
        /\ RemoveSound /\ AddSound /\ KeysHaveProviders
-----------------------------------------------------------------------------
(* The other processes, and the locks they hold, when p does a step. *)
Elsewhere(p) ==
    /\ \A q \in Processes \ {p} : proc'[q] = proc[q]
    /\ \A f \in Files : lock'[f] # lock[f] => lock[f] \in {None, p}

Places == {"begun", "coordinated", "checked", "read", "merged", "stat"}
Memories == [registry : SUBSET Slugs, edits : Edits, vault : Records,
             profiles : Profiles \cup {Missing}]

LEMMA Active ==
    ASSUME TypeOK, NEW p \in Processes, proc[p] # None
    PROVE  /\ proc[p] \in Activity /\ proc \in [Processes -> Activity \cup {None}]
           /\ proc[p].op \in Ops /\ proc[p].slug \in Slugs /\ proc[p].new \in Slugs \cup {Blank}
           /\ proc[p].record \in SUBSET Processes /\ proc[p].data.edits \in Edits
           /\ proc[p].key \in Keys /\ proc[p].name \in Names /\ proc[p].at \in Places
           /\ proc[p].data.slugs \in SUBSET Slugs /\ proc[p].data.profiles \in Profiles
<1>1. proc[p] \in Activity /\ proc \in [Processes -> Activity \cup {None}]
    BY DEF TypeOK
<1> QED
    BY <1>1 DEF Activity, Places

LEMMA GotoMoves ==
    ASSUME TypeOK, NEW p \in Processes, proc[p] # None, NEW place \in Places, Goto(p, place)
    PROVE  /\ proc' \in [Processes -> Activity \cup {None}]
           /\ proc'[p] = [proc[p] EXCEPT !.at = place]
           /\ \A q \in Processes \ {p} : proc'[q] = proc[q]
           /\ proc'[p].at = place
           /\ \A f \in {"op", "slug", "new", "key", "name", "record", "data"} :
                proc'[p][f] = proc[p][f]
<1>1. proc[p] \in Activity /\ proc \in [Processes -> Activity \cup {None}]
    BY Active
<1>2. proc' = [proc EXCEPT ![p] = [proc[p] EXCEPT !.at = place]]
    BY DEF Goto
<1>3. proc'[p] = [proc[p] EXCEPT !.at = place] /\ \A q \in Processes \ {p} : proc'[q] = proc[q]
    BY <1>1, <1>2
<1>4. /\ [proc[p] EXCEPT !.at = place] \in Activity
      /\ proc'[p].at = place
      /\ \A f \in {"op", "slug", "new", "key", "name", "record", "data"} :
           proc'[p][f] = proc[p][f]
    BY <1>1, <1>3 DEF Activity, Places
<1> QED
    BY <1>1, <1>2, <1>3, <1>4

LEMMA ReadMoves ==
    ASSUME TypeOK, NEW p \in Processes, proc[p] # None, NEW r \in SUBSET Slugs,
           NEW e \in Edits, NEW s \in Profiles, Read(p, r, e, s)
    PROVE  /\ proc' \in [Processes -> Activity \cup {None}]
           /\ \A q \in Processes \ {p} : proc'[q] = proc[q]
           /\ proc'[p].at = "read"
           /\ proc'[p].data.slugs = r /\ proc'[p].data.edits = e
           /\ proc'[p].data.profiles = s
           /\ \A f \in {"op", "slug", "new", "key", "name", "record"} :
                proc'[p][f] = proc[p][f]
<1> DEFINE d == [slugs |-> r, edits |-> e, profiles |-> s]
<1>1. proc[p] \in Activity /\ proc \in [Processes -> Activity \cup {None}]
    BY Active
<1>2. proc' = [proc EXCEPT ![p].at = "read", ![p].data = d]
    BY DEF Read
<1>3. /\ d \in [slugs : SUBSET Slugs, edits : Edits, profiles : Profiles]
      /\ d.slugs = r /\ d.edits = e /\ d.profiles = s
    OBVIOUS
<1> HIDE DEF d
<1>4. proc'[p] = [proc[p] EXCEPT !.at = "read", !.data = d]
      /\ \A q \in Processes \ {p} : proc'[q] = proc[q]
    BY <1>1, <1>2
<1>5. /\ proc'[p] \in Activity
      /\ proc'[p].at = "read" /\ proc'[p].data = d
      /\ \A f \in {"op", "slug", "new", "key", "name", "record"} :
           proc'[p][f] = proc[p][f]
    BY <1>1, <1>3, <1>4 DEF Activity
<1>6. proc' \in [Processes -> Activity \cup {None}]
    BY <1>1, <1>2, <1>4, <1>5
<1> QED
    BY <1>3, <1>4, <1>5, <1>6

LEMMA DoneMoves ==
    ASSUME TypeOK, NEW p \in Processes, Done(p)
    PROVE  /\ proc' \in [Processes -> Activity \cup {None}]
           /\ proc'[p] = None /\ \A q \in Processes \ {p} : proc'[q] = proc[q]
           /\ lock' \in [Files -> Processes \cup {None}]
           /\ \A f \in Files : lock'[f] # lock[f] => lock[f] = p
BY DEF Done, Freed, TypeOK

LEMMA KnownType ==
    /\ \A r \in (SUBSET Slugs) \cup {Missing} : Known(r) \in SUBSET Slugs
    /\ \A r \in SUBSET Slugs : Known(r) = r /\ r # Missing
    /\ Known(Missing) = {}
<1>1. \A r \in SUBSET Slugs : r # Missing
    BY MissingAssumption
<1>2. \A r \in SUBSET Slugs : Known(r) = r
    BY <1>1 DEF Known
<1>3. Known(Missing) = {} /\ {} \in SUBSET Slugs
    BY DEF Known
<1>4. \A r \in (SUBSET Slugs) \cup {Missing} : Known(r) \in SUBSET Slugs
    BY <1>2, <1>3
<1> QED
    BY <1>1, <1>2, <1>3, <1>4

LEMMA StoredType ==
    /\ NoProfiles \in Profiles
    /\ \A s \in Profiles \cup {Missing} : Stored(s) \in Profiles
    /\ \A s \in Profiles : Stored(s) = s
BY NoneAssumption DEF Stored, NoProfiles, Profiles

LEMMA EditsType == TypeOK => edits \in Edits /\ NoEdits \in Edits
BY DEF TypeOK, NoEdits, Edits

LEMMA DefaultsType == Defaults \in SUBSET Slugs /\ Tui \in Processes
BY CatalogueAssumption

LEMMA FallbackType ==
    ASSUME TypeOK
    PROVE  Known(registry) \in SUBSET Slugs /\ \A op : Fallback(op) \in SUBSET Slugs
<1>1. memory.registry \in SUBSET Slugs /\ {} \in SUBSET Slugs
      /\ (registry \in SUBSET Slugs \/ registry = Missing)
    BY DEF TypeOK
<1> QED
    BY <1>1, KnownType DEF Fallback

(* What a registry is saved as. *)
LEMMA RegistryWritten ==
    ASSUME TypeOK, NEW p \in Processes, WriteRegistry(p)
    PROVE  /\ registry' \in SUBSET Slugs /\ registry' # Missing
           /\ memory' \in Memories /\ edits' \in Edits
           /\ memory'.vault = memory.vault
           /\ Registering(p) /\ Done(p)
<1> DEFINE c == proc[p]
           r == proc[p].data.slugs
           e == proc[p].data.edits
           added == c.op = "provider add" /\ c.slug \notin r
           removed == c.op = "provider remove" /\ c.slug \in r
           to == IF c.op = "provider rename" THEN c.new ELSE c.slug
           replaced == /\ c.op \in Whole /\ c.slug \in r
                       /\ to = c.slug \/ to \in Slugs \ r
           refreshed == c.op = "provider models" /\ c.slug \in r
           leaves == IF removed \/ replaced THEN {c.slug} ELSE {}
           enters == IF added THEN {c.slug} ELSE IF replaced THEN {to}
                     ELSE IF c.op = "restore defaults" THEN Defaults ELSE {}
<1>1. proc[p] # None /\ Registering(p) /\ Done(p)
    BY DEF WriteRegistry, At, Registering
<1>2. c.slug \in Slugs /\ r \in SUBSET Slugs /\ e \in Edits /\ c.record \in SUBSET Processes
    BY <1>1, Active
<1>3. registry' = (r \ leaves) \cup enters
    BY DEF WriteRegistry
<1>4. memory' = IF p = Tui /\ removed
                THEN [memory EXCEPT !.registry = @ \ leaves] ELSE memory
    BY DEF WriteRegistry
<1>5. leaves \in SUBSET Slugs /\ enters \in SUBSET Slugs
    BY <1>2, DefaultsType
<1>9. edits' \in Edits
    <2>1. edits' = [s \in Slugs |->
                 IF replaced /\ s = to THEN c.record
                 ELSE IF s \in leaves THEN {}
                 ELSE IF refreshed /\ s = c.slug THEN e[s] \cup {p}
                 ELSE e[s]]
        BY DEF WriteRegistry
    <2> HIDE DEF leaves, replaced, refreshed, to
    <2>2. \A s \in Slugs : e[s] \in SUBSET Processes
        BY <1>2 DEF Edits
    <2> QED
        BY <1>2, <2>1, <2>2 DEF Edits
<1> HIDE DEF leaves, enters, r, c, e, added, removed
<1>6. registry' \in SUBSET Slugs
    BY <1>2, <1>3, <1>5
<1>7. memory \in Memories
    BY DEF TypeOK, Memories
<1>8. /\ memory' \in Memories
      /\ memory'.vault = memory.vault
    BY <1>4, <1>5, <1>7 DEF Memories
<1> QED
    BY <1>1, <1>6, <1>8, <1>9, KnownType

LEMMA TypeInit == Init => TypeOK
<1> SUFFICES ASSUME Init PROVE TypeOK
    OBVIOUS
<1>1. registry \in (SUBSET Slugs) \cup {Missing} /\ Known(registry) \in SUBSET Slugs
    <2>1. registry \in {Missing, Defaults, Slugs} /\ Slugs \in SUBSET Slugs
        BY DEF Init
    <2>2. registry \in (SUBSET Slugs) \cup {Missing}
        BY <2>1, DefaultsType
    <2> QED
        BY <2>2, KnownType
<1>2. vault \in Records
    BY DEF Init, Records
<1>3. profiles \in Profiles \cup {Missing}
    BY StoredType DEF Init
<1>4. memory = [registry |-> Known(registry), edits |-> edits, vault |-> vault,
                profiles |-> profiles]
    BY DEF Init
<1>5. edits \in Edits
    BY DEF Init, NoEdits, Edits
<1> QED
    BY <1>1, <1>2, <1>3, <1>4, <1>5 DEF Init, TypeOK

LEMMA TypeStep == TypeOK /\ [Next]_vars => TypeOK'
<1> SUFFICES ASSUME TypeOK, [Next]_vars PROVE TypeOK'
    OBVIOUS
<1>0. memory \in Memories
    BY DEF TypeOK, Memories
<1>1. CASE Load
    <2>1. registry \in SUBSET Slugs \/ registry = Missing
        BY DEF TypeOK
    <2>2. registry' = IF registry = Missing THEN Defaults ELSE registry
        BY <1>1 DEF Load
    <2>3. registry' \in SUBSET Slugs
        BY <2>1, <2>2, DefaultsType
    <2>4. memory' \in Memories
        BY <1>1, <2>3 DEF Load, TypeOK, Memories
    <2>5. UNCHANGED <<uses, edits, vault, profiles, lock, proc>>
        BY <1>1 DEF Load
    <2> QED
        BY <2>3, <2>4, <2>5 DEF TypeOK, Memories
<1>2. CASE Unlock
    <2>1. vault \in Records /\ memory' = [memory EXCEPT !.vault = vault]
        BY <1>2 DEF Unlock, TypeOK
    <2>2. memory' \in Memories
        BY <1>0, <2>1 DEF Memories
    <2> QED
        BY <1>2, <2>2 DEF Unlock, files, TypeOK, Memories
<1>3. ASSUME NEW p \in Processes, NEW c \in Command, Begin(p, c)
      PROVE  TypeOK'
    <2> DEFINE rec == IF c.op \in Whole THEN Seen(p).edits[c.slug] \cup {p} ELSE {}
               a == [op |-> c.op, slug |-> c.slug, new |-> c.new, key |-> c.key,
                     name |-> c.name, at |-> "begun", record |-> rec, data |-> Nothing]
    <2>1. proc' = [proc EXCEPT ![p] = a]
        BY <1>3 DEF Begin
    <2>2. Nothing \in [slugs : SUBSET Slugs, edits : Edits, profiles : Profiles]
        BY StoredType, EditsType DEF Nothing
    <2>5. c.slug \in Slugs /\ c.new \in Slugs \cup {Blank}
        BY DEF Command
    <2>6. memory.edits \in Edits /\ edits \in Edits /\ memory.edits[c.slug] \in SUBSET Processes
          /\ edits[c.slug] \in SUBSET Processes
        BY <1>0, <2>5 DEF Memories, Edits, TypeOK
    <2>7. rec \in SUBSET Processes
        <3>1. Seen(p).edits \in {memory.edits, edits}
            BY DEF Seen
        <3> QED
            BY <2>6, <3>1
    <2> HIDE DEF rec
    <2>3. a \in Activity
        BY <2>2, <2>7 DEF Command, Activity
    <2> HIDE DEF a
    <2>8. memory' \in Memories
        <3>1. CASE p = Tui /\ c.op \in Whole
            <4>1. memory' = Changed(memory, p, c)
                BY <1>3, <3>1 DEF Begin
            <4>2. c.new \in Slugs
                <5>1. Accepted(p, c)
                    BY <1>3 DEF Begin
                <5>2. CASE c.op = "provider rename"
                    BY <5>1, <5>2 DEF Accepted
                <5>3. CASE c.op = "provider edit"
                    BY <2>5, <5>1, <5>3 DEF Accepted
                <5> QED
                    BY <3>1, <5>2, <5>3 DEF Whole
            <4>3. [memory.edits EXCEPT ![c.slug] = {}, ![c.new] = memory.edits[c.slug] \cup {p}] \in Edits
                BY <2>5, <2>6, <4>2 DEF Edits
            <4>4. (memory.registry \ {c.slug}) \cup {c.new} \in SUBSET Slugs
                BY <1>0, <4>2 DEF Memories
            <4> QED
                BY <1>0, <4>1, <4>3, <4>4 DEF Changed, Memories
        <3>2. CASE ~(p = Tui /\ c.op \in Whole)
            BY <1>0, <1>3, <3>2 DEF Begin
        <3> QED
            BY <3>1, <3>2
    <2>4. proc' \in [Processes -> Activity \cup {None}]
        BY <2>1, <2>3 DEF TypeOK
    <2> QED
        BY <1>3, <2>4, <2>8 DEF Begin, files, TypeOK, Memories
<1>4. ASSUME NEW p \in Processes, GiveUp(p)
      PROVE  TypeOK'
    BY <1>4, DoneMoves DEF GiveUp, files, TypeOK
<1>5. ASSUME NEW p \in Processes,
             \/ Coordinate(p) \/ CheckProfiles(p) \/ CheckKey(p)
      PROVE  TypeOK'
    <2>1. proc[p] # None /\ \E place \in Places : Goto(p, place)
        BY <1>5 DEF Coordinate, CheckProfiles, CheckKey, At, Places
    <2>2. proc' \in [Processes -> Activity \cup {None}]
        BY <2>1, GotoMoves
    <2>3. lock' \in [Files -> Processes \cup {None}]
        BY <1>5 DEF Coordinate, CheckProfiles, CheckKey, TypeOK
    <2> QED
        BY <1>5, <2>2, <2>3 DEF Coordinate, CheckProfiles, CheckKey, files, TypeOK
<1>6. ASSUME NEW p \in Processes, ReadRegistry(p)
      PROVE  TypeOK'
    <2>1. proc[p] # None /\ Read(p, Fallback(proc[p].op), edits, NoProfiles)
        BY <1>6 DEF ReadRegistry, ReadyForRegistry, At
    <2>2. Fallback(proc[p].op) \in SUBSET Slugs
        <3>1. memory.registry \in SUBSET Slugs /\ {} \in SUBSET Slugs
            BY <1>0 DEF Memories
        <3>2. registry \in SUBSET Slugs \/ registry = Missing
            BY DEF TypeOK
        <3> QED
            BY <3>1, <3>2 DEF Fallback
    <2>3. proc' \in [Processes -> Activity \cup {None}]
        BY <2>1, <2>2, StoredType, EditsType, ReadMoves
    <2>4. lock' \in [Files -> Processes \cup {None}]
        BY <1>6 DEF ReadRegistry, TypeOK
    <2> QED
        BY <1>6, <2>3, <2>4 DEF ReadRegistry, files, TypeOK
<1>7. ASSUME NEW p \in Processes, WriteRegistry(p)
      PROVE  TypeOK'
    BY <1>7, RegistryWritten, DoneMoves DEF WriteRegistry, TypeOK, Memories
<1>8. ASSUME NEW p \in Processes, WriteVault(p)
      PROVE  TypeOK'
    <2>1. proc[p] # None /\ Done(p)
        BY <1>8 DEF WriteVault, VaultReady, At
    <2>2. proc[p].slug \in Slugs /\ proc[p].new \in Slugs \cup {Blank}
        BY <2>1, Active
    <2>3. vault' \in Records
        BY <1>8, <2>2 DEF WriteVault, TypeOK, Records
    <2>4. memory' \in Memories
        BY <1>0, <1>8, <2>3 DEF WriteVault, Memories
    <2> QED
        BY <1>8, <2>1, <2>3, <2>4, DoneMoves DEF WriteVault, TypeOK, Memories
<1>9. ASSUME NEW p \in Processes, ReadProfiles(p)
      PROVE  TypeOK'
    <2>1. proc[p] # None /\ Read(p, {}, NoEdits, Stored(profiles))
        BY <1>9 DEF ReadProfiles, At
    <2>2. Stored(profiles) \in Profiles /\ {} \in SUBSET Slugs
        BY StoredType DEF TypeOK
    <2>3. proc' \in [Processes -> Activity \cup {None}]
        BY <2>1, <2>2, EditsType, ReadMoves
    <2>4. lock' \in [Files -> Processes \cup {None}]
        BY <1>9 DEF ReadProfiles, TypeOK
    <2> QED
        BY <1>9, <2>3, <2>4 DEF ReadProfiles, files, TypeOK
<1>10. ASSUME NEW p \in Processes, WriteProfiles(p)
       PROVE  TypeOK'
    <2>1. proc[p] # None /\ Done(p)
        BY <1>10 DEF WriteProfiles, At
    <2>2. proc[p].slug \in Slugs /\ proc[p].key \in Keys /\ proc[p].data.profiles \in Profiles
        BY <2>1, Active
    <2>3. profiles' \in Profiles
        BY <1>10, <2>2 DEF WriteProfiles, Profiles, Bindings
    <2>4. memory' \in Memories
        BY <1>0, <1>10, <2>3 DEF WriteProfiles, TypeOK, Memories
    <2> QED
        BY <1>10, <2>1, <2>3, <2>4, DoneMoves DEF WriteProfiles, TypeOK, Memories
<1>11. ASSUME NEW p \in Processes,
              BootstrapRead(p) \/ BootstrapRegistry(p) \/ BootstrapStat(p) \/ BootstrapProfiles(p)
       PROVE  TypeOK'
    <2>1. CASE BootstrapRead(p)
        <3>1. proc[p] # None /\ Read(p, Known(registry), edits, NoProfiles)
            BY <2>1 DEF BootstrapRead, At
        <3>2. Known(registry) \in SUBSET Slugs
            BY KnownType DEF TypeOK
        <3>3. proc' \in [Processes -> Activity \cup {None}]
            BY <3>1, <3>2, StoredType, EditsType, ReadMoves
        <3> QED
            BY <2>1, <3>3 DEF BootstrapRead, files, TypeOK
    <2>2. CASE BootstrapRegistry(p)
        <3>1. proc[p] # None /\ Goto(p, "merged")
            BY <2>2 DEF BootstrapRegistry, At
        <3>2. /\ proc' \in [Processes -> Activity \cup {None}]
              /\ proc[p].data.slugs \in SUBSET Slugs /\ proc[p].data.edits \in Edits
            BY <3>1, Active, GotoMoves DEF Places
        <3>3. registry' \in (SUBSET Slugs) \cup {Missing}
            BY <2>2, <3>2, DefaultsType DEF BootstrapRegistry, TypeOK
        <3> QED
            BY <2>2, <3>2, <3>3 DEF BootstrapRegistry, TypeOK
    <2>3. CASE BootstrapStat(p)
        <3>1. proc[p] # None
            BY <2>3 DEF BootstrapStat, At
        <3>2. CASE Goto(p, "stat") /\ UNCHANGED lock
            BY <2>3, <3>1, <3>2, GotoMoves DEF BootstrapStat, files, TypeOK, Places
        <3>3. CASE Done(p)
            BY <2>3, <3>3, DoneMoves DEF BootstrapStat, files, TypeOK
        <3> QED
            BY <2>3, <3>2, <3>3 DEF BootstrapStat
    <2>4. CASE BootstrapProfiles(p)
        BY <2>4, DoneMoves, StoredType DEF BootstrapProfiles, TypeOK
    <2> QED
        BY <1>11, <2>1, <2>2, <2>3, <2>4
<1>12. ASSUME NEW p \in Processes, Heal(p)
       PROVE  TypeOK'
    <2>1. registry' \in SUBSET Slugs
        BY <1>12, KnownType, DefaultsType DEF Heal, TypeOK
    <2> QED
        BY <1>12, <2>1 DEF Heal, TypeOK
<1>13. CASE UNCHANGED vars
    BY <1>13 DEF vars, files, TypeOK
<1> QED
    BY <1>1, <1>2, <1>3, <1>4, <1>5, <1>6, <1>7, <1>8, <1>9, <1>10, <1>11, <1>12, <1>13
       DEF Next, Step
-----------------------------------------------------------------------------
(* A step of a process goes on, reads, or ends its command. *)
LEMMA StepMoves ==
    ASSUME TypeOK, NEW p \in Processes, Step(p)
    PROVE  \/ UNCHANGED proc /\ UNCHANGED lock
           \/ Done(p)
           \/ /\ proc[p] # None
              /\ \A f \in Files : lock'[f] # lock[f] => lock[f] = None
              /\ \/ \E place \in Places : Goto(p, place)
                 \/ \E r \in SUBSET Slugs, e \in Edits, s \in Profiles : Read(p, r, e, s)
<1>1. CASE \/ Coordinate(p) \/ CheckProfiles(p) \/ CheckKey(p) \/ BootstrapRegistry(p)
           \/ BootstrapStat(p)
    BY <1>1 DEF Coordinate, CheckProfiles, CheckKey, BootstrapRegistry, BootstrapStat, At,
                Places, Free, TypeOK
<1>2. CASE ReadRegistry(p) \/ ReadProfiles(p) \/ BootstrapRead(p)
    <2>1. proc[p] # None /\ \A f \in Files : lock'[f] # lock[f] => lock[f] = None
        BY <1>2 DEF ReadRegistry, ReadyForRegistry, ReadProfiles, BootstrapRead, At, Free, TypeOK
    <2>2. NoProfiles \in Profiles /\ Stored(profiles) \in Profiles /\ {} \in SUBSET Slugs
        BY StoredType DEF TypeOK
    <2> QED
        BY <1>2, <2>1, <2>2, FallbackType, EditsType DEF ReadRegistry, ReadProfiles, BootstrapRead
<1> QED
    BY <1>1, <1>2
       DEF Step, GiveUp, WriteRegistry, WriteVault, WriteProfiles, BootstrapProfiles, Heal

(* It leaves the commands and the locks of the others alone.               *)
LEMMA StepElsewhere ==
    ASSUME TypeOK, NEW p \in Processes, Step(p)
    PROVE  /\ Elsewhere(p)
           /\ proc'[p] = None \/ (proc[p] # None /\ proc'[p].op = proc[p].op) \/ UNCHANGED proc
<1>1. CASE UNCHANGED proc /\ UNCHANGED lock
    BY <1>1 DEF Elsewhere
<1>2. CASE Done(p)
    BY <1>2, DoneMoves DEF Elsewhere
<1>3. CASE /\ proc[p] # None /\ \E place \in Places : Goto(p, place)
           /\ \A f \in Files : lock'[f] # lock[f] => lock[f] = None
    <2>1. proc'[p].op = proc[p].op /\ \A q \in Processes \ {p} : proc'[q] = proc[q]
        BY <1>3, GotoMoves
    <2> QED
        BY <1>3, <2>1 DEF Elsewhere
<1>4. CASE /\ proc[p] # None /\ \E r \in SUBSET Slugs, e \in Edits, s \in Profiles : Read(p, r, e, s)
           /\ \A f \in Files : lock'[f] # lock[f] => lock[f] = None
    <2>1. proc'[p].op = proc[p].op /\ \A q \in Processes \ {p} : proc'[q] = proc[q]
        BY <1>4, ReadMoves
    <2> QED
        BY <1>4, <2>1 DEF Elsewhere
<1> QED
    BY <1>1, <1>2, <1>3, <1>4, StepMoves

LEMMA BeginElsewhere ==
    ASSUME TypeOK, NEW p \in Processes, NEW c \in Command, Begin(p, c)
    PROVE  /\ \A q \in Processes \ {p} : proc'[q] = proc[q]
           /\ proc'[p].op = c.op /\ proc'[p].at = "begun"
<1>1. proc' = [proc EXCEPT ![p] =
        [op |-> c.op, slug |-> c.slug, new |-> c.new, key |-> c.key,
         name |-> c.name, at |-> "begun",
         record |-> IF c.op \in Whole THEN Seen(p).edits[c.slug] \cup {p} ELSE {},
         data |-> Nothing]]
    BY DEF Begin
<1> QED
    BY <1>1 DEF TypeOK

(* Each command is one of those its process uses. *)
LEMMA UsesFixed == [Next]_vars => uses' = uses
BY DEF Next, Step, Load, Unlock, Begin, GiveUp, Heal, Coordinate, CheckProfiles, ReadRegistry,
   WriteRegistry, WriteVault, CheckKey, ReadProfiles, WriteProfiles, BootstrapRead,
   BootstrapRegistry, BootstrapStat, BootstrapProfiles, vars

LEMMA UseStep == TypeOK /\ OpsUsed /\ [Next]_vars => OpsUsed'
<1> SUFFICES ASSUME TypeOK, OpsUsed, [Next]_vars PROVE OpsUsed'
    OBVIOUS
<1>1. CASE UNCHANGED proc
    BY <1>1, UsesFixed DEF OpsUsed
<1>2. ASSUME NEW p \in Processes, NEW c \in Command, Begin(p, c)
      PROVE  OpsUsed'
    BY <1>2, UsesFixed, BeginElsewhere DEF OpsUsed, Begin
<1>3. ASSUME NEW p \in Processes, Step(p)
      PROVE  OpsUsed'
    BY <1>1, <1>3, UsesFixed, StepElsewhere DEF OpsUsed, Elsewhere
<1> QED
    BY <1>1, <1>2, <1>3 DEF Next, Load, Unlock, vars

(* Between the read and the write of a file its lock is held, and from the *)
(* first check on the coordination lock.                                   *)
LEMMA LockStep == TypeOK /\ LocksHeld /\ [Next]_vars => LocksHeld'
<1> SUFFICES ASSUME TypeOK, LocksHeld, [Next]_vars PROVE LocksHeld'
    OBVIOUS
<1> DEFINE Holds(q) == /\ Registering(q) => lock["registry"] = q
                       /\ Storing(q) => lock["profiles"] = q
                       /\ Coordinating(q) => lock["config"] = q
<1>1. CASE UNCHANGED <<proc, lock>>
    BY <1>1 DEF LocksHeld, Registering, Storing, Coordinating, At
<1>2. ASSUME NEW p \in Processes, NEW q \in Processes \ {p}, proc'[q] = proc[q],
             \A f \in Files : lock'[f] # lock[f] => lock[f] \in {None, p}
      PROVE  Holds(q)'
    <2>1. \A f \in Files : lock[f] = q => lock'[f] = q
        BY <1>2, NoneAssumption
    <2>2. Holds(q)
        BY DEF LocksHeld
    <2> QED
        BY <1>2, <2>1, <2>2 DEF Registering, Storing, Coordinating, At, Files
<1>3. ASSUME NEW p \in Processes, Elsewhere(p), Holds(p)'
      PROVE  LocksHeld'
    BY <1>2, <1>3 DEF Elsewhere, LocksHeld
<1>4. ASSUME NEW p \in Processes, NEW c \in Command, Begin(p, c)
      PROVE  LocksHeld'
    <2>1. Holds(p)'
        BY <1>4, BeginElsewhere DEF Registering, Storing, Coordinating, At
    <2>2. lock' = lock
        BY <1>4 DEF Begin
    <2> QED
        BY <1>3, <1>4, <2>1, <2>2, BeginElsewhere DEF Elsewhere
<1>5. ASSUME NEW p \in Processes, Step(p), ~UNCHANGED <<proc, lock>>
      PROVE  Holds(p)'
    <2>0. Holds(p)
        BY DEF LocksHeld
    <2>1. CASE Done(p)
        BY <2>1, DoneMoves DEF Registering, Storing, Coordinating, At
    <2>2. CASE Coordinate(p)
        <3>1. proc'[p].at = "coordinated" /\ lock'["config"] = p
            BY <2>2, GotoMoves DEF Coordinate, At, Places, Files, TypeOK
        <3> QED
            BY <3>1 DEF Registering, Storing, Coordinating, At
    <2>3. CASE CheckProfiles(p) \/ CheckKey(p)
        <3>1. /\ proc[p] # None /\ proc'[p].at = "checked" /\ proc'[p].op = proc[p].op
              /\ lock' = lock
            BY <2>3, GotoMoves DEF CheckProfiles, CheckKey, At, Places
        <3>2. Coordinating(p)' => Coordinating(p)
            BY <2>3, <3>1 DEF CheckProfiles, CheckKey, Coordinating, Coordinated, At
        <3> QED
            BY <2>0, <3>1, <3>2 DEF Registering, Storing, At
    <2>4. CASE ReadRegistry(p)
        <3>1. /\ proc[p] # None /\ proc'[p].op = proc[p].op
              /\ \A f \in Files \ {"registry"} : lock'[f] = lock[f]
              /\ lock'["registry"] = p /\ proc[p].op \in RegistryOps
            <4>1. proc[p] # None /\ proc[p].op \in RegistryOps
                BY <2>4 DEF ReadRegistry, ReadyForRegistry, At, RegistryOps
            <4>2. proc'[p].op = proc[p].op
                BY <2>4, <4>1, FallbackType, StoredType, EditsType, ReadMoves DEF ReadRegistry
            <4> QED
                BY <2>4, <4>1, <4>2 DEF ReadRegistry, Files, TypeOK
        <3>2. Coordinating(p)' => Coordinating(p)
            BY <2>4, <3>1 DEF ReadRegistry, ReadyForRegistry, Coordinating, Coordinated, At
        <3> QED
            BY <2>0, <3>1, <3>2 DEF Registering, Storing, Files, At, RegistryOps, StoreOps
    <2>5. CASE ReadProfiles(p)
        <3>1. /\ proc[p] # None /\ proc[p].op \in StoreOps
              /\ lock'["profiles"] = p
            BY <2>5 DEF ReadProfiles, At, StoreOps, Files, TypeOK
        <3>2. proc'[p] = None \/ proc'[p].op = proc[p].op \/ UNCHANGED proc
            BY <1>5, StepElsewhere
        <3>3. proc'[p] # None => proc'[p].op \in StoreOps
            BY <3>1, <3>2
        <3> QED
            BY <3>1, <3>3 DEF Registering, Storing, Coordinating, Coordinated, At,
                RegistryOps, StoreOps
    <2>6. CASE BootstrapRead(p) \/ BootstrapRegistry(p) \/ BootstrapStat(p)
        <3>1. proc[p] # None /\ proc[p].op = "bootstrap"
            BY <2>6 DEF BootstrapRead, BootstrapRegistry, BootstrapStat, At
        <3>2. proc'[p] = None \/ proc'[p].op = "bootstrap"
            BY <1>5, <3>1, StepElsewhere
        <3> QED
            BY <3>2 DEF Registering, Storing, Coordinating, Coordinated, At, RegistryOps, StoreOps
    <2> QED
        BY <1>5, <2>1, <2>2, <2>3, <2>4, <2>5, <2>6
           DEF Step, GiveUp, Heal, WriteRegistry, WriteVault, WriteProfiles, BootstrapProfiles
<1>6. ASSUME NEW p \in Processes, Step(p)
      PROVE  LocksHeld'
    BY <1>1, <1>3, <1>5, <1>6, StepElsewhere
<1> QED
    BY <1>1, <1>4, <1>6 DEF Next, Load, Unlock, vars
-----------------------------------------------------------------------------
(* The steps that leave the registry, or the profiles, as they are. *)
LEMMA RegistrySteps ==
    ASSUME TypeOK, [Next]_vars
    PROVE  \/ registry' = registry /\ (memory.registry = {} => memory'.registry = {})
           \/ Load
           \/ \E p \in Processes : WriteRegistry(p) \/ BootstrapRegistry(p) \/ Heal(p)
<1>0. memory \in Memories
    BY DEF TypeOK, Memories
<1>1. CASE Unlock
    BY <1>0, <1>1 DEF Unlock, files, Memories
<1>2. ASSUME NEW p \in Processes, WriteVault(p)
      PROVE  registry' = registry /\ memory'.registry = memory.registry
    BY <1>0, <1>2 DEF WriteVault, Memories
<1>3. ASSUME NEW p \in Processes, WriteProfiles(p)
      PROVE  registry' = registry /\ memory'.registry = memory.registry
    BY <1>0, <1>3 DEF WriteProfiles, Memories
<1>4. ASSUME NEW p \in Processes, NEW c \in Command, Begin(p, c)
      PROVE  registry' = registry /\ (memory.registry = {} => memory'.registry = {})
    <2>1. Accepted(p, c) /\ registry' = registry
        BY <1>4 DEF Begin, files
    <2>2. CASE p = Tui /\ c.op \in Whole
        <3>1. c.slug \in memory.registry
            BY <2>1, <2>2 DEF Accepted, Seen, Whole
        <3> QED
            BY <2>1, <3>1
    <2>3. CASE ~(p = Tui /\ c.op \in Whole)
        BY <1>4, <2>1, <2>3 DEF Begin
    <2> QED
        BY <2>2, <2>3
<1> QED
    BY <1>1, <1>2, <1>3, <1>4 DEF Next, Step, GiveUp, Coordinate, CheckProfiles, ReadRegistry,
       CheckKey, ReadProfiles, BootstrapRead, BootstrapStat, BootstrapProfiles, vars, files

LEMMA MissingStep == TypeOK /\ MissingSound /\ [Next]_vars => MissingSound'
<1> SUFFICES ASSUME TypeOK, MissingSound, [Next]_vars, registry' = Missing
             PROVE  MissingSound'
    BY DEF MissingSound
<1> DEFINE Idle(q) == /\ proc[q] # None
                      /\ proc[q].op \notin {"key delete", "bootstrap"}
                      => Defaults = {}
<1>1. registry \in SUBSET Slugs \/ registry = Missing
    BY DEF TypeOK
<1>2. ASSUME NEW p \in Processes, WriteRegistry(p) \/ Heal(p)
      PROVE  FALSE
    <2>1. CASE WriteRegistry(p)
        BY <2>1, RegistryWritten
    <2>2. CASE Heal(p)
        <3>1. registry' \in SUBSET Slugs
            BY <2>2, FallbackType, DefaultsType DEF Heal
        <3> QED
            BY <3>1, KnownType
    <2> QED
        BY <1>2, <2>1, <2>2
<1>3. ASSUME Load PROVE FALSE
    <2>1. registry' \in SUBSET Slugs
        BY <1>1, <1>3, DefaultsType DEF Load
    <2> QED
        BY <2>1, KnownType
<1>4. registry = Missing /\ (memory.registry = {} => memory'.registry = {})
    <2>1. ASSUME NEW p \in Processes, BootstrapRegistry(p)
          PROVE  registry' = registry /\ memory' = memory
        <3>1. proc[p] # None
            BY <2>1 DEF BootstrapRegistry, At
        <3>2. proc[p].data.slugs \cup Defaults \in SUBSET Slugs
            BY <3>1, Active, DefaultsType
        <3> QED
            BY <2>1, <3>2, KnownType DEF BootstrapRegistry
    <2>2. \/ registry' = registry /\ (memory.registry = {} => memory'.registry = {})
          \/ \E p \in Processes : BootstrapRegistry(p)
        BY <1>2, <1>3, RegistrySteps
    <2> QED
        BY <2>1, <2>2
<1>5. memory.registry = {} /\ \A q \in Processes \ {Tui} : Idle(q)
    BY <1>4 DEF MissingSound
<1>6. ASSUME NEW q \in Processes \ {Tui}
      PROVE  Idle(q)'
    <2>1. CASE UNCHANGED proc
        BY <1>5, <2>1
    <2>2. ASSUME NEW p \in Processes, NEW c \in Command, Begin(p, c)
          PROVE  Idle(q)'
        <3>1. CASE p = q
            <4>1. c.op \notin {"key delete", "bootstrap"} => Defaults = {}
                BY <1>4, <1>6, <2>2, <3>1, KnownType DEF Begin, Healed
            <4> QED
                BY <2>2, <3>1, <4>1, BeginElsewhere
        <3>2. CASE p # q
            BY <1>5, <2>2, <3>2, BeginElsewhere
        <3> QED
            BY <3>1, <3>2
    <2>3. ASSUME NEW p \in Processes, Step(p)
          PROVE  Idle(q)'
        <3>1. CASE p = q
            BY <1>5, <2>1, <2>3, <3>1, StepElsewhere
        <3>2. CASE p # q
            BY <1>5, <2>3, <3>2, StepElsewhere DEF Elsewhere
        <3> QED
            BY <3>1, <3>2
    <2> QED
        BY <2>1, <2>2, <2>3 DEF Next, Load, Unlock, vars
<1> QED
    BY <1>4, <1>5, <1>6 DEF MissingSound

(* The lock of a file lets nobody else write it. *)
LEMMA AloneAtRegistry ==
    ASSUME LocksHeld, NEW p \in Processes, Registering(p)
    PROVE  /\ \A q \in Processes \ {p} : ~Registering(q)
           /\ ~Free("registry")
BY NoneAssumption DEF LocksHeld, Free

LEMMA AloneAtProfiles ==
    ASSUME LocksHeld, NEW p \in Processes, Storing(p)
    PROVE  \A q \in Processes \ {p} : ~Storing(q)
BY DEF LocksHeld

(* Without AutoBootstrap nobody writes the registry without its lock. *)
LEMMA WhoWrites ==
    ASSUME TypeOK, OpsUsed, NotUsed({"bootstrap"}), [Next]_vars
    PROVE  /\ \A p \in Processes : proc[p] # None => proc[p].op # "bootstrap"
           /\ \/ registry' = registry
              \/ Load
              \/ \E p \in Processes : WriteRegistry(p) \/ Heal(p)
           /\ \/ edits' = edits
              \/ \E p \in Processes : WriteRegistry(p)
           /\ \/ profiles' = profiles
              \/ \E p \in Processes : WriteProfiles(p)
<1>1. \A p \in Processes : proc[p] # None => proc[p].op # "bootstrap"
    BY DEF OpsUsed, NotUsed
<1>2. ASSUME NEW p \in Processes
      PROVE  ~BootstrapRegistry(p) /\ ~BootstrapProfiles(p)
    BY <1>1 DEF BootstrapRegistry, BootstrapProfiles, At
<1>3. \/ profiles' = profiles
      \/ \E p \in Processes : WriteProfiles(p)
    BY <1>2 DEF Next, Step, Load, Unlock, Begin, GiveUp, Heal, Coordinate, CheckProfiles,
       ReadRegistry, WriteRegistry, WriteVault, CheckKey, ReadProfiles, BootstrapRead,
       BootstrapRegistry, BootstrapStat, vars, files
<1>4. \/ edits' = edits
      \/ \E p \in Processes : WriteRegistry(p)
    BY <1>2 DEF Next, Step, Load, Unlock, Begin, GiveUp, Heal, Coordinate, CheckProfiles,
       ReadRegistry, WriteProfiles, WriteVault, CheckKey, ReadProfiles, BootstrapRead,
       BootstrapProfiles, BootstrapStat, vars, files
<1> QED
    BY <1>1, <1>2, <1>3, <1>4, RegistrySteps

(* Whoever is now between read and write has been, or has just read. *)
LEMMA WhoReads ==
    ASSUME TypeOK, OpsUsed, NotUsed({"bootstrap"}), [Next]_vars, NEW q \in Processes
    PROVE  /\ Registering(q)' => \/ proc'[q] = proc[q] /\ Registering(q)
                                 \/ ReadRegistry(q)
           /\ Storing(q)' => \/ proc'[q] = proc[q] /\ Storing(q)
                             \/ ReadProfiles(q)
<1>1. CASE proc'[q] = proc[q]
    BY <1>1 DEF Registering, Storing, At
<1>2. ASSUME NEW c \in Command, Begin(q, c)
      PROVE  ~Registering(q)' /\ ~Storing(q)'
    BY <1>2, BeginElsewhere DEF Registering, Storing, At
<1>3. ASSUME Step(q)
      PROVE  \/ ~Registering(q)' /\ ~Storing(q)'
             \/ proc'[q] = proc[q]
             \/ ReadRegistry(q) /\ ~Storing(q)'
             \/ ReadProfiles(q) /\ ~Registering(q)'
    <2>1. CASE Done(q)
        BY <2>1, DoneMoves DEF Registering, Storing, At
    <2>2. CASE \/ Coordinate(q) \/ CheckProfiles(q) \/ CheckKey(q) \/ BootstrapRegistry(q)
        <3>1. proc[q] # None /\ \E place \in Places \ {"read"} : Goto(q, place)
            BY <2>2 DEF Coordinate, CheckProfiles, CheckKey, BootstrapRegistry, At, Places
        <3>2. proc'[q].at # "read"
            BY <3>1, GotoMoves
        <3> QED
            BY <3>2 DEF Registering, Storing, At
    <2>3. CASE BootstrapRead(q) \/ BootstrapStat(q)
        BY <2>3, WhoWrites DEF BootstrapRead, BootstrapStat, At
    <2>4. CASE ReadRegistry(q)
        <3>1. proc[q] # None /\ proc[q].op \in RegistryOps
            BY <2>4 DEF ReadRegistry, ReadyForRegistry, At, RegistryOps
        <3>2. proc'[q].op \in RegistryOps
            BY <2>4, <3>1, FallbackType, StoredType, EditsType, ReadMoves DEF ReadRegistry
        <3> QED
            BY <2>4, <3>2 DEF Storing, At, RegistryOps, StoreOps
    <2>5. CASE ReadProfiles(q)
        <3>1. proc[q] # None /\ proc[q].op \in StoreOps
            BY <2>5 DEF ReadProfiles, At, StoreOps
        <3>2. {} \in SUBSET Slugs /\ Stored(profiles) \in Profiles
            BY StoredType DEF TypeOK
        <3>3. proc'[q].op \in StoreOps
            BY <2>5, <3>1, <3>2, EditsType, ReadMoves DEF ReadProfiles
        <3> QED
            BY <2>5, <3>3 DEF Registering, At, RegistryOps, StoreOps
    <2>6. CASE Heal(q)
        BY <2>6 DEF Heal
    <2> QED
        BY <1>3, <2>1, <2>2, <2>3, <2>4, <2>5, <2>6
           DEF Step, GiveUp, WriteRegistry, WriteVault, WriteProfiles, BootstrapProfiles
<1>4. ASSUME NEW p \in Processes \ {q}, Step(p) \/ \E c \in Command : Begin(p, c)
      PROVE  proc'[q] = proc[q]
    BY <1>4, StepElsewhere, BeginElsewhere DEF Elsewhere
<1>5. CASE Load \/ Unlock \/ UNCHANGED vars
    BY <1>1, <1>5 DEF Load, Unlock, vars
<1> QED
    BY <1>1, <1>2, <1>3, <1>4, <1>5 DEF Next

LEMMA FreshStep ==
    TypeOK /\ OpsUsed /\ LocksHeld /\ MissingSound /\ Fresh /\ [Next]_vars => Fresh'
<1> SUFFICES ASSUME TypeOK, OpsUsed, LocksHeld, MissingSound, Fresh, [Next]_vars,
                    NotUsed({"bootstrap"}), NEW q \in Processes
             PROVE  /\ Registering(q)' => /\ proc'[q].data.slugs = Known(registry')
                                          /\ proc'[q].data.edits = edits'
                    /\ Storing(q)' => proc'[q].data.profiles = Stored(profiles')
    BY UsesFixed DEF Fresh, NotUsed
<1>1. ASSUME Registering(q)', proc'[q] = proc[q], Registering(q)
      PROVE  proc'[q].data.slugs = Known(registry') /\ proc'[q].data.edits = edits'
    <2>1. proc[q].data.slugs = Known(registry) /\ proc[q].data.edits = edits
        BY <1>1 DEF Fresh
    <2>2. ASSUME NEW p \in Processes, WriteRegistry(p) \/ Heal(p)
          PROVE  FALSE
        <3>1. CASE WriteRegistry(p)
            <4>1. Registering(p) /\ proc'[p] = None
                BY <3>1, RegistryWritten, DoneMoves
            <4>2. p = q
                BY <1>1, <4>1, AloneAtRegistry
            <4> QED
                BY <1>1, <4>1, <4>2 DEF Registering, At
        <3>2. CASE Heal(p)
            BY <1>1, <3>2, AloneAtRegistry DEF Heal
        <3> QED
            BY <2>2, <3>1, <3>2
    <2>5. proc'[q].data.edits = edits'
        BY <1>1, <2>1, <2>2, WhoWrites
    <2>3. CASE Load
        <3>1. CASE registry = Missing
            <4>1. q # Tui /\ proc[q] # None /\ proc[q].op \notin {"key delete", "bootstrap"}
                BY <1>1, <2>3 DEF Load, Registering, At, RegistryOps
            <4>2. Defaults = {} /\ registry' = Defaults
                BY <2>3, <3>1, <4>1 DEF MissingSound, Load
            <4>3. Known(registry') = {} /\ Known(registry) = {}
                BY <3>1, <4>2, KnownType DEF Known
            <4> QED
                BY <1>1, <2>1, <2>5, <4>3
        <3>2. CASE registry # Missing
            BY <1>1, <2>1, <2>3, <2>5, <3>2 DEF Load
        <3> QED
            BY <3>1, <3>2
    <2>4. CASE registry' = registry
        BY <1>1, <2>1, <2>4, <2>5
    <2> QED
        BY <2>2, <2>3, <2>4, WhoWrites
<1>2. ASSUME ReadRegistry(q)
      PROVE  proc'[q].data.slugs = Known(registry') /\ proc'[q].data.edits = edits'
    <2>1. proc[q] # None /\ registry' = registry /\ edits' = edits
        BY <1>2 DEF ReadRegistry, ReadyForRegistry, At, files
    <2>2. proc'[q].data.slugs = Fallback(proc[q].op) /\ proc'[q].data.edits = edits
        BY <1>2, <2>1, FallbackType, StoredType, EditsType, ReadMoves DEF ReadRegistry
    <2>3. Fallback(proc[q].op) = Known(registry)
        BY DEF Fallback, Known, MissingSound
    <2> QED
        BY <2>1, <2>2, <2>3
<1>3. ASSUME Storing(q)', proc'[q] = proc[q], Storing(q)
      PROVE  proc'[q].data.profiles = Stored(profiles')
    <2>1. proc[q].data.profiles = Stored(profiles)
        BY <1>3 DEF Fresh
    <2>2. ASSUME NEW p \in Processes, WriteProfiles(p)
          PROVE  FALSE
        <3>1. Storing(p) /\ proc'[p] = None
            BY <2>2, DoneMoves DEF WriteProfiles, Storing
        <3>2. p = q
            BY <1>3, <3>1, AloneAtProfiles
        <3> QED
            BY <1>3, <3>1, <3>2 DEF Storing, At
    <2> QED
        BY <1>3, <2>1, <2>2, WhoWrites
<1>4. ASSUME ReadProfiles(q)
      PROVE  proc'[q].data.profiles = Stored(profiles')
    <2>1. proc[q] # None /\ profiles' = profiles
        BY <1>4 DEF ReadProfiles, At, files
    <2>2. {} \in SUBSET Slugs /\ Stored(profiles) \in Profiles
        BY StoredType DEF TypeOK
    <2> QED
        BY <1>4, <2>1, <2>2, EditsType, ReadMoves DEF ReadProfiles
<1> QED
    BY <1>1, <1>2, <1>3, <1>4, WhoReads
-----------------------------------------------------------------------------
(* What a write does to the registry that is there. *)
LEMMA OneEntry ==
    ASSUME TypeOK, OpsUsed, Fresh, NotUsed({"bootstrap"}), NEW p \in Processes, WriteRegistry(p)
    PROVE  LET c == proc[p]  r == Known(registry)  q == Known(registry')
           IN  \/ c.op = "provider add" /\ q = r \cup {c.slug}
               \/ c.op = "provider remove" /\ q = r \ {c.slug}
               \/ c.op = "provider rename" /\ q = (r \ {c.slug}) \cup {c.new}
               \/ c.op \in {"provider edit", "provider models"} /\ q = r
               \/ c.op = "restore defaults" /\ q = r \cup Defaults
<1> DEFINE c == proc[p]
<1>1. Registering(p) /\ registry' \in SUBSET Slugs
    BY RegistryWritten
<1>2. Known(registry') = registry' /\ c.data.slugs = Known(registry)
    BY <1>1, KnownType DEF Fresh
<1>3. c.op \in {"provider add", "provider remove", "provider rename", "provider edit",
               "provider models", "restore defaults"}
    BY <1>1 DEF Registering, At, RegistryOps
<1>4. CASE c.op = "restore defaults"
    <2>1. registry' = c.data.slugs \cup Defaults
        BY <1>4 DEF WriteRegistry, Whole
    <2> QED
        BY <1>2, <1>4, <2>1
<1>5. CASE c.op = "provider add"
    <2>1. registry' = c.data.slugs \cup {c.slug}
        BY <1>5 DEF WriteRegistry, Whole
    <2> QED
        BY <1>2, <1>5, <2>1
<1>6. CASE c.op = "provider remove"
    <2>1. registry' = c.data.slugs \ {c.slug}
        BY <1>6 DEF WriteRegistry, Whole
    <2> QED
        BY <1>2, <1>6, <2>1
<1>7. CASE c.op = "provider rename"
    <2>1. registry' = (c.data.slugs \ {c.slug}) \cup {c.new}
        BY <1>7 DEF WriteRegistry
    <2> QED
        BY <1>2, <1>7, <2>1
<1>8. CASE c.op = "provider edit"
    <2>1. c.slug \in c.data.slugs /\ registry' = (c.data.slugs \ {c.slug}) \cup {c.slug}
        BY <1>8 DEF WriteRegistry
    <2> QED
        BY <1>2, <1>8, <2>1
<1>9. CASE c.op = "provider models"
    <2>1. registry' = c.data.slugs
        BY <1>9 DEF WriteRegistry
    <2> QED
        BY <1>2, <1>9, <2>1
<1> QED
    BY <1>3, <1>4, <1>5, <1>6, <1>7, <1>8, <1>9

(* And to whose edits the records hold: only an edit of a provider puts    *)
(* in another record for one that stays.                                   *)
LEMMA RecordsKept ==
    ASSUME TypeOK, OpsUsed, Fresh, NotUsed({"bootstrap"}), NEW p \in Processes, WriteRegistry(p),
           NEW of \in Known(registry) \cap Known(registry')
    PROVE  edits[of] \subseteq edits'[of] \/ (At(p, Whole, "read") /\ proc[p].slug = of)
<1> DEFINE c == proc[p]
           r == c.data.slugs
           e == c.data.edits
           added == c.op = "provider add" /\ c.slug \notin r
           removed == c.op = "provider remove" /\ c.slug \in r
           to == IF c.op = "provider rename" THEN c.new ELSE c.slug
           replaced == /\ c.op \in Whole /\ c.slug \in r
                       /\ to = c.slug \/ to \in Slugs \ r
           refreshed == c.op = "provider models" /\ c.slug \in r
           leaves == IF removed \/ replaced THEN {c.slug} ELSE {}
<1>1. Registering(p) /\ registry' \in SUBSET Slugs
    BY RegistryWritten
<1>2. Known(registry') = registry' /\ r = Known(registry) /\ e = edits
    BY <1>1, KnownType DEF Fresh
<1>3. of \in Slugs /\ of \in r /\ of \in registry'
    BY <1>1, <1>2
<1>4. edits'[of] = IF replaced /\ of = to THEN c.record
                   ELSE IF of \in leaves THEN {}
                   ELSE IF refreshed /\ of = c.slug THEN e[of] \cup {p}
                   ELSE e[of]
    BY <1>3 DEF WriteRegistry
<1>5. CASE c.op \in Whole /\ of = c.slug
    BY <1>1, <1>5 DEF Registering, At
<1>6. CASE ~(c.op \in Whole /\ of = c.slug)
    <2>1. ~(replaced /\ of = to)
        BY <1>3, <1>6
    <2>2. of \notin leaves
        <3>1. ASSUME removed, of = c.slug PROVE FALSE
            <4>1. registry' = r \ {c.slug}
                BY <3>1 DEF WriteRegistry, Whole
            <4> QED
                BY <1>3, <3>1, <4>1
        <3> QED
            BY <1>6, <3>1
    <2> HIDE DEF replaced, leaves, refreshed, to
    <2> QED
        BY <1>2, <1>4, <2>1, <2>2
<1> QED
    BY <1>5, <1>6

(* Nothing but a removal takes a provider away, where none is renamed. *)
LEMMA OnlyRemovals ==
    ASSUME TypeOK, OpsUsed, Fresh, NotUsed({"provider rename", "key edit", "bootstrap"}),
           [Next]_vars
    PROVE  \/ Known(registry) \subseteq Known(registry')
           \/ \E p \in Processes :
                /\ WriteRegistry(p) /\ At(p, {"provider remove"}, "read")
                /\ Known(registry') = Known(registry) \ {proc[p].slug}
<1>0. NotUsed({"bootstrap"}) /\ \A p \in Processes : "provider rename" \notin uses[p]
    BY DEF NotUsed
<1>1. CASE registry' = registry
    BY <1>1
<1>2. CASE Load
    BY <1>2, KnownType DEF Load
<1>3. ASSUME NEW p \in Processes, Heal(p)
      PROVE  Known(registry) \subseteq Known(registry')
    <2>1. registry' \in SUBSET Slugs /\ registry' = Known(registry) \cup Defaults
        BY <1>3, FallbackType, DefaultsType DEF Heal
    <2>2. Known(registry') = registry'
        BY <2>1, KnownType
    <2> QED
        BY <2>1, <2>2
<1>4. ASSUME NEW p \in Processes, WriteRegistry(p)
      PROVE  \/ Known(registry) \subseteq Known(registry')
             \/ /\ WriteRegistry(p) /\ At(p, {"provider remove"}, "read")
                /\ Known(registry') = Known(registry) \ {proc[p].slug}
    <2>1. Registering(p)
        BY <1>4, RegistryWritten
    <2>2. proc[p] # None /\ proc[p].at = "read" /\ proc[p].op # "provider rename"
        BY <1>0, <2>1 DEF Registering, At, OpsUsed
    <2> QED
        BY <1>0, <1>4, <2>2, OneEntry DEF At
<1> QED
    BY <1>0, <1>1, <1>2, <1>3, <1>4, WhoWrites

(* A key that comes needs the lock that keeps its provider. *)
LEMMA KeysChange ==
    ASSUME TypeOK, OpsUsed, NotUsed({"provider rename", "key edit", "bootstrap"}),
           [Next]_vars, NEW k \in Keys, vault'[k] # vault[k], vault'[k] # None
    PROVE  \E p \in Processes :
             /\ WriteVault(p) /\ proc[p] # None /\ proc[p].op = "key add"
             /\ vault'[k] = proc[p].slug
             /\ IF p = Tui THEN At(p, {"key add"}, "coordinated") ELSE Free("config")
<1>1. PICK p \in Processes : WriteVault(p)
    BY DEF Next, Step, Load, Unlock, Begin, GiveUp, Heal, Coordinate, CheckProfiles,
       ReadRegistry, WriteRegistry, CheckKey, ReadProfiles, WriteProfiles, BootstrapRead,
       BootstrapRegistry, BootstrapStat, BootstrapProfiles, vars, files
<1>2. /\ proc[p] # None /\ proc[p].op \in VaultOps
      /\ IF p # Tui THEN Free("config")
         ELSE At(p, {"key add"}, "coordinated") \/ proc[p].op # "key add"
    BY <1>1 DEF WriteVault, VaultReady, At, VaultOps
<1>3. proc[p].op # "key edit"
    BY <1>2 DEF OpsUsed, NotUsed
<1>4. proc[p].op = "key add" /\ vault'[k] = proc[p].slug
    <2>1. vault' = [vault EXCEPT ![proc[p].key] =
                  IF proc[p].op = "key add" THEN proc[p].slug
                  ELSE IF proc[p].op = "key edit" THEN proc[p].new
                  ELSE IF proc[p].op = "key delete" THEN None ELSE @]
        BY <1>1 DEF WriteVault
    <2>2. vault \in Records
        BY DEF TypeOK
    <2> QED
        BY <1>2, <1>3, <2>1, <2>2 DEF VaultOps, Records
<1> QED
    BY <1>1, <1>2, <1>4

LEMMA RemoveStep ==
    TypeOK /\ OpsUsed /\ LocksHeld /\ RemoveSound /\ [Next]_vars => RemoveSound'
<1> DEFINE Removing(q) == proc[q] # None /\ proc[q].op = "provider remove" /\ proc[q].at # "begun"
<1> SUFFICES ASSUME TypeOK, OpsUsed, LocksHeld, RemoveSound, [Next]_vars,
                    NotUsed({"provider rename", "key edit", "bootstrap"}),
                    NEW q \in Processes, Removing(q)', NEW k \in Keys
             PROVE  vault'[k] # proc'[q].slug
    BY UsesFixed DEF RemoveSound, NotUsed
<1>1. CASE Removing(q) /\ proc'[q].slug = proc[q].slug
    <2>1. vault[k] # proc[q].slug /\ proc[q].slug \in Slugs
        BY <1>1, Active DEF RemoveSound
    <2>2. lock["config"] = q
        BY <1>1 DEF LocksHeld, Coordinating, Coordinated
    <2>3. CASE vault'[k] # vault[k] /\ vault'[k] # None
        <3>1. PICK p \in Processes :
                /\ WriteVault(p) /\ proc[p] # None /\ proc[p].op = "key add"
                /\ IF p = Tui THEN At(p, {"key add"}, "coordinated") ELSE Free("config")
            BY <2>3, KeysChange
        <3>2. p = Tui /\ At(p, {"key add"}, "coordinated")
            BY <2>2, <3>1, NoneAssumption DEF Free
        <3>3. lock["config"] = p
            BY <3>2 DEF LocksHeld, Coordinating, Coordinated, At
        <3> QED
            BY <1>1, <2>2, <3>1, <3>3
    <2> QED
        BY <1>1, <2>1, <2>3, MissingAssumption
<1>2. CASE Coordinate(q) /\ proc[q].op = "provider remove"
    <2>1. /\ proc[q] # None /\ \A j \in Keys : vault[j] # proc[q].slug
          /\ vault' = vault /\ Goto(q, "coordinated")
        BY <1>2 DEF Coordinate, KeysAllow, At, files
    <2>2. proc'[q].slug = proc[q].slug
        BY <2>1, GotoMoves DEF Places
    <2> QED
        BY <2>1, <2>2
<1>3. ASSUME Step(q)
      PROVE  \/ Removing(q) /\ proc'[q].slug = proc[q].slug
             \/ Coordinate(q) /\ proc[q].op = "provider remove"
    <2>1. CASE Done(q)
        BY <2>1, DoneMoves
    <2>2. CASE CheckProfiles(q) \/ CheckKey(q) \/ BootstrapRegistry(q) \/ BootstrapStat(q)
        <3>1. proc[q] # None /\ (Done(q) \/ \E place \in Places : Goto(q, place))
            BY <2>2 DEF CheckProfiles, CheckKey, BootstrapRegistry, BootstrapStat, At, Places
        <3>2. CASE \E place \in Places : Goto(q, place)
            <4>1. proc'[q].op = proc[q].op /\ proc'[q].slug = proc[q].slug
                BY <3>1, <3>2, GotoMoves
            <4>2. proc[q].op = "provider remove"
                BY <4>1
            <4>3. proc[q].at # "begun"
                BY <2>2, <4>2 DEF CheckProfiles, CheckKey, BootstrapRegistry, BootstrapStat, At
            <4> QED
                BY <3>1, <4>1, <4>2, <4>3
        <3> QED
            BY <2>1, <3>1, <3>2
    <2>3. CASE Coordinate(q)
        <3>1. proc'[q].op = proc[q].op
            BY <2>3, GotoMoves DEF Coordinate, At, Places
        <3> QED
            BY <2>3, <3>1
    <2>4. CASE ReadRegistry(q)
        <3>1. proc[q] # None /\ proc[q].op = "provider remove" => proc[q].at # "begun"
            BY <2>4 DEF ReadRegistry, ReadyForRegistry, Coordinated, At
        <3>2. proc[q] # None /\ Read(q, Fallback(proc[q].op), edits, NoProfiles)
            BY <2>4 DEF ReadRegistry, ReadyForRegistry, At
        <3>3. proc'[q].op = proc[q].op /\ proc'[q].slug = proc[q].slug
            BY <3>2, FallbackType, StoredType, EditsType, ReadMoves
        <3> QED
            BY <3>1, <3>2, <3>3
    <2>5. CASE ReadProfiles(q) \/ BootstrapRead(q)
        <3>1. proc[q] # None /\ proc[q].op # "provider remove"
            BY <2>5 DEF ReadProfiles, BootstrapRead, At, StoreOps
        <3>2. proc'[q] = None \/ proc'[q].op = proc[q].op
            BY <1>3, StepElsewhere
        <3> QED
            BY <3>1, <3>2
    <2>6. CASE Heal(q)
        BY <2>6 DEF Heal
    <2> QED
        BY <1>3, <2>1, <2>2, <2>3, <2>4, <2>5, <2>6
           DEF Step, GiveUp, WriteRegistry, WriteVault, WriteProfiles, BootstrapProfiles
<1>4. ASSUME NEW c \in Command, Begin(q, c) PROVE FALSE
    BY <1>4, BeginElsewhere
<1>5. ASSUME proc'[q] = proc[q]
      PROVE  Removing(q) /\ proc'[q].slug = proc[q].slug
    BY <1>5
<1>6. ASSUME NEW p \in Processes \ {q}, Step(p) \/ \E c \in Command : Begin(p, c)
      PROVE  proc'[q] = proc[q]
    BY <1>6, StepElsewhere, BeginElsewhere DEF Elsewhere
<1>7. CASE Load \/ Unlock \/ UNCHANGED vars
    BY <1>1, <1>5, <1>7 DEF Load, Unlock, vars
<1> QED
    BY <1>1, <1>2, <1>3, <1>4, <1>5, <1>6, <1>7 DEF Next

LEMMA AddStep ==
    TypeOK /\ OpsUsed /\ LocksHeld /\ Fresh /\ AddSound /\ [Next]_vars => AddSound'
<1> SUFFICES ASSUME TypeOK, OpsUsed, LocksHeld, Fresh, AddSound, [Next]_vars,
                    NotUsed({"provider rename", "key edit", "bootstrap"}),
                    At(Tui, {"key add"}, "coordinated")'
             PROVE  proc'[Tui].slug \in Known(registry') \cup {Default}
    BY UsesFixed DEF AddSound, NotUsed
<1>1. ASSUME proc'[Tui] = proc[Tui]
      PROVE  proc'[Tui].slug \in Known(registry') \cup {Default}
    <2>1. /\ At(Tui, {"key add"}, "coordinated")
          /\ proc[Tui].slug \in Known(registry) \cup {Default}
        BY <1>1 DEF AddSound, At
    <2>2. lock["config"] = Tui /\ proc[Tui].op = "key add"
        BY <2>1, DefaultsType DEF LocksHeld, Coordinating, Coordinated, At
    <2>3. ASSUME NEW p \in Processes, At(p, {"provider remove"}, "read")
          PROVE  FALSE
        <3>1. lock["config"] = p
            BY <2>3 DEF LocksHeld, Coordinating, Coordinated, At
        <3> QED
            BY <2>2, <2>3, <3>1 DEF At
    <2> QED
        BY <1>1, <2>1, <2>3, OnlyRemovals
<1>2. CASE Coordinate(Tui)
    <2>1. proc[Tui] # None /\ Goto(Tui, "coordinated") /\ KeysAllow(Tui) /\ registry' = registry
        BY <1>2 DEF Coordinate, At, files
    <2>2. proc'[Tui].op = proc[Tui].op /\ proc'[Tui].slug = proc[Tui].slug
        BY <2>1, DefaultsType, GotoMoves DEF Places
    <2>3. proc[Tui].op = "key add"
        BY <2>2 DEF At
    <2> QED
        BY <2>1, <2>2, <2>3 DEF KeysAllow, FreshProvider
<1>3. ASSUME Step(Tui)
      PROVE  proc'[Tui] = proc[Tui] \/ Coordinate(Tui)
    <2>1. CASE Done(Tui)
        BY <2>1, DoneMoves, DefaultsType DEF At
    <2>2. CASE \E place \in Places \ {"coordinated"} : proc[Tui] # None /\ Goto(Tui, place)
        BY <2>2, GotoMoves, DefaultsType DEF At
    <2>3. CASE proc[Tui] # None /\ \E r \in SUBSET Slugs, e \in Edits, s \in Profiles : Read(Tui, r, e, s)
        BY <2>3, ReadMoves, DefaultsType DEF At
    <2>4. CASE CheckProfiles(Tui) \/ CheckKey(Tui) \/ BootstrapRegistry(Tui) \/ BootstrapStat(Tui)
        BY <2>1, <2>2, <2>4
           DEF CheckProfiles, CheckKey, BootstrapRegistry, BootstrapStat, At, Places
    <2>5. CASE ReadRegistry(Tui) \/ ReadProfiles(Tui) \/ BootstrapRead(Tui)
        <3>1. proc[Tui] # None
            BY <2>5 DEF ReadRegistry, ReadyForRegistry, ReadProfiles, BootstrapRead, At
        <3>2. NoProfiles \in Profiles /\ Stored(profiles) \in Profiles /\ {} \in SUBSET Slugs
            BY StoredType DEF TypeOK
        <3> QED
            BY <2>3, <2>5, <3>1, <3>2, FallbackType, EditsType
               DEF ReadRegistry, ReadProfiles, BootstrapRead
    <2> QED
        BY <1>3, <2>1, <2>4, <2>5
           DEF Step, GiveUp, Heal, WriteRegistry, WriteVault, WriteProfiles, BootstrapProfiles
<1>4. ASSUME NEW c \in Command, Begin(Tui, c) PROVE FALSE
    BY <1>4, BeginElsewhere, DefaultsType DEF At
<1>5. ASSUME NEW p \in Processes \ {Tui}, Step(p) \/ \E c \in Command : Begin(p, c)
      PROVE  proc'[Tui] = proc[Tui]
    BY <1>5, StepElsewhere, BeginElsewhere, DefaultsType DEF Elsewhere
<1>6. CASE Load \/ Unlock \/ UNCHANGED vars
    BY <1>1, <1>6 DEF Load, Unlock, vars
<1> QED
    BY <1>1, <1>2, <1>3, <1>4, <1>5, <1>6 DEF Next

LEMMA KeyStep ==
    /\ TypeOK /\ OpsUsed /\ LocksHeld /\ Fresh /\ RemoveSound /\ AddSound
    /\ KeysHaveProviders /\ [Next]_vars
    => KeysHaveProviders'
<1> SUFFICES ASSUME TypeOK, OpsUsed, LocksHeld, Fresh, RemoveSound, AddSound,
                    KeysHaveProviders, [Next]_vars,
                    NotUsed({"provider rename", "key edit", "bootstrap"}),
                    \A p \in Processes \ {Tui} : "key add" \notin uses[p],
                    NEW k \in Keys, vault'[k] \notin {Unused, None}
             PROVE  vault'[k] \in Known(registry') \cup {Default}
    BY UsesFixed DEF KeysHaveProviders, NotUsed, Present
<1>1. CASE vault'[k] = vault[k]
    <2>1. vault[k] \in Known(registry) \cup {Default}
        BY <1>1 DEF KeysHaveProviders, Present
    <2>2. ASSUME NEW p \in Processes, At(p, {"provider remove"}, "read")
          PROVE  vault[k] # proc[p].slug
        BY <2>2 DEF RemoveSound, At
    <2> QED
        BY <1>1, <2>1, <2>2, OnlyRemovals
<1>2. CASE vault'[k] # vault[k]
    <2>1. PICK p \in Processes :
            /\ WriteVault(p) /\ proc[p] # None /\ proc[p].op = "key add"
            /\ vault'[k] = proc[p].slug
            /\ IF p = Tui THEN At(p, {"key add"}, "coordinated") ELSE Free("config")
        BY <1>2, KeysChange
    <2>2. p = Tui
        BY <2>1 DEF OpsUsed
    <2>3. proc[Tui].slug \in Known(registry) \cup {Default} /\ registry' = registry
        BY <2>1, <2>2 DEF AddSound, WriteVault
    <2> QED
        BY <2>1, <2>2, <2>3
<1> QED
    BY <1>1, <1>2
-----------------------------------------------------------------------------
LEMMA IInvInit == Init => IInv
<1> SUFFICES ASSUME Init PROVE IInv
    OBVIOUS
<1>1. TypeOK
    BY TypeInit
<1>2. OpsUsed /\ LocksHeld /\ Fresh /\ RemoveSound
    BY DEF Init, OpsUsed, LocksHeld, Fresh, RemoveSound, Registering, Storing, Coordinating, At
<1>3. MissingSound
    BY KnownType DEF Init, MissingSound
<1>4. AddSound
    BY DefaultsType DEF Init, AddSound, At
<1>5. KeysHaveProviders
    BY MissingAssumption DEF Init, KeysHaveProviders, Present
<1> QED
    BY <1>1, <1>2, <1>3, <1>4, <1>5 DEF IInv

LEMMA IInvAlways == Spec => []IInv
<1>1. IInv /\ [Next]_vars => IInv'
    BY TypeStep, UseStep, LockStep, MissingStep, FreshStep, RemoveStep, AddStep, KeyStep DEF IInv
<1> QED
    BY <1>1, IInvInit, PTL DEF Spec

(* The files and the memories hold what their readers expect, whatever the *)
(* processes do, and each lock one process or none.                        *)
THEOREM CatalogueTypeCorrect == Spec => []TypeOK
<1>1. IInv => TypeOK
    BY DEF IInv
<1> QED
    BY <1>1, IInvAlways, PTL

(* A key that the interface added under a provider other than "default"    *)
(* keeps its provider: its removal and the addition look at each other's   *)
(* file under the coordination lock (applyDelete, commitKeyAdd).           *)
THEOREM KeysAlwaysHaveProviders == Spec => []KeysHaveProviders
<1>1. IInv => KeysHaveProviders
    BY DEF IInv
<1> QED
    BY <1>1, IInvAlways, PTL

(* No key refers to a provider when it is removed (applyDelete).           *)
THEOREM RemovedAlwaysUnused == Spec => RemovedUnused
<1>1. ASSUME IInv, [Next]_vars, NotUsed({"provider rename", "key edit", "bootstrap"}),
             NEW s \in Known(registry) \ Known(registry'), NEW k \in Keys
      PROVE  vault[k] # s
    <2>1. PICK p \in Processes :
            /\ At(p, {"provider remove"}, "read")
            /\ Known(registry') = Known(registry) \ {proc[p].slug}
        BY <1>1, OnlyRemovals DEF IInv
    <2>2. s = proc[p].slug
        BY <2>1
    <2> QED
        BY <1>1, <2>1, <2>2 DEF IInv, RemoveSound, At
<1>2. IInv /\ [Next]_vars =>
        [NotUsed({"provider rename", "key edit", "bootstrap"}) =>
           \A s \in Known(registry) \ Known(registry') :
             \A k \in Keys : vault[k] # s]_vars
    BY <1>1
<1> QED
    BY <1>2, IInvAlways, PTL DEF RemovedUnused, Spec

LEMMA AtMostOne == \A S, x : S = {} \/ S \subseteq {x} => Cardinality(S) <= 1
<1> SUFFICES ASSUME NEW S, NEW x, S = {} \/ S \subseteq {x}
             PROVE  Cardinality(S) <= 1
    OBVIOUS
<1>1. S = {} \/ S = {x}
    OBVIOUS
<1>2. Cardinality({}) = 0
    BY FS_EmptySet
<1>3. Cardinality({x}) = 1
    BY FS_Singleton
<1> QED
    BY <1>1, <1>2, <1>3

(* Edits are built on the latest file (MutateRegistryFile,                 *)
(* MutateStoreFile): a step changes one entry, or brings the defaults      *)
(* back, and takes no other edit back, save that the edit of a provider    *)
(* replaces that provider's whole record.                                  *)
THEOREM NothingIsUndone == Spec => NothingUndone
<1> DEFINE r == Known(registry)
           q == Known(registry')
           s == Stored(profiles)
           t == Stored(profiles')
           Differ == {n \in Names : s[n] # t[n]}
           RegistryKept ==
             /\ Cardinality(r \ q) <= 1
             /\ Cardinality(q \ r) <= 1 \/ q = r \cup Defaults
             /\ r \ q # {} /\ q \ r # {} =>
                  \E p \in Processes : At(p, {"provider rename"}, "read")
           EditsKept ==
             \A of \in r \cap q : edits[of] \subseteq edits'[of]
               \/ \E p \in Processes : At(p, Whole, "read") /\ proc[p].slug = of
           ProfilesKept ==
             /\ Cardinality(Differ) <= 1
             /\ \A n \in Names : s[n] # t[n] =>
                  \E p \in Processes : proc[p] # None /\ proc[p].name = n
<1>1. ASSUME IInv, [Next]_vars, NotUsed({"bootstrap"})
      PROVE  RegistryKept
    <2>1. ASSUME NEW R, NEW Q, NEW x, NEW y,
                 \/ Q = R \cup {x} \/ Q = R \ {x} \/ Q = (R \ {x}) \cup {y}
          PROVE  Cardinality(R \ Q) <= 1 /\ Cardinality(Q \ R) <= 1
        <3>1. R \ Q \subseteq {x} /\ (Q \ R \subseteq {x} \/ Q \ R \subseteq {y})
            BY <2>1
        <3> QED
            BY <3>1, AtMostOne
    <2>2. ASSUME q = r \cup Defaults
          PROVE  RegistryKept
        <3>1. r \ q = {}
            BY <2>2
        <3>2. Cardinality(r \ q) <= 1
            BY <3>1, AtMostOne
        <3> QED
            BY <2>2, <3>1, <3>2
    <2>3. CASE registry' = registry
        <3>1. r \ q = {} /\ q \ r = {}
            BY <2>3
        <3>2. Cardinality(r \ q) <= 1 /\ Cardinality(q \ r) <= 1
            BY <3>1, AtMostOne
        <3> QED
            BY <3>1, <3>2
    <2>4. CASE Load
        <3>1. registry \in SUBSET Slugs \/ registry = Missing
            BY <1>1 DEF IInv, TypeOK
        <3>2. q = r \/ q = r \cup Defaults
            BY <2>4, <3>1, DefaultsType, KnownType DEF Load
        <3>3. CASE q = r
            <4>1. r \ q = {} /\ q \ r = {}
                BY <3>3
            <4>2. Cardinality(r \ q) <= 1 /\ Cardinality(q \ r) <= 1
                BY <4>1, AtMostOne
            <4> QED
                BY <4>1, <4>2
        <3> QED
            BY <2>2, <3>2, <3>3
    <2>5. ASSUME NEW p \in Processes, Heal(p)
          PROVE  q = r \cup Defaults
        <3>1. registry' = r \cup Defaults /\ registry' \in SUBSET Slugs
            BY <1>1, <2>5, FallbackType, DefaultsType DEF Heal, IInv
        <3> QED
            BY <3>1, KnownType
    <2>6. ASSUME NEW p \in Processes, WriteRegistry(p)
          PROVE  RegistryKept
        <3>1. /\ \/ proc[p].op = "provider add" /\ q = r \cup {proc[p].slug}
                 \/ proc[p].op = "provider remove" /\ q = r \ {proc[p].slug}
                 \/ /\ proc[p].op = "provider rename"
                    /\ q = (r \ {proc[p].slug}) \cup {proc[p].new}
                 \/ proc[p].op \in {"provider edit", "provider models"} /\ q = r
                 \/ proc[p].op = "restore defaults" /\ q = r \cup Defaults
              /\ Registering(p)
            BY <1>1, <2>6, OneEntry, RegistryWritten DEF IInv
        <3> HIDE DEF r, q
        <3>2. CASE q = r \cup Defaults
            BY <2>2, <3>2
        <3>3. CASE proc[p].op # "restore defaults"
            <4>0. q = r => q = r \cup {proc[p].slug} \/ q = r \ {proc[p].slug}
                OBVIOUS
            <4>1. Cardinality(r \ q) <= 1 /\ Cardinality(q \ r) <= 1
                BY <2>1, <3>1, <3>3, <4>0
            <4>2. r \ q # {} /\ q \ r # {} => proc[p].op = "provider rename"
                BY <3>1, <3>3
            <4>3. proc[p].op = "provider rename" => At(p, {"provider rename"}, "read")
                BY <3>1 DEF Registering, At
            <4> QED
                BY <4>1, <4>2, <4>3
        <3> QED
            BY <3>1, <3>2, <3>3
    <2> QED
        BY <1>1, <2>2, <2>3, <2>4, <2>5, <2>6, WhoWrites DEF IInv
<1>2. ASSUME IInv, [Next]_vars, NotUsed({"bootstrap"})
      PROVE  ProfilesKept
    <2>1. CASE profiles' = profiles
        <3>1. Differ = {} /\ s = t
            BY <2>1
        <3> QED
            BY <3>1, AtMostOne
    <2>2. ASSUME NEW p \in Processes, WriteProfiles(p)
          PROVE  ProfilesKept
        <3>1. proc[p] # None /\ Storing(p)
            BY <2>2 DEF WriteProfiles, Storing, At
        <3>2. proc[p].data.profiles = s /\ s \in Profiles
            BY <1>1, <1>2, <3>1, Active DEF IInv, Fresh
        <3>3. proc[p].slug \in Slugs /\ proc[p].key \in Keys
            BY <1>2, <3>1, Active DEF IInv
        <3>4. PICK b \in Bindings \cup {None} :
                profiles' = [proc[p].data.profiles EXCEPT ![proc[p].name] = b]
            BY <2>2, <3>3 DEF WriteProfiles, Bindings
        <3>5. profiles' \in Profiles /\ \A n \in Names \ {proc[p].name} : profiles'[n] = s[n]
            BY <3>2, <3>4 DEF Profiles
        <3>6. t = profiles'
            BY <3>5, StoredType
        <3>7. Differ \subseteq {proc[p].name}
            BY <3>5, <3>6
        <3> HIDE DEF Differ
        <3>8. Cardinality(Differ) <= 1
            BY <3>7, AtMostOne
        <3> QED
            BY <3>1, <3>7, <3>8 DEF Differ
    <2> QED
        BY <1>2, <2>1, <2>2, WhoWrites DEF IInv
<1>4. ASSUME IInv, [Next]_vars, NotUsed({"bootstrap"})
      PROVE  EditsKept
    BY <1>4, RecordsKept, WhoWrites DEF IInv
<1>3. IInv /\ [Next]_vars =>
        [NotUsed({"bootstrap"}) =>
           LET r1 == Known(registry)  q1 == Known(registry')
               s1 == Stored(profiles)  t1 == Stored(profiles')
           IN /\ Cardinality(r1 \ q1) <= 1
              /\ Cardinality(q1 \ r1) <= 1 \/ q1 = r1 \cup Defaults
              /\ r1 \ q1 # {} /\ q1 \ r1 # {} =>
                    \E p \in Processes : At(p, {"provider rename"}, "read")
              /\ \A of \in r1 \cap q1 : edits[of] \subseteq edits'[of]
                   \/ \E p \in Processes : At(p, Whole, "read") /\ proc[p].slug = of
              /\ Cardinality({n \in Names : s1[n] # t1[n]}) <= 1
              /\ \A n \in Names : s1[n] # t1[n] =>
                    \E p \in Processes : proc[p] # None /\ proc[p].name = n]_vars
    BY <1>1, <1>2, <1>4
<1> QED
    BY <1>3, IInvAlways, PTL DEF NothingUndone, Spec
=============================================================================
