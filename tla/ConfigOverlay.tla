--------------------------- MODULE ConfigOverlay ---------------------------
(***************************************************************************)
(* The runtime overlay of an application's configuration files             *)
(* (internal/adapter/filewriter.go, internal/runner/runner.go): a launch   *)
(* takes a snapshot of every file of its plan, merges its settings into    *)
(* them, runs the child and puts the snapshots back, except where the file *)
(* is no longer what the launch left behind.                               *)
(*                                                                         *)
(* Nothing locks the files: another launch, the child and the user may     *)
(* touch them between any two system calls, so every read, write and       *)
(* comparison is a step.  A launch is one process; it may be killed.       *)
(***************************************************************************)
EXTENDS Naturals, Sequences, FiniteSets

CONSTANTS
    Launches,
    Files,
    Layers,         \* the settings a plan merges in
    Parts,          \* what an edit may touch: keys the settings set, or the rest
    Plans,          \* for each launch its plan: the sets of launches looked at
    MaxEdits,       \* bound on the edits, shared among the launches
    None            \* no such file, nothing recorded

(* A write replaces the file, or merges its settings over some parts of    *)
(* it: the keys they set, what is inside the managed block, the comments   *)
(* of a file that is parsed and written anew.                              *)
Writes == [file : Files, layer : Layers, replace : BOOLEAN, over : SUBSET Parts]

ASSUME LaunchAssumption == IsFiniteSet(Launches)
ASSUME PlanAssumption == Plans \subseteq [Launches -> Seq(Writes)]
ASSUME BoundAssumption == MaxEdits \in Nat

(* A file, by what tells its bytes apart: the last edit of the user or the *)
(* child to each part, and the settings merged in, the latest ones last.   *)
Content == [edit : [Parts -> 0..MaxEdits], layers : Seq(Layers)]
Unedited == [p \in Parts |-> 0]

ASSUME NoneAssumption == None \notin Content

VARIABLES
    plan,           \* per launch, its writes: LaunchStrategy.Plan.Files; none
                    \* of a launch that does not happen
    file,           \* the files on disk
    edits,          \* number of edits so far
    pc,             \* per launch: where it stands
    step,           \* the write of its plan it is at
    snap,           \* snapshots taken
    overlay,        \* overlayHash of the files completed
    force,          \* forceRestore
    buffer,         \* what it has just read
    failures,       \* files the restore could not put back
    told            \* the errors it returned

vars == <<plan, file, edits, pc, step, snap, overlay, force, buffer, failures, told>>

Positions == {"snapshot", "read", "write", "hash", "prepared", "running",
              "restore", "replace", "over", "killed"}
Errors == {"apply", "bridge", "restore"}

(* The write a launch is at, and its file. *)
At(l) == plan[l][step[l]]
Target(l) == At(l).file

(* The files of the plans; the others do not matter. *)
Named == UNION {{plan[l][i].file : i \in 1..Len(plan[l])} : l \in Launches}

(* byPath: a file is recorded at the first write that names it. *)
First(l) == \A i \in 1..step[l] - 1 : plan[l][i].file # Target(l)

(* A sequence without the one place where it has x. *)
Without(s, x) ==
    IF \A i \in 1..Len(s) : s[i] # x THEN s
    ELSE LET i == CHOOSE i \in 1..Len(s) : s[i] = x
         IN SubSeq(s, 1, i - 1) \o SubSeq(s, i + 1, Len(s))

(* The merge policies: the settings replace what an earlier merge of the   *)
(* same settings left, and win over everything else, the user's edits of   *)
(* the same keys included; MergeNone drops the old content.                *)
Hides(w, p) == w.replace \/ p \in w.over
Merged(c, w) ==
    IF c = None \/ w.replace
    THEN [edit |-> Unedited, layers |-> <<w.layer>>]
    ELSE [edit   |-> [p \in Parts |-> IF Hides(w, p) THEN 0 ELSE c.edit[p]],
          layers |-> Append(Without(c.layers, w.layer), w.layer)]

Goto(l, to) == pc' = [pc EXCEPT ![l] = to]
Tell(l, e) == told' = [told EXCEPT ![l] = @ \cup {e}]
Put(f, c) == file' = [file EXCEPT ![f] = c]

(* Back to the first write, or to the next one and then on to `after`. *)
Advance(l, to, after) ==
    IF step[l] < Len(plan[l])
    THEN step' = [step EXCEPT ![l] = @ + 1] /\ Goto(l, to)
    ELSE step' = [step EXCEPT ![l] = 1] /\ Goto(l, after)

(* The launch returns, or is killed: what it remembered is gone. *)
Nothing == [f \in Files |-> None]
Forget(l) ==
    /\ snap' = [snap EXCEPT ![l] = Nothing]
    /\ overlay' = [overlay EXCEPT ![l] = Nothing]
    /\ force' = [force EXCEPT ![l] = {}]
    /\ buffer' = [buffer EXCEPT ![l] = None]
    /\ failures' = [failures EXCEPT ![l] = {}]
    /\ step' = [step EXCEPT ![l] = 0]

DropBuffer(l) == buffer' = [buffer EXCEPT ![l] = None]

(* restore() runs over all the snapshots, the last one first. *)
BeginRestorePastEnd(l) ==
    /\ step' = [step EXCEPT ![l] = Len(plan[l]) + 1]
    /\ Goto(l, "restore")
BeginRestore(l) ==
    /\ step' = [step EXCEPT ![l] = Len(plan[l])]
    /\ Goto(l, "restore")
-----------------------------------------------------------------------------
Init ==
    /\ plan \in Plans
    /\ file \in [Files -> {None, [edit |-> Unedited, layers |-> <<>>]}]
    /\ \A f \in Files \ Named : file[f] = None
    /\ edits = 0
    /\ pc = [l \in Launches |-> IF plan[l] = <<>> THEN "over" ELSE "snapshot"]
    /\ step = [l \in Launches |-> IF plan[l] = <<>> THEN 0 ELSE 1]
    /\ snap = [l \in Launches |-> Nothing]
    /\ overlay = [l \in Launches |-> Nothing]
    /\ force = [l \in Launches |-> {}]
    /\ buffer = [l \in Launches |-> None]
    /\ failures = [l \in Launches |-> {}]
    /\ told = [l \in Launches |-> {}]

(* ApplyFileWritesWithRestore, the snapshots. *)
TakeSnapshot(l) ==
    /\ pc[l] = "snapshot"
    /\ snap' = IF First(l)
               THEN [snap EXCEPT ![l][Target(l)] = file[Target(l)]]
               ELSE snap
    /\ Advance(l, "snapshot", "read")
    /\ UNCHANGED <<plan, file, edits, overlay, force, buffer, failures, told>>

(* A path that is refused or cannot be read: nothing was written yet. *)
SnapshotFails(l) ==
    /\ pc[l] = "snapshot"
    /\ Goto(l, "over") /\ Tell(l, "apply") /\ Forget(l)
    /\ UNCHANGED <<plan, file, edits>>

(* applyFileWrites: read the file, merge, write it atomically. *)
ReadTarget(l) ==
    /\ pc[l] = "read"
    /\ buffer' = [buffer EXCEPT ![l] = file[Target(l)]]
    /\ Goto(l, "write")
    /\ UNCHANGED <<plan, file, edits, step, snap, overlay, force, failures, told>>

WriteOverlay(l) ==
    /\ pc[l] = "write"
    /\ Put(Target(l), Merged(buffer[l], At(l)))
    /\ Goto(l, "hash") /\ DropBuffer(l)
    /\ UNCHANGED <<plan, edits, step, snap, overlay, force, failures, told>>

(* The completion callback: the hash of what is now on disk. *)
HashOverlay(l) ==
    /\ pc[l] = "hash"
    /\ file[Target(l)] # None
    /\ overlay' = [overlay EXCEPT ![l][Target(l)] = file[Target(l)]]
    /\ Advance(l, "read", "prepared")
    /\ UNCHANGED <<plan, file, edits, snap, force, buffer, failures, told>>

(* The file cannot be read back: it will be restored whatever it holds. *)
HashFails(l) ==
    /\ pc[l] = "hash"
    /\ force' = [force EXCEPT ![l] = @ \cup {Target(l)}]
    /\ BeginRestore(l) /\ Tell(l, "apply")
    /\ UNCHANGED <<plan, file, edits, snap, overlay, buffer, failures>>

(* A refused path, a raw secret, a failed backup or merge, a failed write. *)
ApplyFails(l) ==
    /\ pc[l] \in {"read", "write"}
    /\ BeginRestore(l) /\ Tell(l, "apply") /\ DropBuffer(l)
    /\ UNCHANGED <<plan, file, edits, snap, overlay, force, failures>>

(* The write has renamed the file into place and then fails to sync the    *)
(* directory: it is reported as failed, and the file counts as unwritten.  *)
WriteUnsynced(l) ==
    /\ pc[l] = "write"
    /\ Put(Target(l), Merged(buffer[l], At(l)))
    /\ BeginRestore(l) /\ Tell(l, "apply") /\ DropBuffer(l)
    /\ UNCHANGED <<plan, edits, snap, overlay, force, failures>>

(* PrepareCommandWithCleanup: the child starts, once the protocol bridge,  *)
(* if the strategy has one, listens.                                       *)
StartChild(l) ==
    /\ pc[l] = "prepared"
    /\ Goto(l, "running")
    /\ UNCHANGED <<plan, file, edits, step, snap, overlay, force, buffer, failures,
                   told>>

BridgeFails(l) ==
    /\ pc[l] = "prepared"
    /\ BeginRestore(l) /\ Tell(l, "bridge")
    /\ UNCHANGED <<plan, file, edits, snap, overlay, force, buffer, failures>>

(* Cleanup: the bridge is closed, then the files are restored. *)
ChildExits(l) ==
    /\ pc[l] = "running"
    /\ BeginRestore(l)
    /\ \/ UNCHANGED told
       \/ Tell(l, "bridge")
    /\ UNCHANGED <<plan, file, edits, snap, overlay, force, buffer, failures>>
-----------------------------------------------------------------------------
CompletedOnceHashed(l, f) == overlay[l][f] # None
Completed(l, f) == overlay[l][f] # None \/ f \in force[l]
Due(l) == step[l] > 0 /\ First(l) /\ Completed(l, Target(l))

(* The file was changed after launch. *)
ChangedNever(l) == FALSE
Changed(l) ==
    /\ file[Target(l)] \notin {None, overlay[l][Target(l)]}
    /\ Target(l) \notin force[l]

Skip(l) == step' = [step EXCEPT ![l] = @ - 1]
Failed(l) == failures' = [failures EXCEPT ![l] = @ \cup {Target(l)}]

(* restore: nothing to do for this write, or its file has changed, or it   *)
(* is to be put back.                                                      *)
RestoreNext(l) ==
    /\ pc[l] = "restore" /\ step[l] > 0
    /\ IF Due(l) /\ ~Changed(l)
       THEN /\ buffer' = [buffer EXCEPT ![l] = file[Target(l)]]
            /\ Goto(l, "replace")
            /\ UNCHANGED <<step, failures>>
       ELSE /\ Skip(l)
            /\ IF Due(l) THEN Failed(l) ELSE UNCHANGED failures
            /\ UNCHANGED <<buffer, pc>>
    /\ UNCHANGED <<plan, file, edits, snap, overlay, force, told>>

(* The snapshot is written back, or the file the launch created removed.   *)
RestoreFile(l) ==
    /\ pc[l] = "replace"
    /\ LET f == Target(l)
       IN  /\ IF snap[l][f] # None \/ buffer[l] # None
              THEN Put(f, snap[l][f])
              ELSE UNCHANGED file
           /\ IF snap[l][f] = None /\ buffer[l] # None /\ file[f] = None
              THEN Failed(l)
              ELSE UNCHANGED failures
    /\ Skip(l) /\ Goto(l, "restore") /\ DropBuffer(l)
    /\ UNCHANGED <<plan, edits, snap, overlay, force, told>>

RestoreFails(l) ==
    /\ pc[l] \in {"restore", "replace"} /\ Due(l)
    /\ Failed(l) /\ Skip(l) /\ Goto(l, "restore") /\ DropBuffer(l)
    /\ UNCHANGED <<plan, file, edits, snap, overlay, force, told>>

(* The launch returns; an error of the bridge hides those of the restore.  *)
Finish(l) ==
    /\ pc[l] = "restore" /\ step[l] = 0
    /\ IF failures[l] # {} /\ "bridge" \notin told[l]
       THEN Tell(l, "restore")
       ELSE UNCHANGED told
    /\ Goto(l, "over") /\ Forget(l)
    /\ UNCHANGED <<plan, file, edits>>

Kill(l) ==
    /\ pc[l] \notin {"over", "killed"}
    /\ Goto(l, "killed") /\ Forget(l)
    /\ UNCHANGED <<plan, file, edits, told>>
-----------------------------------------------------------------------------
(* The child or the user, at any time: one part of the file. *)
EditPart(f, p) ==
    /\ f \in Named
    /\ edits * Cardinality({l \in Launches : plan[l] # <<>>}) < MaxEdits
    /\ edits' = edits + 1
    /\ Put(f, IF file[f] = None
              THEN [edit |-> [Unedited EXCEPT ![p] = edits'], layers |-> <<>>]
              ELSE [file[f] EXCEPT !.edit[p] = edits'])
    /\ UNCHANGED <<plan, pc, step, snap, overlay, force, buffer, failures, told>>

Edit(f) == \E p \in Parts : EditPart(f, p)

Delete(f) ==
    /\ file[f] # None
    /\ Put(f, None)
    /\ UNCHANGED <<plan, edits, pc, step, snap, overlay, force, buffer, failures, told>>

Apply(l) == \/ TakeSnapshot(l) \/ SnapshotFails(l) \/ ReadTarget(l)
            \/ WriteOverlay(l) \/ WriteUnsynced(l) \/ ApplyFails(l)
            \/ HashOverlay(l) \/ HashFails(l)
Restore(l) == \/ RestoreNext(l) \/ RestoreFile(l) \/ RestoreFails(l) \/ Finish(l)

Next ==
    \/ \E l \in Launches : \/ Apply(l)
                           \/ StartChild(l) \/ BridgeFails(l) \/ ChildExits(l)
                           \/ Restore(l)
                           \/ Kill(l)
    \/ \E f \in Files : Edit(f) \/ Delete(f)

Spec == Init /\ [][Next]_vars
-----------------------------------------------------------------------------
(* The shape of the state: a launch never runs off its plan.               *)
TypeOK ==
    /\ plan \in Plans
    /\ file \in [Files -> Content \cup {None}]
    /\ edits \in 0..MaxEdits
    /\ pc \in [Launches -> Positions]
    /\ step \in [Launches -> Nat] /\ \A l \in Launches : step[l] <= Len(plan[l])
    /\ snap \in [Launches -> [Files -> Content \cup {None}]]
    /\ overlay \in [Launches -> [Files -> Content \cup {None}]]
    /\ force \in [Launches -> SUBSET Files]
    /\ buffer \in [Launches -> Content \cup {None}]
    /\ failures \in [Launches -> SUBSET Files]
    /\ told \in [Launches -> SUBSET Errors]
=============================================================================
