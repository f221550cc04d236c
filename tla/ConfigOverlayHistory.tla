----------------------- MODULE ConfigOverlayHistory -----------------------
(***************************************************************************)
(* Overlays of configuration files, with what has happened to the files.   *)
(***************************************************************************)
EXTENDS ConfigOverlay

VARIABLES
    kept,           \* per file and part, its last edit made out of every launch's way
    touched,        \* per launch, files that somebody changed while it ran
    refused,        \* per launch, files the disk would not read, write or sync
    overlapped      \* launches that ran while another one did

history == <<kept, touched, refused, overlapped>>

Begun(l) == pc[l] # "snapshot" \/ step[l] > 1
AtWork == {l \in Launches : Begun(l) /\ pc[l] \notin {"over", "killed"}}

(* Launch l has looked at file f and not yet hashed what it made of it, or *)
(* has compared it and is about to put it back, or will put it back        *)
(* whatever it holds.                                                      *)
Pending(l, f) == {i \in 1..Len(plan[l]) : plan[l][i].file = f}
InTheWay(l, f) ==
    /\ l \in AtWork
    /\ \/ /\ pc[l] = "snapshot"
          /\ \E i \in Pending(l, f) : i < step[l]
       \/ /\ pc[l] \in {"read", "write", "hash"}
          /\ \E i \in Pending(l, f) : i >= step[l]
       \/ pc[l] = "replace" /\ Target(l) = f
       \/ f \in force[l]

Hand(f) == Edit(f) \/ Delete(f)

(* The disk refuses: the restore that skips a changed file is not one.     *)
DiskFails(l) == \/ WriteUnsynced(l)
                \/ RestoreFails(l) /\ ~(pc[l] = "restore" /\ Changed(l))

HInit == /\ Init
         /\ kept = [f \in Files |-> Unedited]
         /\ touched = [l \in Launches |-> {}]
         /\ refused = [l \in Launches |-> {}]
         /\ overlapped = {}

HNext ==
    /\ Next
    /\ kept' = [f \in Files |-> [p \in Parts |->
          IF EditPart(f, p) /\ \A l \in Launches : ~InTheWay(l, f) THEN edits'
          ELSE IF Delete(f) THEN 0
          ELSE kept[f][p]]]
    /\ touched' = [l \in Launches |-> touched[l] \cup
          {f \in Files : l \in AtWork /\ Hand(f)}]
    /\ refused' = [l \in Launches |-> refused[l] \cup
          {f \in Files : DiskFails(l) /\ f = Target(l)}]
    /\ overlapped' = overlapped \cup
          (IF Cardinality(AtWork') > 1 THEN AtWork' ELSE {})

HSpec == HInit /\ [][HNext]_<<vars, history>>
-----------------------------------------------------------------------------
Hiding(l, f, p) == \E i \in Pending(l, f) : Hides(plan[l][i], p)

(* "preserving child/user modifications": an edit made out of the way of   *)
(* the launches' own reads and writes of the file is never undone, however *)
(* many launches overlap, whichever of them fails or is killed, and in     *)
(* whatever order they end.  Only a launch that replaces the whole file,   *)
(* or merges settings over the very part that was edited, hides the edit,  *)
(* until it has put the file back or reported an error; when another one   *)
(* overlaps with it, the edit may be lost.                                 *)
EditsPreserved ==
    \A f \in Files, p \in Parts :
        \/ kept[f][p] = 0
        \/ file[f] # None /\ file[f].edit[p] >= kept[f][p]
        \/ \E l \in Launches :
              /\ Hiding(l, f, p)
              /\ pc[l] # "over" \/ told[l] # {} \/ l \in overlapped

Snapped(l) == {plan[l][i].file : i \in 1..Len(plan[l])}
Ends(l) == pc[l] = "restore" /\ pc'[l] = "over"

(* "AegisKeys restores its own unchanged overlay": a launch that had the   *)
(* files to itself, whether it ran its child or failed half way, ends with *)
(* every file nobody else touched as it was before, byte for byte, also    *)
(* when some other file could not be restored.                             *)
RestoredExactly ==
    [][\A l \in Launches : Ends(l) /\ l \notin overlapped =>
          \A f \in Snapped(l) \ (touched[l] \cup refused[l]) :
              file'[f] = snap[l][f]]_<<vars, history>>

=============================================================================
