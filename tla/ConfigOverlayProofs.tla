------------------------ MODULE ConfigOverlayProofs ------------------------
(***************************************************************************)
(* Theorems about ConfigOverlay and its history, for any launches, plans,  *)
(* files and number of edits.                                              *)
(***************************************************************************)
EXTENDS ConfigOverlayHistory, FiniteSetTheorems, SequenceTheorems, TLAPS

USE LaunchAssumption, PlanAssumption, BoundAssumption, NoneAssumption

(* What a launch's position says of its locals. *)
Working == {"snapshot", "read", "write", "hash", "prepared", "running", "replace"}
ControlOf(l) ==
    /\ pc[l] \in Working => step[l] >= 1
    /\ pc[l] \in {"prepared", "running"} => step[l] = 1
    /\ pc[l] = "snapshot" => overlay[l] = Nothing /\ force[l] = {}
    /\ pc[l] = "replace" => Due(l)
Control == \A l \in Launches : ControlOf(l)

TypeInv == TypeOK /\ Control
-----------------------------------------------------------------------------
LEMMA WithoutType ==
    ASSUME NEW s \in Seq(Layers), NEW x
    PROVE  Without(s, x) \in Seq(Layers)
<1> DEFINE i == CHOOSE i \in 1..Len(s) : s[i] = x
<1> SUFFICES ASSUME ~(\A j \in 1..Len(s) : s[j] # x)
             PROVE  SubSeq(s, 1, i - 1) \o SubSeq(s, i + 1, Len(s)) \in Seq(Layers)
    BY DEF Without
<1>1. i \in 1..Len(s)
    OBVIOUS
<1> HIDE DEF i
<1>2. SubSeq(s, 1, i - 1) \in Seq(Layers) /\ SubSeq(s, i + 1, Len(s)) \in Seq(Layers)
    BY <1>1
<1> QED
    BY <1>2

LEMMA MergedType ==
    ASSUME NEW c \in Content \cup {None}, NEW w \in Writes
    PROVE  /\ Merged(c, w) \in Content
           /\ \A p \in Parts : Hides(w, p) \/ c = None => Merged(c, w).edit[p] = 0
           /\ \A p \in Parts : ~Hides(w, p) /\ c # None => Merged(c, w).edit[p] = c.edit[p]
<1>1. w.layer \in Layers
    BY DEF Writes
<1>2. CASE c = None \/ w.replace
  <2>1. <<w.layer>> \in Seq(Layers)
    BY <1>1
  <2> QED
    BY <1>2, <2>1 DEF Merged, Content, Unedited, Hides
<1>3. CASE ~(c = None \/ w.replace)
  <2>1. Append(Without(c.layers, w.layer), w.layer) \in Seq(Layers)
    BY <1>1, <1>3, WithoutType DEF Content
  <2>2. [p \in Parts |-> IF Hides(w, p) THEN 0 ELSE c.edit[p]] \in [Parts -> 0..MaxEdits]
    BY <1>3 DEF Content
  <2> QED
    BY <1>3, <2>1, <2>2 DEF Merged, Content
<1> QED
    BY <1>2, <1>3

(* Plans, and the write a launch is at. *)
LEMMA PlanFacts ==
    ASSUME TypeOK, NEW l \in Launches
    PROVE  /\ plan[l] \in Seq(Writes) /\ Len(plan[l]) \in Nat
           /\ \A i \in 1..Len(plan[l]) : plan[l][i] \in Writes /\ plan[l][i].file \in Files
           /\ step[l] \in Nat
           /\ step[l] >= 1 => step[l] \in 1..Len(plan[l]) /\ At(l) \in Writes /\ Target(l) \in Files
           /\ (step[l] = 0) = (step[l] \notin 1..Len(plan[l]))
<1>1. plan[l] \in Seq(Writes)
    BY DEF TypeOK
<1>2. Len(plan[l]) \in Nat
    BY <1>1
<1>3. \A i \in 1..Len(plan[l]) : plan[l][i] \in Writes
    BY <1>1
<1>4. \A w \in Writes : w.file \in Files
    BY DEF Writes
<1>5. step[l] \in Nat /\ step[l] <= Len(plan[l])
    BY DEF TypeOK
<1> QED
    BY <1>1, <1>2, <1>3, <1>4, <1>5 DEF At, Target

LEMMA NothingType == Nothing \in [Files -> Content \cup {None}]
BY DEF Nothing

(* A launch begins to restore, or goes on to the next write. *)
LEMMA BeginRestoreType ==
    ASSUME TypeInv, NEW l \in Launches, BeginRestore(l)
    PROVE  /\ pc' = [pc EXCEPT ![l] = "restore"] /\ pc' \in [Launches -> Positions]
           /\ step' \in [Launches -> Nat] /\ \A m \in Launches : step'[m] <= Len(plan[m])
           /\ \A m \in Launches \ {l} : step'[m] = step[m] /\ pc'[m] = pc[m]
           /\ pc'[l] = "restore" /\ step'[l] = Len(plan[l])
<1>1. Len(plan[l]) \in Nat
    BY PlanFacts DEF TypeInv
<1> QED
    BY <1>1 DEF BeginRestore, Goto, TypeInv, TypeOK, Positions

(* The others are left alone. *)
Elsewhere(l) ==
    /\ plan' = plan
    /\ \A m \in Launches \ {l} :
         /\ pc'[m] = pc[m] /\ step'[m] = step[m] /\ snap'[m] = snap[m]
         /\ overlay'[m] = overlay[m] /\ force'[m] = force[m] /\ buffer'[m] = buffer[m]
         /\ failures'[m] = failures[m] /\ told'[m] = told[m]

LEMMA ControlKept ==
    ASSUME NEW l \in Launches, Control, Elsewhere(l), ControlOf(l)'
    PROVE  Control'
<1> SUFFICES ASSUME NEW m \in Launches, m # l PROVE ControlOf(m)'
    BY DEF Control
<1>1. ControlOf(m)
    BY DEF Control
<1>2. /\ plan' = plan /\ pc'[m] = pc[m] /\ step'[m] = step[m]
      /\ overlay'[m] = overlay[m] /\ force'[m] = force[m]
    BY DEF Elsewhere
<1>3. Target(m)' = Target(m)
    BY <1>2 DEF Target, At
<1>4. Due(m)' = Due(m)
    BY <1>2, <1>3 DEF Due, First, Completed
<1> QED
    BY <1>1, <1>2, <1>4 DEF ControlOf, Nothing

LEMMA AdvanceType ==
    ASSUME TypeInv, NEW l \in Launches, step[l] >= 1, NEW to \in Positions, NEW after \in Positions,
           Advance(l, to, after)
    PROVE  /\ pc' \in [Launches -> Positions]
           /\ step' \in [Launches -> Nat] /\ \A m \in Launches : step'[m] <= Len(plan[m])
           /\ \A m \in Launches \ {l} : step'[m] = step[m] /\ pc'[m] = pc[m]
           /\ \/ step[l] < Len(plan[l]) /\ step'[l] = step[l] + 1 /\ pc'[l] = to
              \/ step[l] = Len(plan[l]) /\ step'[l] = 1 /\ pc'[l] = after
<1>1. step[l] \in 1..Len(plan[l]) /\ Len(plan[l]) \in Nat
    BY PlanFacts DEF TypeInv
<1>2. step \in [Launches -> Nat] /\ (\A m \in Launches : step[m] <= Len(plan[m]))
      /\ pc \in [Launches -> Positions]
    BY DEF TypeInv, TypeOK
<1>3. CASE step[l] < Len(plan[l])
  <2>1. step' = [step EXCEPT ![l] = step[l] + 1] /\ pc' = [pc EXCEPT ![l] = to]
    BY <1>3 DEF Advance, Goto
  <2>2. step[l] + 1 \in Nat /\ step[l] + 1 <= Len(plan[l])
    BY <1>1, <1>3
  <2> QED
    BY <1>2, <1>3, <2>1, <2>2
<1>4. CASE ~(step[l] < Len(plan[l]))
  <2>1. step' = [step EXCEPT ![l] = 1] /\ pc' = [pc EXCEPT ![l] = after]
    BY <1>4 DEF Advance, Goto
  <2>2. step[l] = Len(plan[l]) /\ 1 <= Len(plan[l])
    BY <1>1, <1>4
  <2> QED
    BY <1>2, <2>1, <2>2
<1> QED
    BY <1>3, <1>4

(* Back to nothing. *)
LEMMA ForgetType ==
    ASSUME TypeInv, NEW l \in Launches, NEW to \in Positions \ (Working \cup {"snapshot"}),
           Forget(l), Goto(l, to), UNCHANGED <<plan, file, edits>>,
           told' \in [Launches -> SUBSET Errors], \A m \in Launches \ {l} : told'[m] = told[m]
    PROVE  TypeInv' /\ Elsewhere(l) /\ pc'[l] = to
<1>1. /\ pc' \in [Launches -> Positions]
      /\ snap' \in [Launches -> [Files -> Content \cup {None}]]
      /\ overlay' \in [Launches -> [Files -> Content \cup {None}]]
      /\ force' \in [Launches -> SUBSET Files] /\ failures' \in [Launches -> SUBSET Files]
      /\ buffer' \in [Launches -> Content \cup {None}]
    BY NothingType DEF Forget, Goto, TypeInv, TypeOK
<1>2. /\ step' \in [Launches -> Nat] /\ \A m \in Launches : step'[m] <= Len(plan[m])
    BY PlanFacts DEF Forget, TypeInv, TypeOK
<1>3. TypeOK'
    BY <1>1, <1>2 DEF TypeInv, TypeOK
<1>4. Elsewhere(l) /\ pc'[l] = to
    BY DEF Elsewhere, Forget, Goto, TypeInv, TypeOK
<1>5. ControlOf(l)'
    BY <1>4 DEF ControlOf, Working
<1> QED
    BY <1>3, <1>4, <1>5, ControlKept DEF TypeInv

LEMMA TypeInit == Init => TypeInv
<1> SUFFICES ASSUME Init PROVE TypeInv
    OBVIOUS
<1>1. plan \in Plans /\ \A l \in Launches : plan[l] \in Seq(Writes) /\ Len(plan[l]) \in Nat
    BY DEF Init
<1>2. \A l \in Launches : plan[l] # <<>> => 1 <= Len(plan[l])
    BY <1>1
<1>3. step \in [Launches -> Nat] /\ \A l \in Launches : step[l] <= Len(plan[l])
    BY <1>1, <1>2 DEF Init
<1>4. file \in [Files -> Content \cup {None}]
  <2>1. [edit |-> Unedited, layers |-> <<>>] \in Content
    BY DEF Content, Unedited
  <2> QED
    BY <2>1 DEF Init
<1>5. pc \in [Launches -> Positions]
    BY DEF Init, Positions
<1>6. TypeOK
    BY <1>1, <1>3, <1>4, <1>5, NothingType DEF Init, TypeOK
<1>7. Control
    BY DEF Init, Control, ControlOf, Working
<1> QED
    BY <1>6, <1>7 DEF TypeInv

LEMMA TellType ==
    ASSUME TypeInv, NEW l \in Launches, NEW e \in Errors, Tell(l, e) \/ told' = told
    PROVE  /\ told' \in [Launches -> SUBSET Errors]
           /\ \A m \in Launches \ {l} : told'[m] = told[m]
           /\ told[l] \subseteq told'[l]
<1>1. told \in [Launches -> SUBSET Errors]
    BY DEF TypeInv, TypeOK
<1>2. CASE Tell(l, e)
  <2>1. told' = [told EXCEPT ![l] = told[l] \cup {e}]
    BY <1>2 DEF Tell
  <2>2. told[l] \cup {e} \in SUBSET Errors
    BY <1>1
  <2> QED
    BY <1>1, <2>1, <2>2
<1>3. CASE told' = told
    BY <1>1, <1>3
<1> QED
    BY <1>2, <1>3

LEMMA FailedType ==
    ASSUME TypeInv, NEW l \in Launches, step[l] >= 1, Failed(l) \/ failures' = failures
    PROVE  /\ failures' \in [Launches -> SUBSET Files]
           /\ \A m \in Launches \ {l} : failures'[m] = failures[m]
           /\ failures[l] \subseteq failures'[l]
           /\ Failed(l) => Target(l) \in failures'[l]
<1>1. failures \in [Launches -> SUBSET Files]
    BY DEF TypeInv, TypeOK
<1>2. CASE Failed(l)
  <2>1. failures' = [failures EXCEPT ![l] = failures[l] \cup {Target(l)}]
    BY <1>2 DEF Failed
  <2>2. failures[l] \cup {Target(l)} \in SUBSET Files
    BY <1>1, PlanFacts DEF TypeInv
  <2> QED
    BY <1>1, <2>1, <2>2
<1>3. CASE failures' = failures /\ ~Failed(l)
    BY <1>1, <1>3
<1> QED
    BY <1>2, <1>3

(* What a step of a launch leaves alone, and the type of what it does.     *)
LEMMA ApplyType ==
    ASSUME TypeInv, NEW l \in Launches, Apply(l)
    PROVE  TypeInv' /\ Elsewhere(l)
<1> DEFINE f == Target(l)
<1>0. /\ plan[l] \in Seq(Writes) /\ Len(plan[l]) \in Nat
      /\ step[l] \in Nat
      /\ pc[l] \in Working => /\ step[l] >= 1 /\ f \in Files /\ At(l) \in Writes
                              /\ step[l] \in 1..Len(plan[l])
    BY PlanFacts DEF TypeInv, Control, ControlOf
<1>p. {"snapshot", "read", "write", "hash", "prepared", "restore", "over"} \subseteq Positions
      /\ {"snapshot", "read", "write", "hash"} \subseteq Working
    BY DEF Positions, Working
<1>1. CASE TakeSnapshot(l)
  <2>0. pc[l] \in Working
    BY <1>1, <1>p DEF TakeSnapshot
  <2>1. snap' \in [Launches -> [Files -> Content \cup {None}]]
        /\ \A m \in Launches \ {l} : snap'[m] = snap[m]
    BY <1>0, <1>1, <2>0 DEF TakeSnapshot, TypeInv, TypeOK
  <2>2. Advance(l, "snapshot", "read")
        /\ UNCHANGED <<plan, file, edits, overlay, force, buffer, failures, told>>
    BY <1>1 DEF TakeSnapshot
  <2>3. /\ pc' \in [Launches -> Positions]
        /\ step' \in [Launches -> Nat] /\ \A m \in Launches : step'[m] <= Len(plan[m])
        /\ \A m \in Launches \ {l} : step'[m] = step[m] /\ pc'[m] = pc[m]
        /\ \/ step[l] < Len(plan[l]) /\ step'[l] = step[l] + 1 /\ pc'[l] = "snapshot"
           \/ step[l] = Len(plan[l]) /\ step'[l] = 1 /\ pc'[l] = "read"
    BY <1>0, <1>p, <2>0, <2>2, AdvanceType
  <2>4. TypeOK'
    BY <2>1, <2>2, <2>3 DEF TypeInv, TypeOK
  <2>5. ControlOf(l)
    BY DEF TypeInv, Control
  <2>6. ControlOf(l)'
    BY <1>0, <1>1, <2>0, <2>2, <2>3, <2>5 DEF ControlOf, TakeSnapshot, Nothing
  <2>7. Elsewhere(l)
    BY <2>1, <2>2, <2>3 DEF Elsewhere
  <2> QED
    BY <2>4, <2>6, <2>7, ControlKept DEF TypeInv
<1>2. CASE SnapshotFails(l)
  <2>1. told' \in [Launches -> SUBSET Errors] /\ \A m \in Launches \ {l} : told'[m] = told[m]
    BY <1>2, TellType DEF SnapshotFails, Errors
  <2> QED
    BY <1>2, <2>1, ForgetType DEF SnapshotFails, Positions, Working
<1>3. CASE ReadTarget(l)
  <2>0. pc[l] \in Working
    BY <1>3, <1>p DEF ReadTarget
  <2>1. TypeOK'
    BY <1>0, <1>3, <2>0, <1>p DEF ReadTarget, Goto, TypeInv, TypeOK
  <2>2. Elsewhere(l) /\ pc'[l] = "write"
    BY <1>3 DEF ReadTarget, Goto, Elsewhere, TypeInv, TypeOK
  <2>3. ControlOf(l)'
    BY <1>0, <1>3, <2>0, <2>2 DEF ControlOf, ReadTarget
  <2> QED
    BY <2>1, <2>2, <2>3, ControlKept DEF TypeInv
<1>4. CASE WriteOverlay(l)
  <2>0. pc[l] \in Working
    BY <1>4, <1>p DEF WriteOverlay
  <2>1. buffer[l] \in Content \cup {None}
    BY DEF TypeInv, TypeOK
  <2>2. Merged(buffer[l], At(l)) \in Content
    BY <1>0, <2>0, <2>1, MergedType
  <2>3. TypeOK'
    BY <1>0, <1>4, <2>0, <2>2, <1>p DEF WriteOverlay, Goto, Put, DropBuffer, TypeInv, TypeOK
  <2>4. Elsewhere(l) /\ pc'[l] = "hash"
    BY <1>4 DEF WriteOverlay, Goto, DropBuffer, Elsewhere, TypeInv, TypeOK
  <2>5. ControlOf(l)'
    BY <1>0, <1>4, <2>0, <2>4 DEF ControlOf, WriteOverlay
  <2> QED
    BY <2>3, <2>4, <2>5, ControlKept DEF TypeInv
<1>5. CASE WriteUnsynced(l)
  <2>0. pc[l] \in Working
    BY <1>5, <1>p DEF WriteUnsynced
  <2>1. buffer[l] \in Content \cup {None}
    BY DEF TypeInv, TypeOK
  <2>2. Merged(buffer[l], At(l)) \in Content
    BY <1>0, <2>0, <2>1, MergedType
  <2>3. BeginRestore(l)
    BY <1>5 DEF WriteUnsynced
  <2>4. TypeOK'
    BY <1>0, <1>5, <2>0, <2>2, <2>3, BeginRestoreType
    DEF WriteUnsynced, Put, DropBuffer, Tell, TypeInv, TypeOK, Errors
  <2>5. Elsewhere(l) /\ pc'[l] = "restore"
    BY <1>5, <2>3, BeginRestoreType DEF WriteUnsynced, Tell, DropBuffer, Elsewhere, TypeInv, TypeOK
  <2>6. ControlOf(l)'
    BY <2>5 DEF ControlOf, Working
  <2> QED
    BY <2>4, <2>5, <2>6, ControlKept DEF TypeInv
<1>6. CASE ApplyFails(l)
  <2>3. BeginRestore(l)
    BY <1>6 DEF ApplyFails
  <2>4. TypeOK'
    BY <1>6, <2>3, BeginRestoreType DEF ApplyFails, DropBuffer, Tell, TypeInv, TypeOK, Errors
  <2>5. Elsewhere(l) /\ pc'[l] = "restore"
    BY <1>6, <2>3, BeginRestoreType DEF ApplyFails, Tell, DropBuffer, Elsewhere, TypeInv, TypeOK
  <2>6. ControlOf(l)'
    BY <2>5 DEF ControlOf, Working
  <2> QED
    BY <2>4, <2>5, <2>6, ControlKept DEF TypeInv
<1>7. CASE HashOverlay(l)
  <2>0. pc[l] \in Working
    BY <1>7, <1>p DEF HashOverlay
  <2>1. overlay' \in [Launches -> [Files -> Content \cup {None}]]
        /\ \A m \in Launches \ {l} : overlay'[m] = overlay[m]
    BY <1>0, <1>7, <2>0 DEF HashOverlay, TypeInv, TypeOK
  <2>2. Advance(l, "read", "prepared")
        /\ UNCHANGED <<plan, file, edits, snap, force, buffer, failures, told>>
    BY <1>7 DEF HashOverlay
  <2>3. /\ pc' \in [Launches -> Positions]
        /\ step' \in [Launches -> Nat] /\ \A m \in Launches : step'[m] <= Len(plan[m])
        /\ \A m \in Launches \ {l} : step'[m] = step[m] /\ pc'[m] = pc[m]
        /\ \/ step[l] < Len(plan[l]) /\ step'[l] = step[l] + 1 /\ pc'[l] = "read"
           \/ step[l] = Len(plan[l]) /\ step'[l] = 1 /\ pc'[l] = "prepared"
    BY <1>0, <1>p, <2>0, <2>2, AdvanceType
  <2>4. TypeOK'
    BY <2>1, <2>2, <2>3 DEF TypeInv, TypeOK
  <2>6. ControlOf(l)'
    BY <1>0, <2>0, <2>3 DEF ControlOf
  <2>7. Elsewhere(l)
    BY <2>1, <2>2, <2>3 DEF Elsewhere
  <2> QED
    BY <2>4, <2>6, <2>7, ControlKept DEF TypeInv
<1>8. CASE HashFails(l)
  <2>0. pc[l] \in Working
    BY <1>8, <1>p DEF HashFails
  <2>3. BeginRestore(l)
    BY <1>8 DEF HashFails
  <2>4. TypeOK'
    BY <1>0, <1>8, <2>0, <2>3, BeginRestoreType DEF HashFails, Tell, TypeInv, TypeOK, Errors
  <2>5. Elsewhere(l) /\ pc'[l] = "restore"
    BY <1>8, <2>3, BeginRestoreType DEF HashFails, Tell, Elsewhere, TypeInv, TypeOK
  <2>6. ControlOf(l)'
    BY <2>5 DEF ControlOf, Working
  <2> QED
    BY <2>4, <2>5, <2>6, ControlKept DEF TypeInv
<1> QED
    BY <1>1, <1>2, <1>3, <1>4, <1>5, <1>6, <1>7, <1>8 DEF Apply

Child(l) == StartChild(l) \/ BridgeFails(l) \/ ChildExits(l)

LEMMA ChildType ==
    ASSUME TypeInv, NEW l \in Launches, Child(l)
    PROVE  TypeInv' /\ Elsewhere(l)
<1>0. ControlOf(l)
    BY DEF TypeInv, Control
<1>1. CASE StartChild(l)
  <2>1. TypeOK'
    BY <1>1 DEF StartChild, Goto, TypeInv, TypeOK, Positions
  <2>2. Elsewhere(l) /\ pc'[l] = "running" /\ step' = step
    BY <1>1 DEF StartChild, Goto, Elsewhere, TypeInv, TypeOK
  <2>3. ControlOf(l)'
    BY <1>0, <1>1, <2>2 DEF StartChild, ControlOf, Working
  <2> QED
    BY <2>1, <2>2, <2>3, ControlKept DEF TypeInv
<1>2. CASE BridgeFails(l) \/ ChildExits(l)
  <2>1. BeginRestore(l) /\ (UNCHANGED told \/ Tell(l, "bridge"))
        /\ UNCHANGED <<plan, file, edits, snap, overlay, force, buffer, failures>>
    BY <1>2 DEF BridgeFails, ChildExits
  <2>2. told' \in [Launches -> SUBSET Errors] /\ \A m \in Launches \ {l} : told'[m] = told[m]
    BY <2>1, TellType DEF Errors
  <2>3. TypeOK'
    BY <2>1, <2>2, BeginRestoreType DEF TypeInv, TypeOK
  <2>4. Elsewhere(l) /\ pc'[l] = "restore"
    BY <2>1, <2>2, BeginRestoreType DEF Elsewhere
  <2>5. ControlOf(l)'
    BY <2>4 DEF ControlOf, Working
  <2> QED
    BY <2>3, <2>4, <2>5, ControlKept DEF TypeInv
<1> QED
    BY <1>1, <1>2 DEF Child

LEMMA RestoreType ==
    ASSUME TypeInv, NEW l \in Launches, Restore(l)
    PROVE  TypeInv' /\ Elsewhere(l)
<1> DEFINE f == Target(l)
<1>0. /\ step[l] \in Nat /\ Len(plan[l]) \in Nat
      /\ step[l] >= 1 => f \in Files
      /\ ControlOf(l)
    BY PlanFacts DEF TypeInv, Control
<1>k. ASSUME step[l] >= 1, Skip(l)
      PROVE  /\ step' \in [Launches -> Nat] /\ \A m \in Launches : step'[m] <= Len(plan[m])
             /\ step'[l] = step[l] - 1 /\ \A m \in Launches \ {l} : step'[m] = step[m]
  <2>1. step[l] - 1 \in Nat /\ step[l] - 1 <= Len(plan[l])
    BY <1>0, <1>k, PlanFacts DEF TypeInv
  <2> QED
    BY <1>k, <2>1 DEF Skip, TypeInv, TypeOK
<1>f. ASSUME step[l] >= 1, Failed(l) \/ UNCHANGED failures
      PROVE  /\ failures' \in [Launches -> SUBSET Files]
             /\ \A m \in Launches \ {l} : failures'[m] = failures[m]
    BY <1>f, FailedType
<1>1. CASE RestoreNext(l) /\ Due(l) /\ ~Changed(l)
  <2>1. step[l] >= 1
    BY <1>0, <1>1 DEF RestoreNext
  <2>2. /\ UNCHANGED <<plan, file, edits, snap, overlay, force, told, step, failures>>
        /\ buffer' = [buffer EXCEPT ![l] = file[Target(l)]] /\ Goto(l, "replace")
    BY <1>1 DEF RestoreNext
  <2>3. TypeOK'
    BY <1>0, <2>1, <2>2 DEF Goto, TypeInv, TypeOK, Positions
  <2>4. Elsewhere(l) /\ pc'[l] = "replace"
    BY <2>2 DEF Goto, Elsewhere, TypeInv, TypeOK
  <2>5. Due(l)'
    BY <1>1, <2>2 DEF Due, First, Completed, Target, At
  <2>6. ControlOf(l)'
    BY <2>1, <2>2, <2>4, <2>5 DEF ControlOf
  <2> QED
    BY <2>3, <2>4, <2>6, ControlKept DEF TypeInv
<1>2. CASE RestoreNext(l) /\ ~(Due(l) /\ ~Changed(l))
  <2>1. step[l] >= 1 /\ pc[l] = "restore"
    BY <1>0, <1>2 DEF RestoreNext
  <2>2. /\ UNCHANGED <<plan, file, edits, snap, overlay, force, told, buffer, pc>>
        /\ Skip(l) /\ (Failed(l) \/ UNCHANGED failures)
    BY <1>2 DEF RestoreNext
  <2>3. TypeOK'
    BY <1>k, <1>f, <2>1, <2>2 DEF TypeInv, TypeOK
  <2>4. Elsewhere(l) /\ pc'[l] = "restore"
    BY <1>k, <1>f, <2>1, <2>2 DEF Elsewhere
  <2>6. ControlOf(l)'
    BY <2>4 DEF ControlOf, Working
  <2> QED
    BY <2>3, <2>4, <2>6, ControlKept DEF TypeInv
<1>3. CASE RestoreFile(l) \/ RestoreFails(l)
  <2>1. step[l] >= 1
    BY <1>0, <1>3 DEF RestoreFile, RestoreFails, ControlOf, Working, Due
  <2>2. /\ UNCHANGED <<plan, edits, snap, overlay, force, told>>
        /\ Skip(l) /\ (Failed(l) \/ UNCHANGED failures)
        /\ Goto(l, "restore") /\ DropBuffer(l)
        /\ file' = file \/ Put(f, snap[l][f])
    BY <1>3 DEF RestoreFile, RestoreFails
  <2>3. /\ step' \in [Launches -> Nat] /\ \A m \in Launches : step'[m] <= Len(plan[m])
        /\ \A m \in Launches \ {l} : step'[m] = step[m]
    BY <1>k, <2>1, <2>2
  <2>4. /\ failures' \in [Launches -> SUBSET Files]
        /\ \A m \in Launches \ {l} : failures'[m] = failures[m]
    BY <1>f, <2>1, <2>2
  <2>5. file' \in [Files -> Content \cup {None}]
    <3>1. file \in [Files -> Content \cup {None}] /\ snap[l][f] \in Content \cup {None}
      BY <1>0, <2>1 DEF TypeInv, TypeOK
    <3> QED
      BY <1>0, <2>1, <2>2, <3>1 DEF Put
  <2>6. /\ pc' \in [Launches -> Positions] /\ buffer' \in [Launches -> Content \cup {None}]
        /\ pc'[l] = "restore"
        /\ \A m \in Launches \ {l} : pc'[m] = pc[m] /\ buffer'[m] = buffer[m]
    BY <2>2 DEF Goto, DropBuffer, TypeInv, TypeOK, Positions
  <2>7. TypeOK'
    BY <2>2, <2>3, <2>4, <2>5, <2>6 DEF TypeInv, TypeOK
  <2>8. Elsewhere(l)
    BY <2>2, <2>3, <2>4, <2>6 DEF Elsewhere
  <2>9. ControlOf(l)'
    BY <2>6 DEF ControlOf, Working
  <2> QED
    BY <2>7, <2>8, <2>9, ControlKept DEF TypeInv
<1>4. CASE Finish(l)
  <2>1. told' \in [Launches -> SUBSET Errors] /\ \A m \in Launches \ {l} : told'[m] = told[m]
    BY <1>4, TellType DEF Finish, Errors
  <2> QED
    BY <1>4, <2>1, ForgetType DEF Finish, Positions, Working
<1> QED
    BY <1>1, <1>2, <1>3, <1>4 DEF Restore

LEMMA KillType ==
    ASSUME TypeInv, NEW l \in Launches, Kill(l)
    PROVE  TypeInv' /\ Elsewhere(l) /\ pc'[l] = "killed"
<1>1. told' \in [Launches -> SUBSET Errors] /\ \A m \in Launches \ {l} : told'[m] = told[m]
    BY DEF Kill, TypeInv, TypeOK
<1> QED
    BY <1>1, ForgetType DEF Kill, Positions, Working

(* A file is named by the plan of a launch that happens. *)
LEMMA EditBounded ==
    ASSUME TypeOK, NEW f \in Files, Edit(f)
    PROVE  edits \in Nat /\ edits + 1 \in 0..MaxEdits
<1> DEFINE S == {l \in Launches : plan[l] # <<>>}
<1>1. PICK l \in Launches : \E i \in 1..Len(plan[l]) : plan[l][i].file = f
    BY DEF Edit, EditPart, Named
<1>2. plan[l] # <<>>
    BY <1>1, PlanFacts
<1>3. IsFiniteSet(S)
    BY FS_Subset
<1>4. Cardinality(S) \in Nat /\ Cardinality(S) # 0
    BY <1>2, <1>3, FS_CardinalityType, FS_EmptySet
<1>5. edits \in Nat /\ edits * Cardinality(S) < MaxEdits
    BY DEF Edit, EditPart, TypeOK
<1> HIDE DEF S
<1>6. edits <= edits * Cardinality(S)
  <2>1. \A n, c \in Nat : c # 0 => n <= n * c
    OBVIOUS
  <2> QED
    BY <1>4, <1>5, <2>1
<1>7. edits * Cardinality(S) \in Nat
    BY <1>4, <1>5
<1> QED
    BY <1>5, <1>6, <1>7

(* What is written by hand: one part has a new edit, the others stay. *)
LEMMA EditedPart ==
    ASSUME TypeOK, NEW f \in Files, NEW p \in Parts, EditPart(f, p)
    PROVE  /\ edits' = edits + 1
           /\ \E c \in Content :
                 /\ Put(f, c) /\ c.edit[p] = edits + 1
                 /\ \A q \in Parts \ {p} :
                       c.edit[q] = IF file[f] = None THEN 0 ELSE file[f].edit[q]
<1>1. edits' = edits + 1 /\ edits \in Nat /\ edits + 1 \in 0..MaxEdits
    BY EditBounded DEF Edit, EditPart
<1>2. file[f] \in Content \cup {None}
    BY DEF TypeOK
<1>3. CASE file[f] = None
  <2> DEFINE c == [edit |-> [Unedited EXCEPT ![p] = edits + 1], layers |-> <<>>]
  <2>1. Put(f, c)
    BY <1>1, <1>3 DEF EditPart
  <2>2. Unedited \in [Parts -> 0..MaxEdits]
    BY DEF Unedited
  <2>3. c \in Content
    BY <1>1, <2>2 DEF Content
  <2>4. c.edit[p] = edits + 1 /\ \A q \in Parts \ {p} : c.edit[q] = 0
    BY DEF Unedited
  <2> QED
    BY <1>1, <1>3, <2>1, <2>3, <2>4
<1>4. CASE file[f] # None
  <2> DEFINE c == [file[f] EXCEPT !.edit[p] = edits + 1]
  <2>1. Put(f, c)
    BY <1>1, <1>4 DEF EditPart
  <2>2. c \in Content
    BY <1>1, <1>2, <1>4 DEF Content
  <2>3. c.edit[p] = edits + 1 /\ \A q \in Parts \ {p} : c.edit[q] = file[f].edit[q]
    BY <1>2, <1>4 DEF Content
  <2> QED
    BY <1>1, <1>4, <2>1, <2>2, <2>3
<1> QED
    BY <1>3, <1>4

LEMMA Edited ==
    ASSUME TypeOK, NEW f \in Files, Edit(f)
    PROVE  edits' = edits + 1 /\ \E c \in Content : Put(f, c)
BY EditedPart DEF Edit

LEMMA HandType ==
    ASSUME TypeInv, NEW f \in Files, Hand(f)
    PROVE  /\ TypeInv'
           /\ UNCHANGED <<plan, pc, step, snap, overlay, force, buffer, failures, told>>
           /\ \A g \in Files \ {f} : file'[g] = file[g]
<1>1. UNCHANGED <<plan, pc, step, snap, overlay, force, buffer, failures, told>>
    BY DEF Hand, Edit, EditPart, Delete
<1>4. TypeOK' /\ \A g \in Files \ {f} : file'[g] = file[g]
  <2>1. CASE Edit(f)
    <3>1. edits \in Nat /\ edits + 1 \in 0..MaxEdits
      BY <2>1, EditBounded DEF TypeInv
    <3>2. edits' = edits + 1 /\ \E c \in Content : Put(f, c)
      BY <2>1, <3>1, Edited DEF TypeInv
    <3> QED
      BY <1>1, <3>1, <3>2 DEF Put, TypeInv, TypeOK
  <2>2. CASE Delete(f)
    BY <1>1, <2>2 DEF Delete, Put, TypeInv, TypeOK
  <2> QED
    BY <2>1, <2>2 DEF Hand
<1>5. Control'
    BY <1>1 DEF TypeInv, Control, ControlOf, Due, First, Completed, Target, At, Nothing
<1> QED
    BY <1>1, <1>4, <1>5 DEF TypeInv

LEMMA TypeNext == TypeInv /\ [Next]_vars => TypeInv'
<1> SUFFICES ASSUME TypeInv, [Next]_vars PROVE TypeInv'
    OBVIOUS
<1>1. CASE \E l \in Launches : Apply(l) \/ Child(l) \/ Restore(l) \/ Kill(l)
    BY <1>1, ApplyType, ChildType, RestoreType, KillType
<1>2. CASE \E f \in Files : Hand(f)
    BY <1>2, HandType
<1>3. CASE UNCHANGED vars
    BY <1>3 DEF vars, TypeInv, TypeOK, Control, ControlOf, Due, First, Completed, Target, At, Nothing
<1> QED
    BY <1>1, <1>2, <1>3 DEF Next, Child, Hand

(* A launch never runs off its plan, and what it remembers, reads and      *)
(* writes stays a content of a file, for any plans.                        *)
THEOREM OverlayTypeCorrect == HSpec => []TypeOK
<1>1. HInit => TypeInv
    BY TypeInit DEF HInit
<1>2. TypeInv /\ [HNext]_<<vars, history>> => TypeInv'
    BY TypeNext DEF HNext, vars
<1>3. TypeInv => TypeOK
    BY DEF TypeInv
<1> QED
    BY <1>1, <1>2, <1>3, PTL DEF HSpec
-----------------------------------------------------------------------------
(* The history, and that launches at work at one time have overlapped.     *)
Own(l) == Apply(l) \/ Child(l) \/ Restore(l) \/ Kill(l)

HistoryType ==
    /\ kept \in [Files -> [Parts -> Nat]]
    /\ touched \in [Launches -> SUBSET Files]
    /\ refused \in [Launches -> SUBSET Files]
    /\ overlapped \in SUBSET Launches
OverlapInv == \A l, m \in AtWork : l # m => l \in overlapped

HInv == TypeInv /\ HistoryType /\ OverlapInv

LEMMA HInvInit == HInit => HInv
<1> SUFFICES ASSUME HInit PROVE HInv
    OBVIOUS
<1>1. TypeInv
    BY TypeInit DEF HInit
<1>2. HistoryType
    BY DEF HInit, HistoryType, Unedited
<1>3. AtWork = {}
    BY DEF HInit, Init, AtWork, Begun
<1> QED
    BY <1>1, <1>2, <1>3 DEF HInv, OverlapInv

LEMMA HistoryGrows ==
    ASSUME HInv, HNext
    PROVE  /\ HistoryType'
           /\ \A l \in Launches : touched[l] \subseteq touched'[l] /\ refused[l] \subseteq refused'[l]
           /\ overlapped \subseteq overlapped'
<1>1. TypeInv'
    BY TypeNext DEF HInv, HNext
<1>2. edits' \in Nat
    BY <1>1 DEF TypeInv, TypeOK
<1>3. kept' \in [Files -> [Parts -> Nat]]
    BY <1>2 DEF HNext, HInv, HistoryType
<1>4. AtWork' \subseteq Launches
    BY DEF AtWork
<1> QED
    BY <1>3, <1>4 DEF HNext, HInv, HistoryType

LEMMA TwoAtWork ==
    ASSUME NEW S \in SUBSET Launches, NEW l \in S, NEW m \in S, l # m
    PROVE  Cardinality(S) > 1
<1>1. IsFiniteSet(S) /\ Cardinality(S) \in Nat
    BY FS_Subset, FS_CardinalityType
<1>2. Cardinality(S) # 0
    BY <1>1, FS_EmptySet
<1>3. Cardinality(S) # 1
    BY <1>1, FS_Singleton
<1> QED
    BY <1>1, <1>2, <1>3

LEMMA HInvNext == HInv /\ [HNext]_<<vars, history>> => HInv'
<1> SUFFICES ASSUME HInv, [HNext]_<<vars, history>> PROVE HInv'
    OBVIOUS
<1>1. CASE HNext
  <2>1. TypeInv'
    BY <1>1, TypeNext DEF HInv, HNext
  <2>2. HistoryType'
    BY <1>1, HistoryGrows
  <2>3. OverlapInv'
    <3> SUFFICES ASSUME NEW l \in AtWork', NEW m \in AtWork', l # m PROVE l \in overlapped'
      BY DEF OverlapInv
    <3>1. AtWork' \in SUBSET Launches
      BY DEF AtWork
    <3>2. Cardinality(AtWork') > 1
      BY <3>1, TwoAtWork
    <3> QED
      BY <1>1, <3>2 DEF HNext
  <2> QED
    BY <2>1, <2>2, <2>3 DEF HInv
<1>2. CASE UNCHANGED <<vars, history>>
  <2>1. TypeInv'
    BY <1>2, TypeNext DEF HInv
  <2>2. HistoryType' /\ OverlapInv'
    BY <1>2 DEF HInv, HistoryType, OverlapInv, AtWork, Begun, vars, history
  <2> QED
    BY <2>1, <2>2 DEF HInv
<1> QED
    BY <1>1, <1>2

(* The files change by a write, by a restore or by hand.                   *)
LEMMA WhoWrites ==
    ASSUME TypeInv, NEW l \in Launches, Own(l)
    PROVE  /\ TypeInv' /\ Elsewhere(l) /\ edits' = edits
           /\ \/ file' = file
              \/ /\ pc[l] \in {"write", "replace"} /\ Target(l) \in Files
                 /\ \A g \in Files \ {Target(l)} : file'[g] = file[g]
<1>1. TypeInv' /\ Elsewhere(l)
    BY ApplyType, ChildType, RestoreType, KillType DEF Own
<1>2. edits' = edits
    BY DEF Own, Apply, Child, Restore, Kill, TakeSnapshot, SnapshotFails, ReadTarget, WriteOverlay,
       WriteUnsynced, ApplyFails, HashOverlay, HashFails, StartChild, BridgeFails, ChildExits,
       RestoreNext, RestoreFile, RestoreFails, Finish
<1>3. CASE WriteOverlay(l) \/ WriteUnsynced(l) \/ RestoreFile(l)
  <2>1. pc[l] \in {"write", "replace"}
    BY <1>3 DEF WriteOverlay, WriteUnsynced, RestoreFile
  <2>2. Target(l) \in Files
    BY <2>1, PlanFacts DEF TypeInv, Control, ControlOf, Working
  <2>3. file' = file \/ \E c : file' = [file EXCEPT ![Target(l)] = c]
    BY <1>3 DEF WriteOverlay, WriteUnsynced, RestoreFile, Put
  <2> QED
    BY <1>1, <1>2, <2>1, <2>2, <2>3 DEF TypeInv, TypeOK
<1>4. CASE ~(WriteOverlay(l) \/ WriteUnsynced(l) \/ RestoreFile(l))
  <2>1. file' = file
    BY <1>4 DEF Own, Apply, Child, Restore, Kill, TakeSnapshot, SnapshotFails, ReadTarget,
       ApplyFails, HashOverlay, HashFails, StartChild, BridgeFails, ChildExits,
       RestoreNext, RestoreFails, Finish
  <2> QED
    BY <1>1, <1>2, <2>1
<1> QED
    BY <1>3, <1>4

(* While a launch has the files to itself no other one writes. *)
LEMMA AtWorkByItself ==
    ASSUME HInv, HNext, NEW l \in Launches, Own(l), NEW m \in Launches \ {l},
           m \in AtWork', m \notin overlapped'
    PROVE  file' = file /\ m \in AtWork /\ m \notin overlapped
<1>1. Elsewhere(l)
    BY WhoWrites DEF HInv
<1>2. m \in AtWork
    BY <1>1 DEF Elsewhere, AtWork, Begun
<1>3. m \notin overlapped
    BY HistoryGrows
<1>4. l \notin AtWork
    BY <1>2, <1>3 DEF HInv, OverlapInv
<1>5. pc[l] \notin {"write", "replace"}
    BY <1>4 DEF AtWork, Begun
<1> QED
    BY <1>2, <1>3, <1>5, WhoWrites DEF HInv
-----------------------------------------------------------------------------
(* A launch by itself: how the files nobody else touched stand to its      *)
(* snapshots and hashes.                                                   *)
Unhashed(l, f) == \A i \in Pending(l, f) : i >= step[l]
Left(l, f) == \E i \in Pending(l, f) : i <= step[l]
AsFound(l, f) ==
    /\ pc[l] = "snapshot" => Unhashed(l, f) \/ file[f] = snap[l][f]
    /\ pc[l] \in {"read", "write", "hash"} =>
         /\ force[l] = {}
         /\ overlay[l][f] = None <=> Unhashed(l, f)
         /\ \/ pc[l] = "hash" /\ Target(l) = f
            \/ file[f] = IF Unhashed(l, f) THEN snap[l][f] ELSE overlay[l][f]
    /\ pc[l] \in {"prepared", "running"} =>
         /\ force[l] = {} /\ overlay[l][f] # None /\ file[f] = overlay[l][f]
    /\ pc[l] \in {"restore", "replace"} =>
         \/ file[f] = snap[l][f] /\ (~Completed(l, f) \/ ~Left(l, f))
         \/ Left(l, f) /\ (f \in force[l] \/ (overlay[l][f] # None /\ file[f] = overlay[l][f]))
    /\ pc[l] = "replace" /\ Target(l) = f => buffer[l] = file[f]

ExactInv ==
    \A l \in AtWork \ overlapped : \A f \in Snapped(l) \ (touched[l] \cup refused[l]) :
        AsFound(l, f)

(* The places of a plan. *)
LEMMA PendingFacts ==
    ASSUME TypeInv, NEW l \in Launches, NEW f \in Files
    PROVE  /\ \A i \in Pending(l, f) : i \in Nat /\ i >= 1 /\ i <= Len(plan[l]) /\ plan[l][i].file = f
           /\ f \in Snapped(l) <=> Pending(l, f) # {}
           /\ step[l] >= 1 => (step[l] \in Pending(l, f) <=> Target(l) = f)
           /\ step[l] >= 1 => (First(l) <=> \A i \in Pending(l, Target(l)) : i >= step[l])
           /\ Snapped(l) \subseteq Files
           /\ step[l] \in Nat /\ Len(plan[l]) \in Nat /\ step[l] <= Len(plan[l])
<1>1. Len(plan[l]) \in Nat /\ step[l] \in Nat /\ step[l] <= Len(plan[l])
    BY PlanFacts DEF TypeInv, TypeOK
<1>2. Pending(l, f) = {i \in 1..Len(plan[l]) : plan[l][i].file = f}
    BY DEF Pending
<1>3. Snapped(l) \subseteq Files
    BY PlanFacts DEF Snapped, TypeInv
<1>4. f \in Snapped(l) <=> Pending(l, f) # {}
    BY <1>2 DEF Snapped
<1>5. step[l] >= 1 => (step[l] \in Pending(l, f) <=> Target(l) = f)
    BY <1>1, <1>2 DEF Target, At
<1>6. ASSUME step[l] >= 1 PROVE First(l) <=> \A i \in Pending(l, Target(l)) : i >= step[l]
  <2>1. \A i \in 1..Len(plan[l]) : ~(i >= step[l]) <=> i \in 1..step[l] - 1
    BY <1>1, <1>6
  <2>2. 1..step[l] - 1 \subseteq 1..Len(plan[l])
    BY <1>1, <1>6
  <2> QED
    BY <2>1, <2>2 DEF First, Pending
<1> QED
    BY <1>1, <1>2, <1>3, <1>4, <1>5, <1>6

LEMMA AsFoundKept ==
    ASSUME NEW l \in Launches, NEW f \in Files, AsFound(l, f), plan' = plan,
           pc'[l] = pc[l], step'[l] = step[l], snap'[l] = snap[l], overlay'[l] = overlay[l],
           force'[l] = force[l], buffer'[l] = buffer[l], file'[f] = file[f]
    PROVE  AsFound(l, f)'
<1>1. Pending(l, f)' = Pending(l, f) /\ Target(l)' = Target(l)
    BY DEF Pending, Target, At
<1>2. Unhashed(l, f)' = Unhashed(l, f) /\ Left(l, f)' = Left(l, f) /\ Completed(l, f)' = Completed(l, f)
    BY <1>1 DEF Unhashed, Left, Completed
<1> QED
    BY <1>1, <1>2 DEF AsFound

LEMMA SnappedKept ==
    ASSUME TypeInv, plan' = plan, NEW l \in Launches, NEW f \in Files
    PROVE  /\ Pending(l, f)' = Pending(l, f) /\ Snapped(l)' = Snapped(l)
           /\ step'[l] = step[l] => Target(l)' = Target(l)
BY DEF Pending, Snapped, Target, At

LEMMA SnappedFiles ==
    ASSUME TypeInv, NEW l \in Launches, NEW f \in Snapped(l)
    PROVE  f \in Files
BY PlanFacts DEF Snapped, TypeInv

LEMMA AsFoundApply ==
    ASSUME TypeInv, NEW l \in Launches, NEW f \in Files, f \in Snapped(l), AsFound(l, f),
           Apply(l), WriteUnsynced(l) => f # Target(l), pc'[l] # "over"
    PROVE  AsFound(l, f)'
<1> DEFINE P == Pending(l, f)  t == Target(l)  n == Len(plan[l])
<1>t. TypeInv' /\ Elsewhere(l)
    BY ApplyType
<1>0. /\ \A i \in P : i \in Nat /\ i >= 1 /\ i <= n
      /\ P # {} /\ step[l] \in Nat /\ n \in Nat /\ step[l] <= n
      /\ step[l] >= 1 => (step[l] \in P <=> t = f) /\ t \in Files
    BY PendingFacts, PlanFacts DEF TypeInv
<1>1. Pending(l, f)' = P /\ (step'[l] = step[l] => Target(l)' = t)
    BY <1>t, SnappedKept DEF Elsewhere
<1>2. ControlOf(l)
    BY DEF TypeInv, Control
<1>T. /\ snap \in [Launches -> [Files -> Content \cup {None}]]
      /\ overlay \in [Launches -> [Files -> Content \cup {None}]]
      /\ file \in [Files -> Content \cup {None}]
      /\ force \in [Launches -> SUBSET Files] /\ buffer \in [Launches -> Content \cup {None}]
    BY DEF TypeInv, TypeOK
<1> HIDE DEF P, t, n
<1>3. CASE TakeSnapshot(l)
  <2>0. /\ pc[l] = "snapshot" /\ step[l] >= 1 /\ Advance(l, "snapshot", "read")
        /\ UNCHANGED <<file, overlay, force>>
        /\ overlay[l][f] = None /\ force[l] = {}
    BY <1>2, <1>3 DEF TakeSnapshot, ControlOf, Working, Nothing
  <2>1. \/ step[l] < n /\ step'[l] = step[l] + 1 /\ pc'[l] = "snapshot"
        \/ step[l] = n /\ step'[l] = 1 /\ pc'[l] = "read"
    BY <2>0, AdvanceType DEF Positions, n
  <2>2. First(l) <=> \A i \in Pending(l, t) : i >= step[l]
    BY <1>0, <2>0, PendingFacts DEF t
  <2>3. IF First(l) /\ f = t THEN snap'[l][f] = file[f] ELSE snap'[l][f] = snap[l][f]
    BY <1>3, <1>T, <1>0, <2>0 DEF TakeSnapshot, t
  <2>4. (\E i \in P : i <= step[l]) => file[f] = snap'[l][f]
    <3> SUFFICES ASSUME NEW i \in P, i <= step[l] PROVE file[f] = snap'[l][f]
      OBVIOUS
    <3>1. CASE i < step[l]
      <4>1. ~Unhashed(l, f)
        BY <1>0, <3>1 DEF Unhashed, P
      <4>2. ~(First(l) /\ f = t)
        BY <1>0, <2>2, <3>1 DEF P
      <4> QED
        BY <2>0, <2>3, <4>1, <4>2 DEF AsFound
    <3>2. CASE i = step[l]
      <4>1. f = t
        BY <1>0, <2>0, <3>2
      <4>2. CASE First(l)
        BY <2>3, <4>1, <4>2
      <4>3. CASE ~First(l)
        <5>1. PICK j \in P : ~(j >= step[l])
          BY <2>2, <4>1, <4>3 DEF P
        <5>2. ~Unhashed(l, f)
          BY <5>1 DEF Unhashed, P
        <5> QED
          BY <2>0, <2>3, <4>3, <5>2 DEF AsFound
      <4> QED
        BY <4>2, <4>3
    <3> QED
      BY <1>0, <3>1, <3>2
  <2>5. CASE pc'[l] = "snapshot"
    <3>1. ~Unhashed(l, f)' => \E i \in P : i <= step[l]
      BY <1>0, <1>1, <2>1, <2>5 DEF Unhashed
    <3> QED
      BY <2>0, <2>4, <2>5, <3>1 DEF AsFound
  <2>6. CASE pc'[l] = "read"
    <3>1. Unhashed(l, f)'
      BY <1>0, <1>1, <2>1, <2>6 DEF Unhashed
    <3>2. file[f] = snap'[l][f]
      BY <1>0, <2>1, <2>4, <2>6
    <3> QED
      BY <2>0, <2>6, <3>1, <3>2 DEF AsFound
  <2> QED
    BY <2>1, <2>5, <2>6
<1>4. CASE SnapshotFails(l)
    BY <1>4, <1>t DEF SnapshotFails, Goto, TypeInv, TypeOK
<1>5. CASE ReadTarget(l)
  <2>1. /\ pc[l] = "read" /\ pc'[l] = "write"
        /\ UNCHANGED <<plan, file, step, snap, overlay, force>>
    BY <1>5 DEF ReadTarget, Goto, TypeInv, TypeOK
  <2>2. Unhashed(l, f)' <=> Unhashed(l, f)
    BY <1>1, <2>1 DEF Unhashed, P
  <2> QED
    BY <2>1, <2>2 DEF AsFound
<1>6. CASE WriteOverlay(l)
  <2>1. /\ pc[l] = "write" /\ pc'[l] = "hash" /\ step[l] >= 1
        /\ UNCHANGED <<plan, step, snap, overlay, force>>
        /\ f # t => file'[f] = file[f]
    BY <1>0, <1>2, <1>6, <1>T DEF WriteOverlay, Goto, Put, TypeInv, TypeOK, ControlOf, Working, t
  <2>2. (Unhashed(l, f)' <=> Unhashed(l, f)) /\ Target(l)' = t
    BY <1>1, <2>1 DEF Unhashed, P
  <2> QED
    BY <2>1, <2>2 DEF AsFound, t
<1>7. CASE HashOverlay(l)
  <2>0. /\ pc[l] = "hash" /\ step[l] >= 1 /\ Advance(l, "read", "prepared") /\ file[t] # None
        /\ UNCHANGED <<file, snap, force>> /\ force[l] = {}
        /\ f = t => overlay'[l][f] = file[f]
        /\ f # t => overlay'[l][f] = overlay[l][f]
    BY <1>0, <1>2, <1>7, <1>T DEF HashOverlay, ControlOf, Working, AsFound, t
  <2>1. \/ step[l] < n /\ step'[l] = step[l] + 1 /\ pc'[l] = "read"
        \/ step[l] = n /\ step'[l] = 1 /\ pc'[l] = "prepared"
    BY <2>0, AdvanceType DEF Positions, n
  <2>2. f # t => ((\A i \in P : i >= step[l] + 1) <=> Unhashed(l, f))
    BY <1>0, <2>0 DEF Unhashed, P
  <2>3. f = t => ~(\A i \in P : i >= step[l] + 1)
    BY <1>0, <2>0
  <2>4. overlay'[l][f] = None <=> \A i \in P : i >= step[l] + 1
    BY <2>0, <2>2, <2>3 DEF AsFound
  <2>5. file[f] = IF \A i \in P : i >= step[l] + 1 THEN snap[l][f] ELSE overlay'[l][f]
    <3>1. CASE f = t
      BY <2>0, <2>3, <3>1
    <3>2. CASE f # t
      BY <2>0, <2>2, <3>2 DEF AsFound, t
    <3> QED
      BY <3>1, <3>2
  <2>6. CASE pc'[l] = "read"
    <3>1. Unhashed(l, f)' <=> \A i \in P : i >= step[l] + 1
      BY <1>1, <2>1, <2>6 DEF Unhashed
    <3> QED
      BY <2>0, <2>4, <2>5, <2>6, <3>1 DEF AsFound
  <2>7. CASE pc'[l] = "prepared"
    <3>1. ~(\A i \in P : i >= step[l] + 1)
      BY <1>0, <2>1, <2>7
    <3> QED
      BY <2>0, <2>4, <2>5, <2>7, <3>1 DEF AsFound
  <2> QED
    BY <2>1, <2>6, <2>7
(* A failed write or read-back: the restore begins. *)
<1>8. CASE HashFails(l) \/ ApplyFails(l) \/ WriteUnsynced(l)
  <2>1. /\ BeginRestore(l) /\ UNCHANGED <<plan, snap, overlay>>
        /\ pc[l] \in {"read", "write", "hash"} /\ step[l] >= 1
        /\ force[l] = {}
    BY <1>2, <1>8 DEF HashFails, ApplyFails, WriteUnsynced, AsFound, ControlOf, Working
  <2>2. pc'[l] = "restore" /\ step'[l] = n
    BY <2>1, BeginRestoreType DEF n
  <2>3. Left(l, f)' /\ (Completed(l, f)' <=> overlay[l][f] # None \/ f \in force'[l])
    BY <1>0, <1>1, <2>1, <2>2 DEF Left, Completed
  <2>4. file'[f] = file[f]
    BY <1>0, <1>8, <1>T, <2>1 DEF HashFails, ApplyFails, WriteUnsynced, Put, t
  <2>5. IF HashFails(l) /\ f = t THEN f \in force'[l] ELSE f \notin force'[l]
    BY <1>0, <1>8, <1>T, <2>1 DEF HashFails, ApplyFails, WriteUnsynced, t
  <2>6. CASE f \in force'[l]
    BY <2>2, <2>3, <2>6 DEF AsFound
  <2>7. CASE f \notin force'[l]
    <3>1. ~(pc[l] = "hash" /\ t = f)
      BY <1>8, <2>5, <2>7 DEF HashFails, ApplyFails, WriteUnsynced
    <3>2. file[f] = IF Unhashed(l, f) THEN snap[l][f] ELSE overlay[l][f]
      BY <2>1, <3>1 DEF AsFound, t
    <3>3. overlay[l][f] = None <=> Unhashed(l, f)
      BY <2>1 DEF AsFound
    <3> QED
      BY <2>1, <2>2, <2>3, <2>4, <2>7, <3>2, <3>3 DEF AsFound
  <2> QED
    BY <2>6, <2>7
<1> QED
    BY <1>3, <1>4, <1>5, <1>6, <1>7, <1>8 DEF Apply

LEMMA AsFoundChild ==
    ASSUME TypeInv, NEW l \in Launches, NEW f \in Files, f \in Snapped(l), AsFound(l, f), Child(l)
    PROVE  AsFound(l, f)'
<1> DEFINE P == Pending(l, f)  n == Len(plan[l])
<1>0. /\ \A i \in P : i \in Nat /\ i >= 1 /\ i <= n
      /\ P # {} /\ step[l] \in Nat /\ n \in Nat
    BY PendingFacts DEF TypeInv
<1>1. /\ UNCHANGED <<plan, file, snap, overlay, force>> /\ pc[l] \in {"prepared", "running"}
    BY DEF Child, StartChild, BridgeFails, ChildExits
<1>2. force[l] = {} /\ overlay[l][f] # None /\ file[f] = overlay[l][f]
    BY <1>1 DEF AsFound
<1>3. CASE StartChild(l)
  <2>1. pc'[l] = "running"
    BY <1>3 DEF StartChild, Goto, TypeInv, TypeOK
  <2> QED
    BY <1>1, <1>2, <2>1 DEF AsFound
<1>4. CASE BridgeFails(l) \/ ChildExits(l)
  <2>1. pc'[l] = "restore" /\ step'[l] = n
    BY <1>4, BeginRestoreType DEF BridgeFails, ChildExits
  <2>2. Left(l, f)'
    <3>1. Pending(l, f)' = P
      BY <1>1 DEF Pending
    <3> QED
      BY <1>0, <2>1, <3>1 DEF Left
  <2> QED
    BY <1>1, <1>2, <2>1, <2>2 DEF AsFound
<1> QED
    BY <1>3, <1>4 DEF Child

(* A write of the plan is passed over, or its file put back. *)
LEMMA AsFoundSkipped ==
    ASSUME TypeInv, NEW l \in Launches, NEW f \in Files, f \in Snapped(l),
           plan' = plan, snap' = snap, overlay' = overlay, force' = force,
           step[l] >= 1, pc'[l] = "restore", Skip(l),
           AsFound(l, f), pc[l] \in {"restore", "replace"},
           IF Target(l) = f /\ Due(l) THEN file'[f] = snap[l][f] ELSE file'[f] = file[f]
    PROVE  AsFound(l, f)'
<1> DEFINE P == Pending(l, f)  n == Len(plan[l])
<1>0. /\ \A i \in P : i \in Nat /\ i >= 1 /\ i <= n
      /\ P # {} /\ step[l] \in Nat /\ n \in Nat
      /\ step[l] \in P <=> Target(l) = f
      /\ First(l) <=> \A i \in Pending(l, Target(l)) : i >= step[l]
    BY PendingFacts DEF TypeInv
<1>1. step'[l] = step[l] - 1 /\ Pending(l, f)' = P
    BY DEF Skip, TypeInv, TypeOK, Pending
<1>2. Left(l, f)' <=> \E i \in P : i < step[l]
    BY <1>0, <1>1 DEF Left
<1>3. Left(l, f) <=> (\E i \in P : i < step[l]) \/ step[l] \in P
    BY <1>0 DEF Left
<1>4. Completed(l, f)' <=> Completed(l, f)
    BY DEF Completed
<1>5. Completed(l, f) <=> overlay[l][f] # None \/ f \in force[l]
    BY DEF Completed
<1> HIDE DEF P
<1>6. CASE Target(l) = f /\ Due(l)
  <2>1. ~(\E i \in P : i < step[l])
    BY <1>0, <1>6 DEF Due, P
  <2> QED
    BY <1>2, <1>6, <2>1 DEF AsFound
<1>7. CASE Target(l) = f /\ ~Due(l)
  <2>1. CASE First(l)
    <3>1. ~Completed(l, f)
      BY <1>0, <1>7, <2>1 DEF Due
    <3> QED
      BY <1>4, <1>5, <1>7, <3>1 DEF AsFound
  <2>2. CASE ~First(l)
    <3>1. \E i \in P : i < step[l]
      BY <1>0, <1>7, <2>2 DEF P
    <3> QED
      BY <1>2, <1>3, <1>4, <1>5, <1>7, <3>1 DEF AsFound
  <2> QED
    BY <2>1, <2>2
<1>8. CASE Target(l) # f
  <2>1. Left(l, f)' <=> Left(l, f)
    BY <1>0, <1>2, <1>3, <1>8
  <2> QED
    BY <1>4, <1>5, <1>8, <2>1 DEF AsFound
<1> QED
    BY <1>6, <1>7, <1>8

LEMMA AsFoundRestore ==
    ASSUME TypeInv, NEW l \in Launches, NEW f \in Files, f \in Snapped(l), AsFound(l, f),
           Restore(l), DiskFails(l) => f # Target(l), pc'[l] # "over"
    PROVE  AsFound(l, f)'
<1>0. /\ f \in Snapped(l) /\ Snapped(l) \subseteq Files /\ step[l] \in Nat
      /\ step[l] >= 1 => First(l) <=> \A i \in Pending(l, Target(l)) : i >= step[l]
      /\ step[l] >= 1 => Target(l) \in Files
      /\ step[l] >= 1 => (step[l] \in Pending(l, f) <=> Target(l) = f)
      /\ \A i \in Pending(l, f) : i \in Nat
    BY PendingFacts, PlanFacts DEF TypeInv
<1>1. ControlOf(l)
    BY DEF TypeInv, Control
<1>T. /\ pc \in [Launches -> Positions] /\ file \in [Files -> Content \cup {None}]
      /\ overlay \in [Launches -> [Files -> Content \cup {None}]]
      /\ buffer \in [Launches -> Content \cup {None}]
    BY DEF TypeInv, TypeOK
(* If the file is to be put back, it is as the launch left it. *)
<1>2. ASSUME pc[l] \in {"restore", "replace"}, step[l] >= 1, Due(l), Target(l) = f
      PROVE  ~Changed(l)
  <2>1. Left(l, f) /\ Completed(l, f)
    BY <1>0, <1>2 DEF Left, Due
  <2> QED
    BY <1>2, <2>1 DEF AsFound, Changed
<1>3. CASE RestoreNext(l)
  <2>0. /\ pc[l] = "restore" /\ step[l] >= 1
        /\ UNCHANGED <<plan, file, edits, snap, overlay, force, told>>
    BY <1>0, <1>3 DEF RestoreNext
  <2>1. CASE Due(l) /\ ~Changed(l)
    <3>1. /\ pc'[l] = "replace" /\ step' = step /\ buffer'[l] = file[Target(l)]
      BY <1>3, <1>T, <2>1 DEF RestoreNext, Goto
    <3>2. /\ Left(l, f)' <=> Left(l, f)
          /\ Completed(l, f)' <=> Completed(l, f)
          /\ Target(l)' = Target(l)
      BY <2>0, <3>1 DEF Left, Completed, Pending, Target, At
    <3>3. Completed(l, f)' <=> overlay[l][f] # None \/ f \in force[l]
      BY <2>0 DEF Completed
    <3> QED
      BY <2>0, <3>1, <3>2, <3>3 DEF AsFound, Completed
  <2>2. CASE ~(Due(l) /\ ~Changed(l))
    <3>1. pc'[l] = "restore" /\ Skip(l)
      BY <1>3, <2>0, <2>2 DEF RestoreNext
    <3>2. ~(Target(l) = f /\ Due(l))
      BY <1>2, <2>0, <2>2
    <3> QED
      BY <2>0, <3>1, <3>2, AsFoundSkipped
  <2> QED
    BY <2>1, <2>2
<1>4. CASE RestoreFile(l)
  <2>0. /\ pc[l] = "replace" /\ step[l] >= 1 /\ Due(l) /\ pc'[l] = "restore" /\ Skip(l)
        /\ UNCHANGED <<plan, snap, overlay, force>>
    BY <1>1, <1>4, <1>T DEF RestoreFile, ControlOf, Working, Goto
  <2>1. Target(l) # f => file'[f] = file[f]
    BY <1>0, <1>4, <1>T, <2>0 DEF RestoreFile, Put
  <2>2. ASSUME Target(l) = f PROVE file'[f] = snap[l][f]
    <3>1. buffer[l] = file[f]
      BY <2>0, <2>2 DEF AsFound
    <3> QED
      BY <1>0, <1>4, <1>T, <2>0, <2>2, <3>1 DEF RestoreFile, Put
  <2> QED
    BY <2>0, <2>1, <2>2, AsFoundSkipped
<1>5. CASE RestoreFails(l)
  <2>0. /\ pc[l] \in {"restore", "replace"} /\ step[l] >= 1 /\ Due(l)
        /\ pc'[l] = "restore" /\ Skip(l)
        /\ UNCHANGED <<plan, file, snap, overlay, force>>
    BY <1>0, <1>5, <1>T DEF RestoreFails, Goto, Due
  <2>1. Target(l) # f
    BY <1>2, <1>5, <2>0 DEF DiskFails
  <2> QED
    BY <2>0, <2>1, AsFoundSkipped
<1>6. CASE Finish(l)
    BY <1>6, <1>T DEF Finish, Goto, Positions
<1> QED
    BY <1>3, <1>4, <1>5, <1>6 DEF Restore

LEMMA OwnAlive ==
    ASSUME NEW l \in Launches, Own(l)
    PROVE  pc[l] \notin {"over", "killed"}
BY DEF Own, Apply, Child, Restore, Kill, TakeSnapshot, SnapshotFails, ReadTarget, WriteOverlay,
   WriteUnsynced, ApplyFails, HashOverlay, HashFails, StartChild, BridgeFails, ChildExits,
   RestoreNext, RestoreFile, RestoreFails, Finish

(* A launch's own step keeps the files nobody else touched as found. *)
LEMMA AsFoundOwn ==
    ASSUME HInv, ExactInv, HNext, NEW l \in Launches, Own(l), pc'[l] \notin {"over", "killed"},
           l \notin overlapped', NEW f \in Snapped(l) \ (touched'[l] \cup refused'[l])
    PROVE  AsFound(l, f)'
<1>1. TypeInv /\ l \notin overlapped /\ f \notin touched[l] \cup refused[l] /\ f \in Files
      /\ f \in Snapped(l)
    BY HistoryGrows, SnappedFiles DEF HInv
<1>2. DiskFails(l) => f # Target(l)
    BY <1>1 DEF HNext
<1>3. AsFound(l, f)
  <2>1. CASE l \in AtWork
    BY <1>1, <2>1 DEF ExactInv
  <2>2. CASE l \notin AtWork
    <3>1. pc[l] = "snapshot" /\ ~(step[l] > 1)
      BY <2>2, OwnAlive DEF AtWork, Begun
    <3>2. Unhashed(l, f)
      BY <1>1, <3>1, PendingFacts DEF Unhashed
    <3> QED
      BY <3>1, <3>2 DEF AsFound
  <2> QED
    BY <2>1, <2>2
<1>4. CASE Apply(l)
    BY <1>1, <1>2, <1>3, <1>4, AsFoundApply DEF DiskFails
<1>5. CASE Child(l)
    BY <1>1, <1>3, <1>5, AsFoundChild
<1>6. CASE Restore(l)
    BY <1>1, <1>2, <1>3, <1>6, AsFoundRestore
<1>7. CASE Kill(l)
    BY <1>1, <1>7, KillType
<1> QED
    BY <1>4, <1>5, <1>6, <1>7 DEF Own

LEMMA ExactInit == HInit => ExactInv
<1> SUFFICES ASSUME HInit PROVE ExactInv
    OBVIOUS
<1>1. AtWork = {}
    BY DEF HInit, Init, AtWork, Begun
<1> QED
    BY <1>1 DEF ExactInv

LEMMA ExactNext == HInv /\ ExactInv /\ [HNext]_<<vars, history>> => ExactInv'
<1> SUFFICES ASSUME HInv, ExactInv, [HNext]_<<vars, history>> PROVE ExactInv'
    OBVIOUS
<1>T. TypeInv
    BY DEF HInv
<1>1. ASSUME HNext, NEW l \in Launches, Own(l) PROVE ExactInv'
  <2>1. Elsewhere(l)
    BY <1>1, <1>T, WhoWrites
  <2>2. plan' = plan
    BY <2>1 DEF Elsewhere
  <2> SUFFICES ASSUME NEW m \in Launches, m \in AtWork', m \notin overlapped',
                      NEW f \in Snapped(m)', f \notin touched'[m] \cup refused'[m]
               PROVE  AsFound(m, f)'
    BY DEF ExactInv, AtWork
  <2>3. f \in Snapped(m) /\ f \in Files
    <3>1. Snapped(m)' = Snapped(m)
      BY <2>2 DEF Snapped
    <3> QED
      BY <3>1, <1>T, SnappedFiles
  <2>4. CASE m = l
    <3>1. pc'[l] \notin {"over", "killed"}
      BY <2>4 DEF AtWork
    <3> QED
      BY <1>1, <2>3, <2>4, <3>1, AsFoundOwn
  <2>5. CASE m # l
    <3>1. file' = file /\ m \in AtWork /\ m \notin overlapped
      BY <1>1, <2>5, AtWorkByItself
    <3>2. f \notin touched[m] \cup refused[m]
      BY <1>1, HistoryGrows
    <3>3. AsFound(m, f)
      BY <2>3, <3>1, <3>2 DEF ExactInv
    <3>4. /\ pc'[m] = pc[m] /\ step'[m] = step[m] /\ snap'[m] = snap[m]
          /\ overlay'[m] = overlay[m] /\ force'[m] = force[m] /\ buffer'[m] = buffer[m]
      BY <2>1, <2>5 DEF Elsewhere
    <3> QED
      BY <2>2, <2>3, <3>1, <3>3, <3>4, AsFoundKept
  <2> QED
    BY <2>4, <2>5
<1>2. ASSUME HNext, NEW g \in Files, Hand(g) PROVE ExactInv'
  <2>1. /\ UNCHANGED <<plan, pc, step, snap, overlay, force, buffer>>
        /\ \A f \in Files \ {g} : file'[f] = file[f]
    BY <1>2, <1>T, HandType
  <2>2. AtWork' = AtWork /\ \A m \in Launches : Snapped(m)' = Snapped(m)
    BY <2>1 DEF AtWork, Begun, Snapped
  <2> SUFFICES ASSUME NEW m \in Launches, m \in AtWork, m \notin overlapped',
                      NEW f \in Snapped(m), f \notin touched'[m] \cup refused'[m]
               PROVE  AsFound(m, f)'
    BY <2>2 DEF ExactInv, AtWork
  <2>3. f \in Files
    BY <1>T, SnappedFiles
  <2>4. f # g
    BY <1>2, <2>3 DEF HNext
  <2>5. f \notin touched[m] \cup refused[m] /\ m \notin overlapped
    BY <1>2, HistoryGrows
  <2>6. AsFound(m, f)
    BY <2>5 DEF ExactInv
  <2> QED
    BY <2>1, <2>3, <2>4, <2>6, AsFoundKept
<1>3. CASE UNCHANGED <<vars, history>>
  <2>1. /\ UNCHANGED <<plan, file, pc, step, snap, overlay, force, buffer>>
        /\ UNCHANGED <<touched, refused, overlapped>>
    BY <1>3 DEF vars, history
  <2>2. AtWork' = AtWork /\ \A m \in Launches : Snapped(m)' = Snapped(m)
    BY <2>1 DEF AtWork, Begun, Snapped
  <2> SUFFICES ASSUME NEW m \in Launches, m \in AtWork, m \notin overlapped,
                      NEW f \in Snapped(m), f \notin touched[m] \cup refused[m]
               PROVE  AsFound(m, f)'
    BY <2>1, <2>2 DEF ExactInv, AtWork
  <2>3. AsFound(m, f) /\ f \in Files
    BY <1>T, SnappedFiles DEF ExactInv
  <2> QED
    BY <2>1, <2>3, AsFoundKept
<1> QED
    BY <1>1, <1>2, <1>3 DEF HNext, Next, Own, Child, Hand

LEMMA EndsAsFound ==
    ASSUME HInv, ExactInv, HNext, NEW l \in Launches, Ends(l), l \notin overlapped,
           NEW f \in Snapped(l) \ (touched[l] \cup refused[l])
    PROVE  file'[f] = snap[l][f]
<1>1. TypeInv /\ pc[l] = "restore" /\ pc'[l] = "over" /\ f \in Files
    BY SnappedFiles DEF HInv, Ends
<1>2. Own(l)
  <2>1. CASE \E m \in Launches : Own(m)
    BY <1>1, <2>1, WhoWrites DEF Elsewhere
  <2>2. CASE \E g \in Files : Hand(g)
    BY <1>1, <2>2, HandType
  <2> QED
    BY <2>1, <2>2 DEF HNext, Next, Own, Child, Hand
<1>3. Finish(l)
    BY <1>1, <1>2 DEF Own, Apply, Child, Restore, Kill, TakeSnapshot, SnapshotFails, ReadTarget,
       WriteOverlay, WriteUnsynced, ApplyFails, HashOverlay, HashFails, StartChild, BridgeFails,
       ChildExits, RestoreNext, RestoreFile, RestoreFails, Finish, Goto, Skip, TypeInv, TypeOK
<1>4. l \in AtWork \ overlapped
    BY <1>1 DEF AtWork, Begun
<1>5. AsFound(l, f)
    BY <1>4 DEF ExactInv
<1>6. ~Left(l, f)
    BY <1>1, <1>3, PendingFacts DEF Left, Finish
<1> QED
    BY <1>1, <1>3, <1>5, <1>6 DEF AsFound, Finish

(* A launch that had the files to itself, however far it came, ends with   *)
(* every file nobody else touched exactly as it was, for any plans.        *)
THEOREM OverlayUndone == HSpec => RestoredExactly
<1> DEFINE A == \A l \in Launches : Ends(l) /\ l \notin overlapped =>
                   \A f \in Snapped(l) \ (touched[l] \cup refused[l]) : file'[f] = snap[l][f]
<1>1. HInit => HInv /\ ExactInv
    BY HInvInit, ExactInit
<1>2. HInv /\ ExactInv /\ [HNext]_<<vars, history>> => (HInv /\ ExactInv)'
    BY HInvNext, ExactNext
<1>3. HInv /\ ExactInv /\ HNext => A
    BY EndsAsFound
<1> HIDE DEF A
<1>4. HInv /\ ExactInv /\ [HNext]_<<vars, history>> => [A]_<<vars, history>>
    BY <1>3
<1>5. HSpec => [][A]_<<vars, history>>
    BY <1>1, <1>2, <1>4, PTL DEF HSpec
<1> QED
    BY <1>5 DEF RestoredExactly, A
-----------------------------------------------------------------------------
(* Edits.  No content has an edit that was not made yet. *)
Old(c) == c = None \/ \A p \in Parts : c.edit[p] <= edits
NumbersOf(f) ==
    /\ \A p \in Parts : kept[f][p] <= edits
    /\ Old(file[f])
    /\ \A l \in Launches :
         /\ Old(snap[l][f]) /\ Old(overlay[l][f])
         /\ pc[l] = "write" /\ Target(l) = f => Old(buffer[l])
Numbers == \A f \in Files : NumbersOf(f)

(* A content of the file that has the last edit of part p, if one was made *)
(* out of every launch's way.                                              *)
Good(c, f, p) == kept[f][p] = 0 \/ (c # None /\ c.edit[p] >= kept[f][p])

(* A hidden edit may be lost: the launch told so, was killed or shared the *)
(* file with another one.                                                  *)
Excused(f, p) ==
    \E l \in Launches :
        Hiding(l, f, p) /\ (told[l] # {} \/ l \in overlapped \/ pc[l] = "killed")

(* A snapshot that may be put back is good: its launch is in the file's    *)
(* way, or the file or what the launch left there, which the restore       *)
(* compares, does not tell.                                                *)
HasSnap(l, f) ==
    l \in AtWork /\ \E i \in Pending(l, f) : pc[l] = "snapshot" => i < step[l]
ReliedOn(l, f, p) == \/ InTheWay(l, f)
                     \/ ~Good(file[f], f, p)
                     \/ overlay[l][f] # None /\ Good(overlay[l][f], f, p)
SnapGood(l, f, p) == HasSnap(l, f) /\ ReliedOn(l, f, p) => Good(snap[l][f], f, p)
BufGood(l, f, p) ==
    pc[l] = "write" /\ Target(l) = f => Good(buffer[l], f, p) \/ Hiding(l, f, p)

(* The file is good, or a launch has written over the part and will put    *)
(* the file back or tell, as when somebody has edited another part since.  *)
Replaced(l, f, p) ==
    /\ l \in AtWork /\ Hiding(l, f, p) /\ pc[l] # "snapshot"
    /\ pc[l] \in {"restore", "replace"} => Left(l, f) \/ f \in failures[l]
    /\ \/ pc[l] = "hash" /\ Target(l) = f
       \/ file[f] # None /\ overlay[l][f] # None
FileState(f, p) == Good(file[f], f, p) \/ \E l \in Launches : Replaced(l, f, p)

EditState(f, p) == FileState(f, p) /\ \A l \in Launches : SnapGood(l, f, p) /\ BufGood(l, f, p)
EditInv == \A f \in Files, p \in Parts : Excused(f, p) \/ EditState(f, p)

(* What is told and lost stays so. *)
LEMMA ToldGrows ==
    ASSUME TypeInv, NEW l \in Launches, Own(l)
    PROVE  told[l] \subseteq told'[l]
<1>1. told' = told \/ \E e \in Errors : Tell(l, e)
    BY DEF Own, Apply, Child, Restore, Kill, TakeSnapshot, SnapshotFails, ReadTarget, WriteOverlay,
       WriteUnsynced, ApplyFails, HashOverlay, HashFails, StartChild, BridgeFails, ChildExits,
       RestoreNext, RestoreFile, RestoreFails, Finish, Errors
<1> QED
    BY <1>1, TellType, Zenon

LEMMA ExcusedStays ==
    ASSUME HInv, HNext, NEW f \in Files, NEW p \in Parts, Excused(f, p)
    PROVE  Excused(f, p)'
<1>1. PICK m \in Launches : Hiding(m, f, p) /\ (told[m] # {} \/ m \in overlapped \/ pc[m] = "killed")
    BY DEF Excused
<1>2. overlapped \subseteq overlapped'
    BY HistoryGrows
<1>3. CASE \E l \in Launches : Own(l)
  <2>1. PICK l \in Launches : Own(l)
    BY <1>3
  <2>2. Elsewhere(l)
    BY <2>1, WhoWrites DEF HInv
  <2>3. Hiding(m, f, p)'
    BY <1>1, <2>2 DEF Hiding, Pending, Elsewhere
  <2>4. told[m] \subseteq told'[m]
    BY <2>1, <2>2, ToldGrows DEF HInv, Elsewhere
  <2>5. pc[m] = "killed" => pc'[m] = "killed"
    BY <2>1, <2>2, OwnAlive DEF Elsewhere
  <2> QED
    BY <1>1, <1>2, <2>3, <2>4, <2>5 DEF Excused
<1>4. CASE \E g \in Files : Hand(g)
    BY <1>1, <1>2, <1>4, HandType DEF Excused, Hiding, Pending, HInv
<1> QED
    BY <1>3, <1>4 DEF HNext, Next, Own, Child, Hand

(* With an edit kept, no other launch works beside one that hides it. *)
LEMMA ReplacesAlone ==
    ASSUME HInv', NEW f \in Files, NEW p \in Parts, ~Excused(f, p)', NEW l \in Launches, NEW m \in Launches,
           l \in AtWork', m \in AtWork', plan' = plan, Hiding(l, f, p)
    PROVE  l = m
<1>1. Hiding(l, f, p)'
    BY DEF Hiding, Pending
<1> QED
    BY <1>1 DEF Excused, HInv, OverlapInv

LEMMA OwnKept ==
    ASSUME HInv, HNext, NEW l \in Launches, Own(l), NEW f \in Files, NEW p \in Parts
    PROVE  kept'[f][p] = 0 \/ kept'[f][p] = kept[f][p]
<1>1. edits' = edits /\ edits \in Nat
    BY WhoWrites DEF HInv, TypeInv, TypeOK
<1>2. ~EditPart(f, p)
    BY <1>1 DEF EditPart
<1> QED
    BY <1>2 DEF HNext

LEMMA AllGood ==
    ASSUME NEW f \in Files, NEW p \in Parts, kept'[f][p] = 0
    PROVE  EditState(f, p)'
BY DEF EditState, FileState, SnapGood, BufGood, Good

(* A step that leaves a launch alone, and the file alone or good. *)
LEMMA OthersGood ==
    ASSUME NEW m \in Launches, NEW f \in Files, NEW p \in Parts, SnapGood(m, f, p), BufGood(m, f, p),
           plan' = plan, pc'[m] = pc[m], step'[m] = step[m], snap'[m] = snap[m],
           overlay'[m] = overlay[m], force'[m] = force[m], buffer'[m] = buffer[m],
           kept'[f][p] = kept[f][p], Good(file[f], f, p) => Good(file[f], f, p)'
    PROVE  SnapGood(m, f, p)' /\ BufGood(m, f, p)'
<1>1. Pending(m, f)' = Pending(m, f) /\ Target(m)' = Target(m) /\ (Hiding(m, f, p)' <=> Hiding(m, f, p))
    BY DEF Pending, Target, At, Hiding
<1>2. /\ m \in AtWork' <=> m \in AtWork
      /\ HasSnap(m, f)' <=> HasSnap(m, f)
      /\ InTheWay(m, f)' <=> InTheWay(m, f)
    BY <1>1 DEF HasSnap, InTheWay, AtWork, Begun
<1>3. /\ Good(snap[m][f], f, p)' <=> Good(snap[m][f], f, p)
      /\ Good(overlay[m][f], f, p)' <=> Good(overlay[m][f], f, p)
      /\ Good(buffer[m], f, p)' <=> Good(buffer[m], f, p)
    BY DEF Good
<1>4. ReliedOn(m, f, p)' => ReliedOn(m, f, p)
    BY <1>2, <1>3 DEF ReliedOn
<1> QED
    BY <1>1, <1>2, <1>3, <1>4 DEF SnapGood, BufGood

(* Numbers, step by step. *)
LEMMA NumbersInit == HInit => Numbers
BY DEF HInit, Init, Numbers, NumbersOf, Old, Nothing, Unedited

LEMMA NumbersOwn ==
    ASSUME HInv, Numbers, HNext, NEW l \in Launches, Own(l), NEW f \in Files
    PROVE  NumbersOf(f)'
<1>1. TypeInv /\ TypeInv' /\ Elsewhere(l) /\ edits' = edits /\ NumbersOf(f)
      /\ edits \in Nat /\ plan' = plan
    BY WhoWrites DEF HInv, Numbers, TypeInv, TypeOK, Elsewhere
<1>2. \A p \in Parts : kept'[f][p] <= edits'
  <2> TAKE p \in Parts
  <2>1. kept'[f][p] = 0 \/ kept'[f][p] = kept[f][p]
    BY OwnKept
  <2>2. kept[f][p] <= edits
    BY <1>1 DEF NumbersOf
  <2> QED
    BY <1>1, <2>1, <2>2
<1>3. \A c : Old(c)' <=> Old(c)
    BY <1>1 DEF Old
<1>4. ASSUME NEW m \in Launches \ {l}
      PROVE  /\ Old(snap[m][f])' /\ Old(overlay[m][f])'
             /\ (pc'[m] = "write" /\ Target(m)' = f) => Old(buffer[m])'
  <2>1. /\ pc'[m] = pc[m] /\ step'[m] = step[m] /\ snap'[m] = snap[m]
        /\ overlay'[m] = overlay[m] /\ buffer'[m] = buffer[m]
    BY <1>1 DEF Elsewhere
  <2>2. Target(m)' = Target(m)
    BY <1>1, <2>1 DEF Target, At
  <2> QED
    BY <1>1, <2>1, <2>2 DEF NumbersOf, Old
<1>5. ASSUME TRUE
      PROVE  /\ Old(file[f])' /\ Old(snap[l][f])' /\ Old(overlay[l][f])'
             /\ (pc'[l] = "write" /\ Target(l)' = f) => Old(buffer[l])'
  <2>0. /\ pc[l] \in Working => step[l] >= 1 /\ Target(l) \in Files /\ At(l) \in Writes
        /\ pc \in [Launches -> Positions] /\ file \in [Files -> Content \cup {None}]
        /\ snap \in [Launches -> [Files -> Content \cup {None}]]
        /\ overlay \in [Launches -> [Files -> Content \cup {None}]]
        /\ buffer \in [Launches -> Content \cup {None}] /\ step \in [Launches -> Nat]
    BY <1>1, PlanFacts DEF TypeInv, TypeOK, Control, ControlOf
  <2>1. Old(None)
    BY DEF Old
  <2>2. CASE TakeSnapshot(l)
    <3>1. \/ snap'[l][f] = snap[l][f]
          \/ snap'[l][f] = file[f]
      BY <2>0, <2>2 DEF TakeSnapshot, Working
    <3>2. pc'[l] \in {"snapshot", "read"} /\ file' = file /\ overlay' = overlay
      BY <2>0, <2>2 DEF TakeSnapshot, Advance, Goto
    <3> QED
      BY <1>1, <1>3, <3>1, <3>2 DEF NumbersOf, Old
  <2>3. CASE SnapshotFails(l) \/ Finish(l) \/ Kill(l)
    <3>1. pc'[l] \in {"over", "killed"} /\ file' = file
          /\ snap'[l] = Nothing /\ overlay'[l] = Nothing
      BY <2>0, <2>3 DEF SnapshotFails, Finish, Kill, Goto, Forget
    <3> QED
      BY <1>1, <1>3, <2>1, <3>1 DEF NumbersOf, Nothing, Old
  <2>4. CASE ReadTarget(l)
    <3>1. /\ buffer'[l] = file[Target(l)] /\ step' = step
          /\ UNCHANGED <<file, snap, overlay>>
      BY <2>0, <2>4 DEF ReadTarget
    <3>2. Target(l)' = Target(l)
      BY <1>1, <3>1 DEF Target, At
    <3> QED
      BY <1>1, <1>3, <3>1, <3>2 DEF NumbersOf, Old
  <2>5. CASE WriteOverlay(l) \/ WriteUnsynced(l)
    <3>1. /\ pc[l] = "write" /\ pc'[l] \in {"hash", "restore"}
          /\ Put(Target(l), Merged(buffer[l], At(l)))
          /\ UNCHANGED <<snap, overlay>>
      BY <2>0, <2>5 DEF WriteOverlay, WriteUnsynced, Goto, BeginRestore
    <3>2. file'[f] = file[f] \/ (Target(l) = f /\ file'[f] = Merged(buffer[l], At(l)))
      BY <2>0, <3>1 DEF Put, Working
    <3>3. Target(l) = f => Old(Merged(buffer[l], At(l)))
      <4>1. buffer[l] \in Content \cup {None} /\ At(l) \in Writes
        BY <2>0, <3>1 DEF Working
      <4> QED
        <5> SUFFICES ASSUME Target(l) = f, NEW p \in Parts
                     PROVE  Merged(buffer[l], At(l)).edit[p] <= edits
          BY DEF Old
        <5>1. \/ Merged(buffer[l], At(l)).edit[p] = 0
              \/ buffer[l] # None /\ Merged(buffer[l], At(l)).edit[p] = buffer[l].edit[p]
          BY <4>1, MergedType
        <5>2. Old(buffer[l])
          BY <1>1, <3>1 DEF NumbersOf
        <5> QED
          BY <1>1, <5>1, <5>2 DEF Old
    <3> QED
      BY <1>1, <1>3, <3>1, <3>2, <3>3 DEF NumbersOf, Old
  <2>6. CASE HashOverlay(l)
    <3>1. overlay'[l][f] \in {overlay[l][f], file[f]}
          /\ pc'[l] \in {"read", "prepared"} /\ UNCHANGED <<file, snap>>
      BY <2>0, <2>6 DEF HashOverlay, Working, Advance, Goto
    <3> QED
      BY <1>1, <1>3, <3>1 DEF NumbersOf, Old
  <2>7. CASE RestoreFile(l)
    <3>1. file'[f] \in {file[f], snap[l][f]} /\ pc'[l] = "restore" /\ UNCHANGED <<snap, overlay>>
      BY <2>0, <2>7 DEF RestoreFile, Working, Put, Goto
    <3> QED
      BY <1>1, <1>3, <3>1 DEF NumbersOf, Old
  <2>8. CASE \/ ApplyFails(l) \/ HashFails(l) \/ StartChild(l) \/ BridgeFails(l) \/ ChildExits(l)
             \/ RestoreNext(l) \/ RestoreFails(l)
    <3>1. pc'[l] \in {"restore", "running", "replace"}
      BY <2>0, <2>8 DEF ApplyFails, HashFails, StartChild, BridgeFails, ChildExits, RestoreNext,
         RestoreFails, BeginRestore, Goto
    <3>2. UNCHANGED <<file, snap, overlay>>
      BY <2>8 DEF ApplyFails, HashFails, StartChild, BridgeFails, ChildExits, RestoreNext,
         RestoreFails
    <3> QED
      BY <1>1, <1>3, <3>1, <3>2 DEF NumbersOf, Old
  <2> QED
    BY <2>2, <2>3, <2>4, <2>5, <2>6, <2>7, <2>8 DEF Own, Apply, Child, Restore
<1> QED
    BY <1>2, <1>4, <1>5 DEF NumbersOf

LEMMA NumbersHand ==
    ASSUME HInv, Numbers, HNext, NEW g \in Files, Hand(g), NEW f \in Files
    PROVE  NumbersOf(f)'
<1>1. /\ TypeInv /\ TypeInv' /\ NumbersOf(f) /\ (\A p \in Parts : kept[f][p] \in Nat) /\ edits \in Nat
      /\ UNCHANGED <<plan, pc, step, snap, overlay, buffer>>
      /\ f # g => file'[f] = file[f]
    BY HandType DEF HInv, Numbers, HistoryType, TypeInv, TypeOK
<1>2. edits' \in Nat /\ edits' >= edits
    BY <1>1, Edited DEF Hand, Delete, TypeInv, TypeOK
<1>3. \/ file'[f] = file[f] \/ file'[f] = None
      \/ file'[f] # None /\ \A q \in Parts : file'[f].edit[q] = edits'
            \/ file'[f].edit[q] = IF file[f] = None THEN 0 ELSE file[f].edit[q]
  <2>1. CASE f = g /\ Edit(f)
    <3>1. PICK p \in Parts : EditPart(f, p)
      BY <2>1 DEF Edit
    <3>2. PICK c \in Content : /\ Put(f, c) /\ c.edit[p] = edits' 
                               /\ \A q \in Parts \ {p} :
                                    c.edit[q] = IF file[f] = None THEN 0 ELSE file[f].edit[q]
      BY <1>1, <3>1, EditedPart DEF TypeInv
    <3>3. file'[f] = c /\ c # None
      BY <1>1, <3>2 DEF Put, TypeInv, TypeOK
    <3> QED
      BY <3>2, <3>3
  <2>2. CASE f = g /\ Delete(f)
    BY <1>1, <2>2 DEF Delete, Put, TypeInv, TypeOK
  <2> QED
    BY <1>1, <2>1, <2>2 DEF Hand
<1>4. \A p \in Parts : kept'[f][p] <= edits'
    BY <1>1, <1>2 DEF HNext, NumbersOf
<1>5. \A c \in Content \cup {None} : Old(c) => Old(c)'
    BY <1>1, <1>2 DEF Old, Content
<1>6. /\ file[f] \in Content \cup {None}
      /\ \A l \in Launches : /\ snap[l][f] \in Content \cup {None} /\ buffer[l] \in Content \cup {None}
                             /\ overlay[l][f] \in Content \cup {None}
                             /\ Target(l)' = Target(l)
    BY <1>1 DEF TypeInv, TypeOK, Target, At
<1>7. Old(file[f])'
  <2>1. CASE file'[f] = file[f]
    BY <1>1, <1>5, <1>6, <2>1 DEF NumbersOf, Old
  <2>2. CASE file'[f] = None
    BY <2>2 DEF Old
  <2>3. CASE file'[f] # None /\ \A q \in Parts : file'[f].edit[q] = edits'
               \/ file'[f].edit[q] = IF file[f] = None THEN 0 ELSE file[f].edit[q]
    <3>1. file[f] # None => \A q \in Parts : file[f].edit[q] <= edits /\ file[f].edit[q] \in Nat
      BY <1>1, <1>6 DEF NumbersOf, Old, Content
    <3> QED
      BY <1>1, <1>2, <2>3, <3>1 DEF Old
  <2> QED
    BY <1>3, <2>1, <2>2, <2>3
<1>8. ASSUME NEW l \in Launches
      PROVE  /\ Old(snap[l][f])' /\ Old(overlay[l][f])'
             /\ (pc'[l] = "write" /\ Target(l)' = f) => Old(buffer[l])'
  <2>1. \A c : Old(c)' <=> c = None \/ \A p \in Parts : c.edit[p] <= edits'
    BY DEF Old
  <2> QED
    BY <1>1, <1>5, <1>6, <2>1 DEF NumbersOf, Old
<1> QED
    BY <1>4, <1>7, <1>8 DEF NumbersOf

LEMMA NumbersNext == HInv /\ Numbers /\ [HNext]_<<vars, history>> => Numbers'
<1> SUFFICES ASSUME HInv, Numbers, [HNext]_<<vars, history>> PROVE Numbers'
    OBVIOUS
<1>1. CASE HNext
    BY <1>1, NumbersOwn, NumbersHand DEF HNext, Next, Own, Child, Hand, Numbers
<1>2. CASE UNCHANGED <<vars, history>>
    BY <1>2 DEF Numbers, NumbersOf, Old, Target, At, vars, history
<1> QED
    BY <1>1, <1>2

(* A launch's own step and the snapshots it relies on. *)
LEMMA SnapTaken ==
    ASSUME HInv, HInv', NEW l \in Launches, NEW f \in Files, NEW p \in Parts, ~Excused(f, p)', EditState(f, p),
           kept'[f][p] = kept[f][p], TakeSnapshot(l)
    PROVE  SnapGood(l, f, p)'
<1> DEFINE P == Pending(l, f)  n == Len(plan[l])
<1>0. /\ TypeInv /\ \A i \in P : i \in Nat /\ i >= 1 /\ i <= n
      /\ step[l] \in Nat /\ step[l] >= 1 /\ n \in Nat /\ step[l] <= n
      /\ pc[l] = "snapshot" /\ Advance(l, "snapshot", "read")
      /\ step[l] \in P <=> Target(l) = f
      /\ First(l) <=> \A i \in Pending(l, Target(l)) : i >= step[l]
      /\ UNCHANGED <<plan, file, edits, overlay, force, buffer, failures, told>>
      /\ snap \in [Launches -> [Files -> Content \cup {None}]] /\ Target(l) \in Files
    BY PendingFacts, PlanFacts DEF HInv, TakeSnapshot, TypeInv, TypeOK, Control, ControlOf, Working
<1>1. /\ \/ step[l] < n /\ step'[l] = step[l] + 1 /\ pc'[l] = "snapshot"
         \/ step[l] = n /\ step'[l] = 1 /\ pc'[l] = "read"
      /\ \A m \in Launches \ {l} : step'[m] = step[m] /\ pc'[m] = pc[m]
    BY <1>0, AdvanceType DEF Positions
<1>2. Pending(l, f)' = P /\ \A c : Good(c, f, p)' <=> Good(c, f, p)
    BY <1>0 DEF Pending, Good
<1> SUFFICES ASSUME HasSnap(l, f)' PROVE Good(snap[l][f], f, p)'
    BY DEF SnapGood
<1>3. PICK i \in P : i <= step[l]
    BY <1>0, <1>1, <1>2 DEF HasSnap
<1>4. CASE First(l) /\ Target(l) = f
  <2>1. snap'[l][f] = file[f]
    BY <1>0, <1>4 DEF TakeSnapshot
  <2>2. Good(file[f], f, p)
    <3> SUFFICES ASSUME NEW m \in Launches, Replaced(m, f, p) PROVE FALSE
      BY DEF EditState, FileState
    <3>1. m # l
      BY <1>0 DEF Replaced
    <3>2. m \in AtWork' /\ l \in AtWork'
      BY <1>0, <1>1, <3>1 DEF Replaced, AtWork, Begun
    <3> QED
      BY <1>0, <3>1, <3>2, ReplacesAlone DEF Replaced
  <2> QED
    BY <1>2, <2>1, <2>2 DEF Good
<1>5. CASE ~(First(l) /\ Target(l) = f)
  <2>1. snap'[l][f] = snap[l][f]
    BY <1>0, <1>5 DEF TakeSnapshot
  <2>2. \E j \in P : j < step[l]
    BY <1>0, <1>3, <1>5
  <2>3. l \in AtWork
    BY <1>0, <2>2 DEF AtWork, Begun
  <2>4. HasSnap(l, f) /\ InTheWay(l, f)
    BY <1>0, <2>2, <2>3 DEF HasSnap, InTheWay
  <2> QED
    BY <1>2, <2>1, <2>4 DEF EditState, SnapGood, ReliedOn, Good
<1> QED
    BY <1>4, <1>5

LEMMA SnapKept ==
    ASSUME TypeInv, NEW l \in Launches, NEW f \in Files, NEW p \in Parts, SnapGood(l, f, p),
           kept'[f][p] = kept[f][p], kept[f][p] # 0, Own(l), ~TakeSnapshot(l),
           file'[f] = file[f] \/ (pc[l] \in {"write", "replace"} /\ Target(l) = f)
    PROVE  SnapGood(l, f, p)'
<1> DEFINE P == Pending(l, f)  n == Len(plan[l])
<1>T. /\ pc \in [Launches -> Positions] /\ file \in [Files -> Content \cup {None}]
      /\ overlay \in [Launches -> [Files -> Content \cup {None}]]
      /\ force \in [Launches -> SUBSET Files]
    BY DEF TypeInv, TypeOK
<1> SUFFICES ASSUME HasSnap(l, f)', ReliedOn(l, f, p)' PROVE Good(snap[l][f], f, p)'
    BY DEF SnapGood
<1>1. pc'[l] \notin {"over", "killed"} /\ l \in AtWork'
    BY DEF HasSnap, AtWork
<1>2. ~SnapshotFails(l) /\ ~Finish(l) /\ ~Kill(l)
    BY <1>1, <1>T DEF SnapshotFails, Finish, Kill, Goto, Positions
<1>3. /\ pc[l] \notin {"snapshot", "over", "killed"} /\ plan' = plan /\ snap' = snap
    BY <1>2 DEF Own, Apply, Child, Restore, ReadTarget, WriteOverlay, WriteUnsynced, ApplyFails,
       HashOverlay, HashFails, StartChild, BridgeFails, ChildExits, RestoreNext, RestoreFile,
       RestoreFails
<1>4. /\ Pending(l, f)' = P /\ (\A c : Good(c, f, p)' <=> Good(c, f, p))
      /\ (step'[l] = step[l] => Target(l)' = Target(l))
      /\ (\A i \in P : i \in Nat /\ i >= 1 /\ i <= n) /\ step[l] \in Nat
      /\ (step[l] >= 1 => (step[l] \in P <=> Target(l) = f) /\ Target(l) \in Files)
      /\ (pc[l] \in Working => step[l] >= 1)
    BY <1>3, PendingFacts, PlanFacts DEF Pending, Good, Target, At, TypeInv, Control, ControlOf
<1>5. HasSnap(l, f)
    BY <1>3, <1>4 DEF HasSnap, AtWork, Begun
<1>6. l \in AtWork
    BY <1>5 DEF HasSnap
<1> SUFFICES ReliedOn(l, f, p)
    BY <1>3, <1>4, <1>5 DEF SnapGood, Good
<1>7. CASE InTheWay(l, f)
    BY <1>7 DEF ReliedOn
<1>8. CASE ~InTheWay(l, f)
  <2>1. f \notin force[l]
    BY <1>6, <1>8 DEF InTheWay
  <2>2. pc[l] \in {"read", "write", "hash"} => \A i \in P : i < step[l]
    BY <1>4, <1>6, <1>8 DEF InTheWay
  <2>3. pc[l] \in {"read", "write", "hash", "replace"} => Target(l) # f
    BY <1>4, <1>6, <1>8, <2>2 DEF InTheWay, Working
  <2>4. file'[f] = file[f]
    BY <2>3
  <2>5. f \notin force'[l]
    BY <2>1, <2>3, <1>T, <1>2, <1>4 DEF Own, Apply, Child, Restore, ReadTarget, WriteOverlay, WriteUnsynced,
       ApplyFails, HashOverlay, HashFails, StartChild, BridgeFails, ChildExits, RestoreNext,
       RestoreFile, RestoreFails, Working
  <2>6. overlay'[l][f] = overlay[l][f]
    BY <2>3, <1>T, <1>2, <1>4 DEF Own, Apply, Child, Restore, ReadTarget, WriteOverlay, WriteUnsynced,
       ApplyFails, HashOverlay, HashFails, StartChild, BridgeFails, ChildExits, RestoreNext,
       RestoreFile, RestoreFails, Working
  <2>7. CASE ~InTheWay(l, f)'
    BY <1>4, <2>4, <2>6, <2>7 DEF ReliedOn, Good
  <2>8. CASE InTheWay(l, f)'
    <3>1. CASE pc'[l] = "replace" /\ Target(l)' = f
      <4>1. RestoreNext(l) /\ Due(l) /\ ~Changed(l) /\ step' = step
        BY <1>2, <1>T, <3>1 DEF Own, Apply, Child, Restore, ReadTarget, WriteOverlay, WriteUnsynced,
           ApplyFails, HashOverlay, HashFails, StartChild, BridgeFails, ChildExits, RestoreNext,
           RestoreFile, RestoreFails, BeginRestore, Advance, Goto, Positions
      <4>2. Target(l) = f
        BY <1>4, <3>1, <4>1
      <4>3. overlay[l][f] # None /\ file[f] \in {None, overlay[l][f]}
        BY <2>1, <4>1, <4>2 DEF Due, Changed, Completed
      <4> QED
        BY <4>3 DEF ReliedOn, Good
    <3>2. CASE pc'[l] \in {"read", "write", "hash"}
      <4>1. pc[l] \in {"read", "write", "hash"} /\ step'[l] >= step[l]
        <5>1. ReadTarget(l) \/ WriteOverlay(l) \/ HashOverlay(l)
          BY <1>2, <1>3, <1>T, <3>2 DEF Own, Apply, Child, Restore, ApplyFails, HashFails, StartChild,
             BridgeFails, ChildExits, RestoreNext, RestoreFile, RestoreFails, BeginRestore,
             WriteUnsynced, Goto, Positions
        <5>2. CASE ReadTarget(l) \/ WriteOverlay(l)
          BY <1>4, <5>2 DEF ReadTarget, WriteOverlay
        <5>3. CASE HashOverlay(l)
          <6>1. step[l] >= 1 /\ Advance(l, "read", "prepared") /\ pc[l] = "hash"
            BY <1>4, <5>3 DEF HashOverlay, Working
          <6>2. step'[l] = step[l] + 1
            BY <3>2, <6>1, AdvanceType DEF Positions
          <6> QED
            BY <1>4, <6>1, <6>2
        <5> QED
          BY <5>1, <5>2, <5>3
      <4>2. step'[l] \in Nat
        BY <4>1, <1>4, ApplyType, ChildType, RestoreType, KillType DEF Own, TypeInv, TypeOK
      <4> QED
        BY <1>4, <2>2, <2>5, <2>8, <3>2, <4>1, <4>2 DEF InTheWay
    <3>3. CASE pc'[l] = "snapshot"
      BY <1>2, <1>3, <1>T, <3>3 DEF Own, Apply, Child, Restore, ReadTarget, WriteOverlay,
         WriteUnsynced, ApplyFails, HashOverlay, HashFails, StartChild, BridgeFails, ChildExits,
         RestoreNext, RestoreFile, RestoreFails, BeginRestore, Advance, Goto, Positions
    <3> QED
      BY <2>5, <2>8, <3>1, <3>2, <3>3 DEF InTheWay
  <2> QED
    BY <2>7, <2>8
<1> QED
    BY <1>7, <1>8

(* What a launch reads to merge into is good, or it replaces the file. *)
LEMMA BufferRead ==
    ASSUME HInv, HInv', NEW l \in Launches, NEW f \in Files, NEW p \in Parts, ~Excused(f, p)', EditState(f, p),
           kept'[f][p] = kept[f][p], Own(l)
    PROVE  BufGood(l, f, p)'
<1>T. TypeInv /\ pc \in [Launches -> Positions] /\ buffer \in [Launches -> Content \cup {None}]
    BY DEF HInv, TypeInv, TypeOK
<1> SUFFICES ASSUME pc'[l] = "write", Target(l)' = f
             PROVE  Good(buffer[l], f, p)' \/ Hiding(l, f, p)'
    BY DEF BufGood
<1>1. ReadTarget(l)
    BY <1>T DEF Own, Apply, Child, Restore, Kill, TakeSnapshot, SnapshotFails, WriteOverlay,
       WriteUnsynced, ApplyFails, HashOverlay, HashFails, StartChild, BridgeFails, ChildExits,
       RestoreNext, RestoreFile, RestoreFails, Finish, BeginRestore, Advance, Goto, Positions
<1>2. /\ pc[l] = "read" /\ plan' = plan /\ step' = step /\ buffer'[l] = file[Target(l)]
      /\ UNCHANGED <<file, overlay, failures>>
    BY <1>1, <1>T DEF ReadTarget
<1>3. Target(l) = f
    BY <1>2 DEF Target, At
<1>4. CASE Good(file[f], f, p)
    BY <1>2, <1>3, <1>4 DEF Good
<1>5. CASE ~Good(file[f], f, p)
  <2>1. PICK m \in Launches : Replaced(m, f, p)
    BY <1>5 DEF EditState, FileState
  <2>2. m \in AtWork' /\ l \in AtWork'
    BY <1>1, <1>2, <2>1, <1>T DEF Replaced, AtWork, Begun, ReadTarget, Goto
  <2>3. m = l
    BY <1>2, <2>1, <2>2, ReplacesAlone DEF Replaced
  <2> QED
    BY <1>2, <2>1, <2>3 DEF Replaced, Hiding, Pending
<1> QED
    BY <1>4, <1>5

(* A launch that has replaced the file goes on to put it back or to tell. *)
LEMMA ReplacedKept ==
    ASSUME TypeInv, NEW l \in Launches, NEW f \in Files, NEW p \in Parts, Own(l), Replaced(l, f, p),
           told'[l] = {}, pc'[l] # "killed", file'[f] = file[f],
           (WriteOverlay(l) \/ RestoreFile(l)) => Target(l) # f
    PROVE  Replaced(l, f, p)'
<1> DEFINE P == Pending(l, f)  n == Len(plan[l])
<1>t. TypeInv' /\ Elsewhere(l)
    BY WhoWrites
<1>T. /\ pc \in [Launches -> Positions] /\ told \in [Launches -> SUBSET Errors]
      /\ overlay \in [Launches -> [Files -> Content \cup {None}]]
      /\ step \in [Launches -> Nat] /\ failures \in [Launches -> SUBSET Files]
    BY DEF TypeInv, TypeOK
<1>0. /\ Pending(l, f)' = P /\ (Hiding(l, f, p)' <=> Hiding(l, f, p))
      /\ (\A i \in P : i \in Nat /\ i >= 1 /\ i <= n) /\ P # {}
      /\ step[l] \in Nat
      /\ (step'[l] = step[l] => Target(l)' = Target(l))
      /\ (step[l] >= 1 => (step[l] \in P <=> Target(l) = f) /\ Target(l) \in Files)
      /\ (step[l] >= 1 => (First(l) <=> \A i \in Pending(l, Target(l)) : i >= step[l]))
      /\ (pc[l] \in Working => step[l] >= 1)
    BY <1>t, PendingFacts, PlanFacts
    DEF Pending, Hiding, Replaced, Target, At, Elsewhere, TypeInv, Control, ControlOf
<1>1. /\ l \in AtWork /\ Hiding(l, f, p) /\ pc[l] \notin {"snapshot", "over", "killed"}
      /\ (pc[l] = "hash" /\ Target(l) = f) \/ (file[f] # None /\ overlay[l][f] # None)
    BY DEF Replaced, AtWork
<1> SUFFICES /\ pc'[l] \notin {"snapshot", "over", "killed"}
             /\ pc'[l] \in {"restore", "replace"} => Left(l, f)' \/ f \in failures'[l]
             /\ \/ pc'[l] = "hash" /\ Target(l)' = f
                \/ file'[f] # None /\ overlay'[l][f] # None
    BY <1>0, <1>1 DEF Replaced, AtWork, Begun
<1>2. ~(HashFails(l) \/ ApplyFails(l) \/ WriteUnsynced(l) \/ BridgeFails(l) \/ Kill(l)
        \/ TakeSnapshot(l) \/ SnapshotFails(l))
    BY <1>1, <1>T DEF HashFails, ApplyFails, WriteUnsynced, BridgeFails, Kill, TakeSnapshot,
       SnapshotFails, Tell, Goto, Positions
<1>3. CASE ReadTarget(l) \/ WriteOverlay(l)
  <2>1. /\ pc[l] \in {"read", "write"} /\ pc'[l] \in {"write", "hash"} /\ overlay' = overlay
    BY <1>3, <1>T DEF ReadTarget, WriteOverlay, Goto
  <2> QED
    BY <1>1, <2>1
<1>4. CASE HashOverlay(l)
  <2>1. /\ pc[l] = "hash" /\ pc'[l] \in {"read", "prepared"}
        /\ IF Target(l) = f THEN overlay'[l][f] = file[f] /\ file[f] # None
           ELSE overlay'[l][f] = overlay[l][f]
    BY <1>4, <1>0, <1>T DEF HashOverlay, Advance, Goto, Working
  <2> QED
    BY <1>1, <2>1
<1>5. CASE StartChild(l)
    BY <1>1, <1>5, <1>T DEF StartChild, Goto
<1>6. CASE ChildExits(l)
  <2>1. pc'[l] = "restore" /\ step'[l] = n /\ overlay' = overlay /\ pc[l] = "running"
    BY <1>6, BeginRestoreType DEF ChildExits
  <2>2. Left(l, f)'
    BY <1>0, <2>1 DEF Left
  <2> QED
    BY <1>1, <2>1, <2>2
(* A write is passed over. *)
<1>7. ASSUME pc[l] \in {"restore", "replace"}, pc'[l] = "restore", step[l] >= 1, Skip(l),
             overlay' = overlay, failures[l] \subseteq failures'[l],
             (Target(l) = f => ~First(l) \/ f \in failures'[l])
      PROVE  /\ Left(l, f)' \/ f \in failures'[l]
             /\ file[f] # None /\ overlay'[l][f] # None
  <2>1. step'[l] = step[l] - 1
    BY <1>7, <1>T DEF Skip
  <2>2. CASE f \in failures[l] \/ (Target(l) = f /\ f \in failures'[l])
    BY <1>1, <1>7, <2>2
  <2>3. CASE f \notin failures[l] /\ ~(Target(l) = f /\ f \in failures'[l])
    <3>1. Left(l, f)
      BY <1>7, <2>3 DEF Replaced
    <3>2. \E i \in P : i < step[l]
      <4>1. CASE Target(l) = f
        BY <1>0, <1>7, <2>3, <4>1
      <4>2. CASE Target(l) # f
        BY <1>0, <1>7, <3>1, <4>2 DEF Left
      <4> QED
        BY <4>1, <4>2
    <3> QED
      BY <1>0, <1>1, <1>7, <2>1, <3>2 DEF Left
  <2> QED
    BY <2>2, <2>3
<1>8. CASE RestoreNext(l)
  <2>0. pc[l] = "restore" /\ step[l] >= 1 /\ overlay' = overlay
    BY <1>0, <1>8 DEF RestoreNext
  <2>1. CASE Due(l) /\ ~Changed(l)
    <3>1. pc'[l] = "replace" /\ step' = step /\ failures' = failures
      BY <1>8, <1>T, <2>1 DEF RestoreNext, Goto
    <3>2. Left(l, f)' <=> Left(l, f)
      BY <1>0, <3>1 DEF Left
    <3> QED
      BY <1>1, <2>0, <3>1, <3>2 DEF Replaced
  <2>2. CASE ~(Due(l) /\ ~Changed(l))
    <3>1. Skip(l) /\ pc' = pc /\ failures[l] \subseteq failures'[l]
      BY <1>8, <2>0, <2>2, FailedType DEF RestoreNext
    <3>2. Target(l) = f => ~First(l) \/ f \in failures'[l]
      <4> SUFFICES ASSUME Target(l) = f, First(l) PROVE f \in failures'[l]
        OBVIOUS
      <4>1. overlay[l][f] # None
        BY <1>1, <2>0
      <4>2. Due(l)
        BY <1>0, <2>0, <4>1 DEF Due, Completed
      <4>3. Failed(l)
        BY <1>8, <2>2, <4>2 DEF RestoreNext
      <4> QED
        BY <4>3, <1>T, <1>0, <2>0 DEF Failed
    <3> QED
      BY <1>7, <2>0, <3>1, <3>2
  <2> QED
    BY <2>1, <2>2
<1>9. CASE RestoreFile(l)
  <2>1. /\ pc[l] = "replace" /\ pc'[l] = "restore" /\ step[l] >= 1 /\ Skip(l)
        /\ overlay' = overlay /\ (Failed(l) \/ failures' = failures)
    BY <1>0, <1>9, <1>T DEF RestoreFile, Goto, Working
  <2>2. failures[l] \subseteq failures'[l]
    BY <2>1, FailedType
  <2> QED
    BY <1>7, <1>9, <2>1, <2>2
<1>10. CASE RestoreFails(l)
  <2>1. /\ pc[l] \in {"restore", "replace"} /\ pc'[l] = "restore" /\ step[l] >= 1 /\ Skip(l)
        /\ overlay' = overlay /\ Failed(l)
    BY <1>0, <1>10, <1>T DEF RestoreFails, Goto, Due
  <2>2. failures[l] \subseteq failures'[l] /\ Target(l) \in failures'[l]
    BY <2>1, FailedType
  <2> QED
    BY <1>7, <2>1, <2>2
<1>11. CASE Finish(l)
  <2>1. pc[l] = "restore" /\ step[l] = 0
    BY <1>11 DEF Finish
  <2>2. ~Left(l, f)
    BY <1>0, <2>1 DEF Left
  <2>3. f \in failures[l]
    BY <2>1, <2>2 DEF Replaced
  <2>4. told'[l] # {}
    BY <1>11, <1>T, <2>3 DEF Finish, Tell
  <2> QED
    BY <2>4
<1> QED
    BY <1>2, <1>3, <1>4, <1>5, <1>6, <1>8, <1>9, <1>10, <1>11 DEF Own, Apply, Child, Restore

(* A snapshot put back is good. *)
LEMMA PutBackGood ==
    ASSUME TypeInv, NEW l \in Launches, NEW f \in Files, NEW p \in Parts, EditState(f, p), kept'[f][p] = kept[f][p],
           RestoreFile(l), Target(l) = f
    PROVE  Good(file[f], f, p)'
<1>1. pc[l] = "replace" /\ step[l] >= 1 /\ file \in [Files -> Content \cup {None}]
    BY DEF RestoreFile, TypeInv, TypeOK, Control, ControlOf, Working
<1>2. step[l] \in Pending(l, f)
    BY <1>1, PendingFacts
<1>3. HasSnap(l, f) /\ InTheWay(l, f)
    BY <1>1, <1>2 DEF HasSnap, InTheWay, AtWork, Begun
<1>4. Good(snap[l][f], f, p)
    BY <1>3 DEF EditState, SnapGood, ReliedOn
<1>5. file'[f] = snap[l][f] \/ snap[l][f] = None
    BY <1>1 DEF RestoreFile, Put
<1> QED
    BY <1>4, <1>5 DEF Good

(* A write keeps the edits of the parts it does not write over. *)
LEMMA WrittenGood ==
    ASSUME HInv, HInv', NEW l \in Launches, NEW f \in Files, NEW p \in Parts, ~Excused(f, p)', EditState(f, p),
           kept'[f][p] = kept[f][p], WriteOverlay(l) \/ WriteUnsynced(l), Target(l) = f
    PROVE  Good(file[f], f, p)' \/ (WriteOverlay(l) /\ Replaced(l, f, p)')
<1>1. /\ TypeInv /\ pc[l] = "write" /\ step[l] >= 1 /\ plan' = plan
      /\ pc \in [Launches -> Positions] /\ file \in [Files -> Content \cup {None}]
      /\ buffer[l] \in Content \cup {None} /\ told \in [Launches -> SUBSET Errors]
    BY DEF HInv, WriteOverlay, WriteUnsynced, TypeInv, TypeOK, Control, ControlOf, Working
<1>2. At(l) \in Writes /\ step[l] \in Pending(l, f) /\ plan[l][step[l]] = At(l)
    BY <1>1, PlanFacts, PendingFacts DEF TypeInv, At
<1>3. file'[f] = Merged(buffer[l], At(l))
    BY <1>1 DEF WriteOverlay, WriteUnsynced, Put
<1>4. BufGood(l, f, p)
    BY DEF EditState
<1>5. CASE Hiding(l, f, p)
  <2>1. Hiding(l, f, p)'
    BY <1>1, <1>5 DEF Hiding, Pending
  <2>2. ~WriteUnsynced(l)
    BY <1>1, <2>1 DEF WriteUnsynced, Tell, Excused
  <2>3. WriteOverlay(l) /\ pc'[l] = "hash" /\ step' = step
    BY <1>1, <2>2 DEF WriteOverlay, Goto
  <2>4. Target(l)' = f
    BY <1>1, <2>3 DEF Target, At
  <2> QED
    BY <2>1, <2>3, <2>4 DEF Replaced, AtWork, Begun
<1>6. CASE ~Hiding(l, f, p)
  <2>1. Good(buffer[l], f, p)
    BY <1>1, <1>4, <1>6 DEF BufGood
  <2>2. ~Hides(At(l), p)
    BY <1>2, <1>6 DEF Hiding
  <2>3. kept[f][p] # 0 => /\ Merged(buffer[l], At(l)).edit[p] = buffer[l].edit[p]
                          /\ Merged(buffer[l], At(l)) \in Content
    BY <1>1, <1>2, <2>1, <2>2, MergedType DEF Good
  <2> QED
    BY <1>3, <2>1, <2>3 DEF Good
<1> QED
    BY <1>5, <1>6

LEMMA EditOwn ==
    ASSUME HInv, HInv', HNext, NEW l \in Launches, Own(l), NEW f \in Files, NEW p \in Parts,
           Excused(f, p) \/ EditState(f, p)
    PROVE  Excused(f, p)' \/ EditState(f, p)'
<1> SUFFICES ASSUME ~Excused(f, p)', kept'[f][p] # 0 PROVE EditState(f, p)'
    BY AllGood
<1>1. EditState(f, p) /\ kept'[f][p] = kept[f][p] /\ kept[f][p] # 0
    BY ExcusedStays, OwnKept
<1>2. /\ TypeInv /\ Elsewhere(l) /\ plan' = plan
      /\ file'[f] = file[f] \/ (pc[l] \in {"write", "replace"} /\ Target(l) = f)
    BY WhoWrites DEF HInv, Elsewhere
<1>3. BufGood(l, f, p)'
    BY <1>1, BufferRead
<1>4. SnapGood(l, f, p)'
  <2>1. CASE TakeSnapshot(l)
    BY <1>1, <2>1, SnapTaken
  <2>2. CASE ~TakeSnapshot(l)
    BY <1>1, <1>2, <2>2, SnapKept DEF EditState
  <2> QED
    BY <2>1, <2>2
<1>5. ASSUME NEW m \in Launches \ {l}, file'[f] = file[f] \/ Good(file[f], f, p)'
      PROVE  SnapGood(m, f, p)' /\ BufGood(m, f, p)'
  <2>1. /\ pc'[m] = pc[m] /\ step'[m] = step[m] /\ snap'[m] = snap[m]
        /\ overlay'[m] = overlay[m] /\ force'[m] = force[m] /\ buffer'[m] = buffer[m]
    BY <1>2 DEF Elsewhere
  <2>2. Good(file[f], f, p) => Good(file[f], f, p)'
    BY <1>1, <1>5 DEF Good
  <2> QED
    BY <1>1, <1>2, <2>1, <2>2, OthersGood DEF EditState
<1>6. CASE Good(file[f], f, p)'
    BY <1>3, <1>4, <1>5, <1>6 DEF EditState, FileState
<1>7. CASE ~Good(file[f], f, p)' /\ WriteOverlay(l) /\ Target(l) = f
  <2>1. Replaced(l, f, p)'
    BY <1>1, <1>7, WrittenGood
  <2>2. ASSUME NEW m \in Launches \ {l} PROVE m \notin AtWork'
    <3> SUFFICES ASSUME m \in AtWork' PROVE FALSE
      OBVIOUS
    <3>1. l \in AtWork' /\ Hiding(l, f, p)
      BY <1>2, <2>1 DEF Replaced, Hiding, Pending
    <3> QED
      BY <1>2, <3>1, ReplacesAlone
  <2>3. ASSUME NEW m \in Launches \ {l} PROVE SnapGood(m, f, p)' /\ BufGood(m, f, p)'
    BY <2>2, <2>3 DEF SnapGood, BufGood, HasSnap, AtWork, Begun
  <2> QED
    BY <1>3, <1>4, <2>1, <2>3 DEF EditState, FileState
<1>8. CASE ~Good(file[f], f, p)' /\ ~(WriteOverlay(l) /\ Target(l) = f)
  <2>1. ~(RestoreFile(l) /\ Target(l) = f) /\ ~(WriteUnsynced(l) /\ Target(l) = f)
    BY <1>1, <1>2, <1>8, PutBackGood, WrittenGood
  <2>2. file'[f] = file[f]
    <3>1. CASE WriteOverlay(l) \/ WriteUnsynced(l) \/ RestoreFile(l)
      BY <1>2, <1>8, <2>1, <3>1
    <3>2. CASE ~(WriteOverlay(l) \/ WriteUnsynced(l) \/ RestoreFile(l))
      BY <3>2 DEF Own, Apply, Child, Restore, Kill, TakeSnapshot, SnapshotFails, ReadTarget,
         ApplyFails, HashOverlay, HashFails, StartChild, BridgeFails, ChildExits,
         RestoreNext, RestoreFails, Finish
    <3> QED
      BY <3>1, <3>2
  <2>3. ~Good(file[f], f, p)
    BY <1>1, <1>8, <2>2 DEF Good
  <2>4. PICK m \in Launches : Replaced(m, f, p)
    BY <1>1, <2>3 DEF EditState, FileState
  <2>5. Replaced(m, f, p)'
    <3>1. CASE m = l
      <4>1. Hiding(l, f, p)'
        BY <1>2, <2>4, <3>1 DEF Replaced, Hiding, Pending
      <4>2. told'[l] = {} /\ pc'[l] # "killed"
        BY <4>1 DEF Excused
      <4> QED
        BY <1>2, <1>8, <2>1, <2>2, <2>4, <3>1, <4>2, ReplacedKept
    <3>2. CASE m # l
      <4>1. /\ pc'[m] = pc[m] /\ step'[m] = step[m] /\ overlay'[m] = overlay[m]
            /\ failures'[m] = failures[m]
        BY <1>2, <3>2 DEF Elsewhere
      <4>2. /\ Pending(m, f)' = Pending(m, f) /\ Target(m)' = Target(m)
            /\ (Hiding(m, f, p)' <=> Hiding(m, f, p))
        BY <1>2, <4>1 DEF Pending, Target, At, Hiding
      <4>3. Left(m, f)' <=> Left(m, f)
        BY <4>1, <4>2 DEF Left
      <4> QED
        BY <2>2, <2>4, <4>1, <4>2, <4>3 DEF Replaced, AtWork, Begun
    <3> QED
      BY <3>1, <3>2
  <2> QED
    BY <1>3, <1>4, <1>5, <2>2, <2>5 DEF EditState, FileState
<1> QED
    BY <1>6, <1>7, <1>8

(* A step by hand that leaves this part alone, or good. *)
LEMMA HandGood ==
    ASSUME NEW f \in Files, NEW p \in Parts, EditState(f, p), kept'[f][p] = kept[f][p],
           UNCHANGED <<plan, pc, step, snap, overlay, force, buffer, failures, told>>,
           file'[f] = file[f] \/ file'[f] # None,
           Good(file[f], f, p) => Good(file[f], f, p)'
    PROVE  EditState(f, p)'
<1>1. ASSUME NEW m \in Launches PROVE SnapGood(m, f, p)' /\ BufGood(m, f, p)'
    BY OthersGood DEF EditState
<1>2. FileState(f, p)'
  <2>1. CASE Good(file[f], f, p)'
    BY <2>1 DEF FileState
  <2>2. CASE ~Good(file[f], f, p)'
    <3>1. ~Good(file[f], f, p)
      BY <2>2
    <3>2. PICK m \in Launches : Replaced(m, f, p)
      BY <3>1 DEF EditState, FileState
    <3>3. Replaced(m, f, p)'
      BY <3>1, <3>2 DEF Replaced, Hiding, AtWork, Begun, Left, Pending, Target, At
    <3> QED
      BY <3>3 DEF FileState
  <2> QED
    BY <2>1, <2>2
<1> QED
    BY <1>1, <1>2 DEF EditState

LEMMA EditHand ==
    ASSUME HInv, HInv', Numbers, HNext, NEW g \in Files, Hand(g), NEW f \in Files, NEW p \in Parts,
           Excused(f, p) \/ EditState(f, p)
    PROVE  Excused(f, p)' \/ EditState(f, p)'
<1> SUFFICES ASSUME ~Excused(f, p)', kept'[f][p] # 0 PROVE EditState(f, p)'
    BY AllGood
<1>e. EditState(f, p)
    BY ExcusedStays
<1>t. TypeInv /\ NumbersOf(f) /\ kept[f][p] \in Nat
    BY DEF HInv, HistoryType, Numbers
<1>u. UNCHANGED <<plan, pc, step, snap, overlay, force, buffer, failures, told>>
    BY <1>t, HandType
<1>v. /\ file \in [Files -> Content \cup {None}]
      /\ overlay \in [Launches -> [Files -> Content \cup {None}]] /\ edits \in Nat
    BY <1>t DEF TypeInv, TypeOK
<1>1. /\ EditState(f, p) /\ TypeInv /\ NumbersOf(f) /\ kept[f][p] \in Nat /\ edits \in Nat
      /\ UNCHANGED <<plan, pc, step, snap, overlay, force, buffer, failures, told>>
      /\ file \in [Files -> Content \cup {None}]
      /\ overlay \in [Launches -> [Files -> Content \cup {None}]]
    BY <1>e, <1>t, <1>u, <1>v
<1>2. ~Delete(f)
  <2> SUFFICES ASSUME Delete(f) PROVE FALSE
    OBVIOUS
  <2>1. ~EditPart(f, p)
    BY <1>v DEF EditPart, Delete
  <2> QED
    BY <2>1 DEF HNext
<1>3. CASE f # g
  <2>1. file'[f] = file[f]
    BY <1>1, <1>3, HandType
  <2>2. ~EditPart(f, p)
    <3> SUFFICES ASSUME EditPart(f, p) PROVE FALSE
      OBVIOUS
    <3>1. PICK c \in Content : Put(f, c) /\ c.edit[p] = edits + 1
      BY <1>1, EditedPart DEF TypeInv
    <3>2. file[f] = c /\ c # None
      BY <1>1, <2>1, <3>1 DEF Put
    <3>3. file[f].edit[p] <= edits
      BY <1>1, <3>2 DEF NumbersOf, Old
    <3> QED
      BY <1>1, <3>1, <3>2, <3>3
  <2>3. kept'[f][p] = kept[f][p]
    BY <1>2, <2>2 DEF HNext
  <2>4. Good(file[f], f, p) => Good(file[f], f, p)'
    BY <2>1, <2>3 DEF Good
  <2> QED
    BY <1>1, <2>1, <2>3, <2>4, HandGood
<1>4. CASE f = g
  <2>0. Edit(f)
    BY <1>2, <1>4, Zenon DEF Hand
  <2>1. PICK q \in Parts : EditPart(f, q)
    BY <2>0 DEF Edit
  <2>2. /\ edits' = edits + 1
        /\ \E c \in Content :
              /\ Put(f, c) /\ c.edit[q] = edits + 1
              /\ \A r \in Parts \ {q} :
                    c.edit[r] = IF file[f] = None THEN 0 ELSE file[f].edit[r]
    BY <1>1, <2>1, EditedPart DEF TypeInv
  <2>3. /\ file'[f] \in Content /\ file'[f] # None /\ file'[f].edit[q] = edits + 1
        /\ \A r \in Parts \ {q} :
              file'[f].edit[r] = IF file[f] = None THEN 0 ELSE file[f].edit[r]
    BY <1>1, <2>2 DEF Put
  <2>4. CASE (\E l \in Launches : InTheWay(l, f)) \/ q # p
    <3>1. kept'[f][p] = kept[f][p]
      <4>1. CASE \E l \in Launches : InTheWay(l, f)
        BY <1>2, <4>1 DEF HNext
      <4>2. CASE q # p
        <5>1. ~EditPart(f, p)
          <6> SUFFICES ASSUME EditPart(f, p) PROVE FALSE
            OBVIOUS
          <6>1. PICK c \in Content : Put(f, c) /\ c.edit[p] = edits + 1
            BY <1>1, EditedPart DEF TypeInv
          <6>2. file'[f] = c
            BY <1>1, <6>1 DEF Put
          <6>3. file'[f].edit[p] <= edits
            BY <1>1, <2>3, <4>2 DEF NumbersOf, Old
          <6> QED
            BY <1>1, <6>1, <6>2, <6>3
        <5> QED
          BY <1>2, <5>1 DEF HNext
      <4> QED
        BY <2>4, <4>1, <4>2
    <3>2. Good(file[f], f, p) => Good(file[f], f, p)'
      <4>1. CASE q = p
        BY <1>1, <2>3, <3>1, <4>1 DEF Good, NumbersOf
      <4>2. CASE q # p
        BY <1>1, <2>3, <3>1, <4>2 DEF Good
      <4> QED
        BY <4>1, <4>2
    <3> QED
      BY <1>1, <2>3, <3>1, <3>2, HandGood
  <2>5. CASE (\A l \in Launches : ~InTheWay(l, f)) /\ q = p
    <3>1. kept'[f][p] = edits + 1
      BY <2>1, <2>2, <2>5 DEF HNext
    <3>2. Good(file[f], f, p)'
      BY <1>1, <2>3, <2>5, <3>1 DEF Good
    <3>3. ASSUME NEW m \in Launches PROVE SnapGood(m, f, p)' /\ BufGood(m, f, p)'
      <4>1. ~InTheWay(m, f)'
        BY <1>1, <2>5 DEF InTheWay, AtWork, Begun, Pending, Target, At
      <4>2. overlay'[m][f] # None => ~Good(overlay[m][f], f, p)'
        <5>1. overlay[m][f] \in Content \cup {None} /\ Old(overlay[m][f])
          BY <1>1 DEF NumbersOf
        <5> QED
          BY <1>1, <3>1, <5>1 DEF Good, Old, Content
      <4>3. SnapGood(m, f, p)'
        BY <3>2, <4>1, <4>2 DEF SnapGood, ReliedOn
      <4>4. ~(pc[m] = "write" /\ Target(m) = f)
        <5> SUFFICES ASSUME pc[m] = "write", Target(m) = f PROVE FALSE
          OBVIOUS
        <5>1. step[m] \in Pending(m, f) /\ step[m] \in Nat
          BY <1>1, PendingFacts DEF TypeInv, Control, ControlOf, Working
        <5>2. InTheWay(m, f)
          BY <5>1 DEF InTheWay, AtWork, Begun
        <5> QED
          BY <2>5, <5>2
      <4>5. Target(m)' = Target(m) /\ pc' = pc
        BY <1>1 DEF Target, At
      <4> QED
        BY <4>3, <4>4, <4>5 DEF BufGood
    <3> QED
      BY <3>2, <3>3 DEF EditState, FileState
  <2> QED
    BY <2>4, <2>5
<1> QED
    BY <1>3, <1>4

LEMMA EditInit == HInit => EditInv
BY DEF HInit, EditInv, EditState, FileState, SnapGood, BufGood, Good, Unedited

LEMMA EditNext == HInv /\ Numbers /\ EditInv /\ [HNext]_<<vars, history>> => EditInv'
<1> SUFFICES ASSUME HInv, Numbers, EditInv, [HNext]_<<vars, history>>, NEW f \in Files, NEW p \in Parts
             PROVE  Excused(f, p)' \/ EditState(f, p)'
    BY DEF EditInv
<1>1. HInv' /\ (Excused(f, p) \/ EditState(f, p))
    BY HInvNext DEF EditInv
<1>2. CASE HNext
  <2>1. CASE \E l \in Launches : Own(l)
    BY <1>1, <1>2, <2>1, EditOwn
  <2>2. CASE \E g \in Files : Hand(g)
    BY <1>1, <1>2, <2>2, EditHand
  <2> QED
    BY <1>2, <2>1, <2>2 DEF HNext, Next, Own, Child, Hand
<1>3. CASE UNCHANGED <<vars, history>>
  <2>1. /\ UNCHANGED <<plan, pc, step, snap, overlay, force, buffer, failures, told>>
        /\ kept'[f][p] = kept[f][p] /\ file'[f] = file[f] /\ overlapped' = overlapped
    BY <1>3 DEF vars, history
  <2>2. Excused(f, p) => Excused(f, p)'
    BY <2>1 DEF Excused, Hiding, Pending
  <2>3. EditState(f, p) => EditState(f, p)'
    BY <2>1, HandGood DEF Good
  <2> QED
    BY <1>1, <2>2, <2>3
<1> QED
    BY <1>2, <1>3

(* An edit made out of every launch's way is never undone, whatever        *)
(* overlaps, fails or is killed, for any plans: only a launch that         *)
(* replaces the whole file, or merges settings over the part that was      *)
(* edited, may hide it, while it runs, or lose it, and then it told an     *)
(* error, was killed or overlapped another launch.                         *)
THEOREM OverlayKeepsEdits == HSpec => []EditsPreserved
<1>1. HInit => HInv /\ Numbers /\ EditInv
    BY HInvInit, NumbersInit, EditInit
<1>2. HInv /\ Numbers /\ EditInv /\ [HNext]_<<vars, history>> => (HInv /\ Numbers /\ EditInv)'
    BY HInvNext, NumbersNext, EditNext
<1>3. EditInv => EditsPreserved
  <2> SUFFICES ASSUME EditInv, NEW f \in Files, NEW p \in Parts
               PROVE  \/ kept[f][p] = 0
                      \/ file[f] # None /\ file[f].edit[p] >= kept[f][p]
                      \/ \E l \in Launches :
                            /\ Hiding(l, f, p)
                            /\ pc[l] # "over" \/ told[l] # {} \/ l \in overlapped
    BY DEF EditsPreserved
  <2>1. CASE Excused(f, p)
    BY <2>1 DEF Excused
  <2>2. CASE EditState(f, p)
    BY <2>2 DEF EditState, FileState, Good, Replaced, AtWork
  <2> QED
    BY <2>1, <2>2 DEF EditInv
<1> QED
    BY <1>1, <1>2, <1>3, PTL DEF HSpec
=============================================================================
