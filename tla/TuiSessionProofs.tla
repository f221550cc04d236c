-------------------------- MODULE TuiSessionProofs --------------------------
(***************************************************************************)
(* The fences of the interface's sessions, for any number of commands      *)
(* under way, of sessions and of requests.                                 *)
(*                                                                         *)
(* A password opens only the lock it was typed in because the number of    *)
(* its request is the newest one, and that the newest request belongs to   *)
(* the present session, is alone and finds the interface locked is what    *)
(* UnlockSound adds; PreviewSound says the like of previews, as long as    *)
(* their numbers only grow.  Overlays are counted by the slots with one.   *)
(***************************************************************************)
EXTENDS TuiSession, FiniteSetTheorems, TLAPS

(* TypeOK but for the count of overlays, which OverlayInv gives. *)
Shape ==
    /\ up \in {"up", "executing", "quit", "panic"}
    /\ unlocked \in BOOLEAN /\ unlocking \in BOOLEAN
    /\ failure \in BOOLEAN /\ typing \in BOOLEAN /\ reused \in BOOLEAN
    /\ gen \in Sessions
    /\ unlockReq \in 0..MaxRequests /\ preview \in 0..MaxRequests
    /\ phase \in {"idle", "preparing", "running", "failed"}
    /\ shown \in [{"vault", "preview", "doctor", "approval"} -> Sessions \cup {None}]
    /\ form \in 0..LastStep \cup {None}
    /\ task \in [Tasks -> Command \cup {None}]

Newest == {t \in Of({"unlock"}) : task[t].id = unlockReq}
UnlockSound ==
    /\ \A t \in Of({"unlock"}) : task[t].id <= unlockReq
    /\ \A t \in Newest : task[t].gen = gen /\ ~unlocked /\ Newest = {t}

PreviewSound ==
    reused \/ \A t \in Of({"preview"}) :
                 /\ task[t].id <= preview
                 /\ task[t].id = preview => unlocked /\ task[t].gen = gen

(* The slots with an overlay that is in place. *)
Held == {t \in Of({"launch"}) : task[t].at = "done"} \cup Of({"child"})
OverlayInv == overlays = Cardinality(Held)

(* A command that has just begun. *)
New(c, kinds) == c \in Command /\ c.at = "running" /\ c.kind \in kinds
Begun == Kinds \ {"unlock", "child", "finished"}

(* A step that frees the slots L and starts commands of some kinds. *)
Begins(L, kinds) ==
    /\ task' \in [Tasks -> Command \cup {None}]
    /\ \A u \in Tasks :
         \/ u \notin L /\ task'[u] = task[u]
         \/ u \in L /\ task'[u] = None
         \/ (task[u] = None \/ u \in L) /\ New(task'[u], kinds)
-----------------------------------------------------------------------------
(* Each command gets a slot that was free or is freed. *)
LEMMA StartTakesFreeSlots ==
    ASSUME NEW C, NEW L \in SUBSET Tasks, Start(C, L)
    PROVE  /\ task' = [u \in Tasks |-> task'[u]]
           /\ \A u \in Tasks :
                \/ u \notin L /\ task'[u] = task[u]
                \/ u \in L /\ task'[u] = None
                \/ (task[u] = None \/ u \in L) /\ task'[u] \in C
           /\ \A c \in C : \E u \in Tasks : task'[u] = c /\ (task[u] = None \/ u \in L)
<1>1. PICK slot \in [C -> Free \cup L] :
        /\ \A c, d \in C : slot[c] = slot[d] => c = d
        /\ task' = [t \in Tasks |->
             IF \E c \in C : slot[c] = t
             THEN CHOOSE c \in C : slot[c] = t
             ELSE IF t \in L THEN None ELSE task[t]]
    BY DEF Start
<1>2. ASSUME NEW u \in Tasks, NEW c \in C, slot[c] = u
      PROVE  task'[u] = c
    <2>1. task'[u] = CHOOSE d \in C : slot[d] = u
        BY <1>1, <1>2
    <2>2. \A d \in C : slot[d] = u => d = c
        BY <1>1, <1>2
    <2> QED
        BY <1>2, <2>1, <2>2
<1>3. \A c \in C : slot[c] \in Tasks /\ (task[slot[c]] = None \/ slot[c] \in L)
    BY <1>1 DEF Free
<1>4. \A c \in C : task'[slot[c]] = c
    BY <1>2, <1>3
<1>5. ASSUME NEW u \in Tasks
      PROVE  \/ u \notin L /\ task'[u] = task[u]
             \/ u \in L /\ task'[u] = None
             \/ (task[u] = None \/ u \in L) /\ task'[u] \in C
    <2>1. CASE \E c \in C : slot[c] = u
        BY <1>3, <1>4, <2>1
    <2>2. CASE ~\E c \in C : slot[c] = u
        BY <1>1, <2>2
    <2> QED
        BY <2>1, <2>2
<1>6. task' = [u \in Tasks |-> task'[u]]
    BY <1>1
<1> QED
    BY <1>3, <1>4, <1>5, <1>6

LEMMA StartBegins ==
    ASSUME Shape, NEW C, NEW L \in SUBSET Tasks, Start(C, L), NEW kinds,
           \A c \in C : New(c, kinds)
    PROVE  Begins(L, kinds)
<1>1. task \in [Tasks -> Command \cup {None}]
    BY DEF Shape
<1>2. \A c \in C : c \in Command
    BY DEF New
<1> QED
    BY <1>1, <1>2, StartTakesFreeSlots DEF Begins

LEMMA DropBegins ==
    ASSUME Shape, NEW t \in Tasks, Drop(t), NEW kinds
    PROVE  Begins({t}, kinds)
BY DEF Shape, Drop, Begins

LEMMA NothingBegins ==
    ASSUME Shape, task' = task, NEW kinds
    PROVE  Begins({}, kinds)
BY DEF Shape, Begins

LEMMA NoSlots == {} \in SUBSET Tasks /\ \A t \in Tasks : {t} \in SUBSET Tasks
OBVIOUS

LEMMA WithType ==
    ASSUME Shape, NEW k \in Begun \cup {"unlock"}, NEW i \in 0..MaxRequests, NEW s \in Sessions
    PROVE  /\ New(With(k, i), {k}) /\ With(k, i).id = i /\ With(k, i).gen = gen
           /\ New([With(k, i) EXCEPT !.gen = s], {k})
BY DEF Shape, New, With, Command, Begun, Kinds

LEMMA OneBegins ==
    ASSUME Shape, NEW k \in Begun, NEW L \in SUBSET Tasks, NEW s \in Sessions,
           Start({With(k, 0)}, L) \/ Start({[With(k, 0) EXCEPT !.gen = s]}, L)
    PROVE  Begins(L, Begun)
<1>0. 0 \in 0..MaxRequests
    BY BoundAssumption
<1>1. New(With(k, 0), Begun) /\ New([With(k, 0) EXCEPT !.gen = s], Begun)
    BY <1>0, WithType DEF New
<1>2. CASE Start({With(k, 0)}, L)
    BY <1>1, <1>2, StartBegins
<1>3. CASE Start({[With(k, 0) EXCEPT !.gen = s]}, L)
    <2> DEFINE c == [With(k, 0) EXCEPT !.gen = s]
    <2>1. New(c, Begun) /\ Start({c}, L)
        BY <1>1, <1>3
    <2> HIDE DEF c
    <2> QED
        BY <2>1, StartBegins
<1> QED
    BY <1>2, <1>3

LEMMA RefreshBegins ==
    ASSUME Shape, NEW open, NEW s \in Sessions, NEW others, NEW L \in SUBSET Tasks,
           \A c \in others : New(c, Begun), RefreshPreview(open, s, others, L)
    PROVE  Begins(L, Begun) /\ preview' \in 0..MaxRequests /\ reused' \in BOOLEAN
<1> DEFINE c == [With("preview", preview + 1) EXCEPT !.gen = s]
<1>0. reused' \in BOOLEAN
    BY DEF RefreshPreview, Shape
<1>1. CASE Start(others, L) /\ preview' \in {0, preview + 1} /\ (preview' # 0 => preview < MaxRequests)
    <2>1. Begins(L, Begun)
        BY <1>1, StartBegins
    <2>2. preview' \in 0..MaxRequests
        BY <1>1, BoundAssumption DEF Shape
    <2> QED
        BY <1>0, <2>1, <2>2
<1>2. CASE Start(others \cup {c}, L) /\ preview' = preview + 1 /\ preview < MaxRequests
    <2>1. preview' \in 0..MaxRequests
        BY <1>2, BoundAssumption DEF Shape
    <2>2. New(c, {"preview"})
        BY <1>2, <2>1, WithType DEF Begun, Kinds
    <2>3. \A d \in others \cup {c} : New(d, Begun)
        BY <2>2 DEF New, Begun, Kinds
    <2> HIDE DEF c
    <2> QED
        BY <1>0, <1>2, <2>1, <2>3, StartBegins
<1> QED
    BY <1>1, <1>2 DEF RefreshPreview

LEMMA EditBegins ==
    ASSUME Shape, NEW k \in Begun, Start({With(k, 0)}, {})
    PROVE  Begins({}, Begun)
<1>0. gen \in Sessions
    BY DEF Shape
<1> QED
    BY <1>0, NoSlots, OneBegins

(* Keys free no slot and start no child; a password is another matter.     *)
LEMMA KeysBegin ==
    ASSUME Shape, Keys
    PROVE  SubmitPassword \/ Begins({}, Begun)
<1>0. gen \in Sessions /\ {"preview", "recover", "launch", "doctor", "edit", "stage", "commit", "cancel"} = Begun
    BY DEF Shape, Begun, Kinds
<1>1. CASE Lock \/ LockAndQuit \/ QuitLocked \/ TypeCommand \/ DismissFailure
           \/ OpenApproval \/ LeaveApproval
    <2>1. task' = task
        BY <1>1 DEF Lock, LockAndQuit, LockVault, QuitLocked, TypeCommand, DismissFailure,
                    OpenApproval, LeaveApproval
    <2> QED
        BY <2>1, NothingBegins
<1>2. CASE SelectProfile
    <2>1. \E open : RefreshPreview(open, gen, {}, {})
        BY <1>2, Zenon DEF SelectProfile
    <2>2. \A c \in {} : New(c, Begun)
        OBVIOUS
    <2>3. gen \in Sessions
        BY <1>0
    <2> QED
        BY <2>1, <2>2, <2>3, NoSlots, RefreshBegins
<1>3. CASE LaunchProfile \/ LaunchTyped
    <2>1. Start({With("launch", 0)}, {})
        BY <1>3 DEF LaunchProfile, LaunchTyped
    <2> QED
        BY <1>0, <2>1, EditBegins
<1>4. ASSUME NEW k \in {"doctor", "edit"}, AskSession(k)
      PROVE  Begins({}, Begun)
    <2>1. Start({With(k, 0)}, {})
        BY <1>4 DEF AskSession
    <2> QED
        BY <1>0, <2>1, EditBegins
<1>5. ASSUME NEW e \in BOOLEAN, AnswerApproval(e)
      PROVE  Begins({}, Begun)
    <2>1. task' = task \/ Start({With("stage", 0)}, {})
        BY <1>5 DEF AnswerApproval
    <2> QED
        BY <1>0, <2>1, EditBegins, NothingBegins
<1>6. ASSUME NEW k \in {"commit", "cancel"}, DecideApproval(k)
      PROVE  Begins({}, Begun)
    <2> DEFINE s == IF k = "commit" THEN shown["approval"] ELSE 0
    <2>1. Start({[With(k, 0) EXCEPT !.gen = s]}, {})
        BY <1>6 DEF DecideApproval
    <2>2. s \in Sessions
        <3>1. shown["approval"] \in Sessions /\ 0 \in Sessions
            BY <1>6, BoundAssumption DEF DecideApproval, Shape, Sessions
        <3> QED
            BY <3>1
    <2> HIDE DEF s
    <2> QED
        BY <1>0, <2>1, <2>2, NoSlots, OneBegins
<1> QED
    BY <1>1, <1>2, <1>3, <1>4, <1>5, <1>6 DEF Keys

(* An answer frees its slot, unless it starts the child of a launch. *)
LEMMA AnswersBegin ==
    ASSUME Shape, NEW t \in Tasks, Answer(t)
    PROVE  LaunchStarts(t) \/ Begins({t}, Begun)
<1>0. gen \in Sessions /\ {"preview", "recover", "launch", "doctor", "edit", "stage", "commit", "cancel"} = Begun
    BY DEF Shape, Begun, Kinds
<1>a. gen \in Sessions
    BY <1>0
<1>s. {t} \in SUBSET Tasks /\ 0 \in Sessions
    BY BoundAssumption DEF Sessions
<1>1. CASE Drop(t)
    BY <1>1, DropBegins
<1>2. CASE Unlocks(t)
    <2> DEFINE c == [With("recover", 0) EXCEPT !.gen = 0]
    <2>1. (\E open : RefreshPreview(open, gen + 1, {c}, {t})) /\ gen < MaxGen
        BY <1>2, Zenon DEF Unlocks
    <2>2. gen + 1 \in Sessions /\ 0 \in 0..MaxRequests
        BY <1>0, <2>1, BoundAssumption DEF Sessions
    <2>3. New(c, {"recover"})
        BY <1>0, <1>s, <2>2, WithType
    <2>4. \A d \in {c} : New(d, Begun)
        BY <1>0, <2>3 DEF New
    <2> HIDE DEF c
    <2> QED
        BY <1>s, <2>1, <2>2, <2>4, RefreshBegins
<1>3. CASE StageAnswer(t)
    <2>1. Drop(t) \/ Start({[With("cancel", 0) EXCEPT !.gen = 0]}, {t})
        BY <1>3 DEF StageAnswer
    <2>2. CASE Start({[With("cancel", 0) EXCEPT !.gen = 0]}, {t})
        BY <1>0, <1>s, <2>2, OneBegins
    <2> QED
        BY <1>1, <2>1, <2>2
<1>4. CASE FinishedAnswer(t)
    <2>1. \E open : RefreshPreview(open, gen, {}, {t})
        BY <1>4, Zenon DEF FinishedAnswer
    <2>2. \A c \in {} : New(c, Begun)
        OBVIOUS
    <2> QED
        BY <1>a, <1>s, <2>1, <2>2, RefreshBegins
<1> QED
    BY <1>1, <1>2, <1>3, <1>4
       DEF Answer, UnlockAnswer, UnlockStale, UnlockRefused, PreviewAnswer, DoctorAnswer,
           EditAnswer, MutationAnswer, LaunchAnswer, LaunchRefused

(* A password starts one unlock, with the next number. *)
LEMMA SubmitBegins ==
    ASSUME Shape, SubmitPassword
    PROVE  LET c == With("unlock", unlockReq + 1)
           IN  /\ unlockReq + 1 \in 0..MaxRequests
               /\ New(c, {"unlock"}) /\ c.id = unlockReq + 1 /\ c.gen = gen
               /\ task' \in [Tasks -> Command \cup {None}]
               /\ \A u \in Tasks : task'[u] = task[u] \/ (task[u] = None /\ task'[u] = c)
               /\ \E u \in Tasks : /\ task[u] = None /\ task'[u] = c
                                   /\ \A v \in Tasks \ {u} : task'[v] = task[v]
               /\ Begins({}, {"unlock"})
<1> DEFINE c == With("unlock", unlockReq + 1)
<1>1. unlockReq + 1 \in 0..MaxRequests /\ gen \in Sessions
    BY BoundAssumption DEF SubmitPassword, Shape
<1>2. New(c, {"unlock"}) /\ c.id = unlockReq + 1 /\ c.gen = gen
    BY <1>1, WithType
<1>3. Start({c}, {})
    BY DEF SubmitPassword
<1> HIDE DEF c
<1>4. Begins({}, {"unlock"})
    BY <1>2, <1>3, NoSlots, StartBegins
<1>5. \E u \in Tasks : /\ task[u] = None /\ task'[u] = c
                        /\ \A v \in Tasks \ {u} : task'[v] = task[v]
    <2>1. PICK slot \in [{c} -> Free \cup {}] :
            task' = [t \in Tasks |->
                 IF \E d \in {c} : slot[d] = t
                 THEN CHOOSE d \in {c} : slot[d] = t
                 ELSE IF t \in {} THEN None ELSE task[t]]
        BY <1>3 DEF Start
    <2>2. slot[c] \in Tasks /\ task[slot[c]] = None
        BY <2>1 DEF Free
    <2>3. \A v \in Tasks \ {slot[c]} : task'[v] = task[v]
        BY <2>1
    <2>4. task'[slot[c]] = CHOOSE d \in {c} : slot[d] = slot[c]
        BY <2>1, <2>2
    <2>5. task'[slot[c]] = c
        BY <2>4
    <2> QED
        BY <2>2, <2>3, <2>5
<1> QED
    BY <1>1, <1>2, <1>4, <1>5 DEF c, Begins

(* A slot whose command goes on. *)
LEMMA RunType ==
    ASSUME Shape, NEW t \in Tasks, Run(t)
    PROVE  /\ task' \in [Tasks -> Command \cup {None}]
           /\ task[t] \in Command /\ task[t].at = "running" /\ task[t].kind # "child"
           /\ task'[t] \in Command /\ task'[t].at \in {"done", "failed"}
           /\ \A f \in {"kind", "gen", "id", "flaws"} : task'[t][f] = task[t][f]
           /\ \A u \in Tasks \ {t} : task'[u] = task[u]
           /\ overlays' = IF task'[t].at = "done" /\ task[t].kind = "launch"
                          THEN overlays + 1 ELSE overlays
<1>1. task[t] \in Command /\ task \in [Tasks -> Command \cup {None}]
    BY NoneAssumption DEF Run, Shape
<1>2. PICK r \in {"done", "failed"} :
        /\ task' = [task EXCEPT ![t] = [task[t] EXCEPT !.at = r]]
        /\ overlays' = IF r = "done" /\ task[t].kind = "launch" THEN overlays + 1 ELSE overlays
    BY DEF Run
<1>3. /\ task'[t] = [task[t] EXCEPT !.at = r]
      /\ \A u \in Tasks \ {t} : task'[u] = task[u]
    BY <1>1, <1>2
<1>4. task'[t] \in Command /\ task'[t].at = r
      /\ \A f \in {"kind", "gen", "id", "flaws"} : task'[t][f] = task[t][f]
    BY <1>1, <1>3 DEF Command
<1>5. task[t].at = "running" /\ task[t].kind # "child"
    BY DEF Run
<1> QED
    BY <1>1, <1>2, <1>3, <1>4, <1>5

LEMMA LaunchStartsType ==
    ASSUME Shape, NEW t \in Tasks, LaunchStarts(t)
    PROVE  /\ task' \in [Tasks -> Command \cup {None}]
           /\ task[t] # None /\ task[t].kind = "launch" /\ task[t].at = "done"
           /\ task'[t] # None /\ task'[t].kind = "child"
           /\ \A u \in Tasks \ {t} : task'[u] = task[u]
<1>1. task[t] \in Command /\ task \in [Tasks -> Command \cup {None}]
    BY NoneAssumption DEF LaunchStarts, Handled, Shape
<1>2. /\ task' = [task EXCEPT ![t].kind = "child", ![t].at = "running"]
      /\ task[t].kind = "launch" /\ task[t].at = "done"
    BY DEF LaunchStarts, Handled, Launchable
<1>3. task'[t] = [task[t] EXCEPT !.kind = "child", !.at = "running"]
    BY <1>1, <1>2
<1>4. task'[t] \in Command /\ task'[t].kind = "child"
    BY <1>1, <1>3 DEF Command, Kinds
<1> QED
    BY <1>1, <1>2, <1>4, NoneAssumption

LEMMA ChildEndsType ==
    ASSUME Shape, NEW t \in Tasks, ChildEnds(t)
    PROVE  /\ task' \in [Tasks -> Command \cup {None}]
           /\ task[t] # None /\ task[t].kind = "child"
           /\ task'[t] # None /\ task'[t].kind = "finished"
           /\ \A u \in Tasks \ {t} : task'[u] = task[u]
<1>1. task[t] \in Command /\ task \in [Tasks -> Command \cup {None}] /\ task[t].kind = "child"
    BY NoneAssumption DEF ChildEnds, Shape
<1>2. PICK f \in SUBSET Flaws :
        task' = [task EXCEPT ![t].kind = "finished", ![t].at = "done", ![t].flaws = f]
    BY DEF ChildEnds
<1>3. task'[t] = [task[t] EXCEPT !.kind = "finished", !.at = "done", !.flaws = f]
    BY <1>1, <1>2
<1>4. task'[t] \in Command /\ task'[t].kind = "finished"
    BY <1>1, <1>3 DEF Command, Kinds
<1> QED
    BY <1>1, <1>2, <1>4, NoneAssumption
-----------------------------------------------------------------------------
(* The commands keep their type, whatever happens. *)
LEMMA TasksTyped ==
    ASSUME Shape, [Next]_vars
    PROVE  task' \in [Tasks -> Command \cup {None}]
<1>1. CASE Keys
    BY <1>1, KeysBegin, SubmitBegins DEF Begins
<1>2. ASSUME NEW t \in Tasks, Answer(t) PROVE task' \in [Tasks -> Command \cup {None}]
    BY <1>2, AnswersBegin, LaunchStartsType DEF Begins
<1>3. ASSUME NEW t \in Tasks, Run(t) \/ ChildEnds(t)
      PROVE  task' \in [Tasks -> Command \cup {None}]
    BY <1>3, RunType, ChildEndsType
<1>4. CASE UNCHANGED vars
    BY <1>4 DEF vars, Shape
<1> QED
    BY <1>1, <1>2, <1>3, <1>4 DEF Next

(* So do the other variables: a number grows only below its bound. *)
LEMMA ShapeInit == Init => Shape
<1> SUFFICES ASSUME Init PROVE Shape
    OBVIOUS
<1>1. 0 \in Sessions /\ 0 \in 0..MaxRequests
    BY BoundAssumption DEF Sessions
<1> QED
    BY <1>1 DEF Init, Shape

LEMMA ShapeOfKeys ==
    ASSUME Shape, Keys, task' \in [Tasks -> Command \cup {None}]
    PROVE  Shape'
<1>0. LastStep = 4 /\ MaxGen \in Nat /\ MaxRequests \in Nat
    BY BoundAssumption DEF LastStep
<1>1. CASE LockVault /\ up' \in {up, "quit"}
    <2>1. gen' \in Sessions /\ unlockReq' \in 0..MaxRequests /\ preview' \in 0..MaxRequests
        BY <1>0, <1>1 DEF LockVault, Shape, Sessions
    <2>2. shown' \in [{"vault", "preview", "doctor", "approval"} -> Sessions \cup {None}]
        BY <1>1 DEF LockVault, LockedDisplay, Shape
    <2> QED
        BY <1>1, <2>1, <2>2 DEF LockVault, Screen, Shape
<1>2. CASE SubmitPassword
    <2>1. unlockReq' \in 0..MaxRequests
        BY <1>0, <1>2 DEF SubmitPassword, Shape
    <2> QED
        BY <1>2, <2>1 DEF SubmitPassword, Screen, Preview, Shape
<1>3. CASE SelectProfile
    <2>1. \E open : RefreshPreview(open, gen, {}, {})
        BY <1>3, Zenon DEF SelectProfile
    <2>2. (\A c \in {} : New(c, Begun)) /\ gen \in Sessions
        BY DEF Shape
    <2>3. preview' \in 0..MaxRequests /\ reused' \in BOOLEAN
        BY <2>1, <2>2, NoSlots, RefreshBegins
    <2>4. shown' \in [{"vault", "preview", "doctor", "approval"} -> Sessions \cup {None}]
        BY <1>3 DEF SelectProfile, Shape
    <2> QED
        BY <1>3, <2>3, <2>4 DEF SelectProfile, Session, Preview, Screen, Shape
<1>4. CASE QuitLocked \/ LaunchProfile \/ TypeCommand \/ LaunchTyped \/ DismissFailure
    BY <1>4 DEF QuitLocked, LaunchProfile, TypeCommand, LaunchTyped, DismissFailure,
                Session, Preview, Screen, Shape
<1>7. CASE OpenApproval \/ LeaveApproval \/ \E k \in {"doctor", "edit"} : AskSession(k)
    <2>1. form' \in 0..LastStep \cup {None}
        BY <1>0, <1>7 DEF OpenApproval, LeaveApproval, AskSession, Shape
    <2> QED
        BY <1>7, <2>1 DEF OpenApproval, LeaveApproval, AskSession, Session, Preview, Screen, Shape
<1>5. ASSUME NEW e \in BOOLEAN, AnswerApproval(e)
      PROVE  Shape'
    <2>1. form' \in 0..LastStep \cup {None}
        BY <1>0, <1>5 DEF AnswerApproval, Shape
    <2>2. up' \in {up, "panic"}
        BY <1>5 DEF AnswerApproval
    <2> QED
        BY <1>5, <2>1, <2>2 DEF AnswerApproval, Session, Preview, Screen, Shape
<1>6. ASSUME NEW k \in {"commit", "cancel"}, DecideApproval(k)
      PROVE  Shape'
    <2>1. shown' \in [{"vault", "preview", "doctor", "approval"} -> Sessions \cup {None}]
        BY <1>6 DEF DecideApproval, Shape
    <2> QED
        BY <1>6, <2>1 DEF DecideApproval, Session, Preview, Screen, Shape
<1> QED
    BY <1>1, <1>2, <1>3, <1>4, <1>5, <1>6, <1>7 DEF Keys, Lock, LockAndQuit

LEMMA ShapeOfAnswers ==
    ASSUME Shape, NEW t \in Tasks, Answer(t), task' \in [Tasks -> Command \cup {None}]
    PROVE  Shape'
<1>0. MaxGen \in Nat /\ MaxRequests \in Nat
    BY BoundAssumption
<1>1. CASE UnlockStale(t) \/ UnlockRefused(t, FALSE) \/ MutationAnswer(t)
    <2>1. CASE UnlockStale(t) \/ MutationAnswer(t)
        BY <2>1 DEF UnlockStale, MutationAnswer, Session, Preview, Screen, Shape
    <2>2. CASE UnlockRefused(t, FALSE)
        BY <2>2 DEF UnlockRefused, Screen, Preview, Shape
    <2> QED
        BY <1>1, <2>1, <2>2
<1>2. CASE Unlocks(t)
    <2> DEFINE c == [With("recover", 0) EXCEPT !.gen = 0]
    <2>1. (\E open : RefreshPreview(open, gen + 1, {c}, {t})) /\ gen < MaxGen /\ gen' = gen + 1
        BY <1>2, Zenon DEF Unlocks
    <2>2. gen + 1 \in Sessions /\ 0 \in Sessions /\ 0 \in 0..MaxRequests
        BY <1>0, <2>1 DEF Sessions, Shape
    <2>3. New(c, {"recover"})
        BY <2>2, WithType DEF Begun, Kinds
    <2>4. \A d \in {c} : New(d, Begun)
        BY <2>3 DEF New, Begun, Kinds
    <2> HIDE DEF c
    <2>5. preview' \in 0..MaxRequests /\ reused' \in BOOLEAN
        BY <2>1, <2>2, <2>4, NoSlots, RefreshBegins
    <2>6. shown' \in [{"vault", "preview", "doctor", "approval"} -> Sessions \cup {None}]
        BY <1>2, <2>1, <2>2 DEF Unlocks, Shape
    <2> QED
        BY <1>2, <2>1, <2>2, <2>5, <2>6 DEF Unlocks, Screen, Shape
<1>3. CASE PreviewAnswer(t) \/ DoctorAnswer(t) \/ EditAnswer(t)
    <2>1. task[t] \in Command
        BY <1>3 DEF PreviewAnswer, DoctorAnswer, EditAnswer, Handled, Shape
    <2>2. task[t].gen \in Sessions
        BY <2>1 DEF Command
    <2>3. shown' \in [{"vault", "preview", "doctor", "approval"} -> Sessions \cup {None}]
        BY <1>3, <2>2 DEF PreviewAnswer, DoctorAnswer, EditAnswer, Shape
    <2> QED
        BY <1>3, <2>3 DEF PreviewAnswer, DoctorAnswer, EditAnswer, Session, Preview, Screen, Shape
<1>4. CASE StageAnswer(t)
    <2>1. task[t] \in Command
        BY <1>4 DEF StageAnswer, Handled, Shape
    <2>2. task[t].gen \in Sessions
        BY <2>1 DEF Command
    <2>3. shown' \in [{"vault", "preview", "doctor", "approval"} -> Sessions \cup {None}]
        BY <1>4, <2>2 DEF StageAnswer, Shape
    <2>4. form' \in {form, None}
        BY <1>4 DEF StageAnswer
    <2> QED
        BY <1>4, <2>3, <2>4 DEF StageAnswer, Session, Preview, Screen, Shape
<1>5. CASE LaunchStarts(t) \/ LaunchRefused(t, "idle")
    BY <1>5 DEF LaunchStarts, LaunchRefused, Session, Preview, Screen, Shape
<1>6. CASE FinishedAnswer(t)
    <2>1. \E open : RefreshPreview(open, gen, {}, {t})
        BY <1>6, Zenon DEF FinishedAnswer
    <2>2. (\A c \in {} : New(c, Begun)) /\ gen \in Sessions
        BY DEF Shape
    <2>3. preview' \in 0..MaxRequests /\ reused' \in BOOLEAN
        BY <2>1, <2>2, NoSlots, RefreshBegins
    <2>4. shown' \in [{"vault", "preview", "doctor", "approval"} -> Sessions \cup {None}]
        BY <1>6 DEF FinishedAnswer, Shape
    <2>5. failure' \in BOOLEAN /\ phase' \in {"failed", "idle"}
        <3>1. StartupFailure(task[t]) \in BOOLEAN
            BY DEF StartupFailure
        <3> QED
            BY <1>6, <3>1 DEF FinishedAnswer, Shape
    <2> QED
        BY <1>6, <2>3, <2>4, <2>5 DEF FinishedAnswer, Session, Preview, Shape
<1> QED
    BY <1>1, <1>2, <1>3, <1>4, <1>5, <1>6 DEF Answer, UnlockAnswer, LaunchAnswer

LEMMA ShapeStep == Shape /\ [Next]_vars => Shape'
<1> SUFFICES ASSUME Shape, [Next]_vars PROVE Shape'
    OBVIOUS
<1>0. task' \in [Tasks -> Command \cup {None}]
    BY TasksTyped
<1>1. CASE Keys
    BY <1>0, <1>1, ShapeOfKeys
<1>2. ASSUME NEW t \in Tasks, Answer(t) PROVE Shape'
    BY <1>0, <1>2, ShapeOfAnswers
<1>3. ASSUME NEW t \in Tasks, Run(t) \/ ChildEnds(t) PROVE Shape'
    BY <1>0, <1>3 DEF Run, ChildEnds, Session, Preview, Screen, Shape
<1>4. CASE UNCHANGED vars
    BY <1>4 DEF vars, Shape
<1> QED
    BY <1>1, <1>2, <1>3, <1>4 DEF Next
-----------------------------------------------------------------------------
(* What a step that begins commands leaves of the others. *)
LEMMA BeginsFrame ==
    ASSUME Shape, NEW L \in SUBSET Tasks, NEW kinds, Begins(L, kinds)
    PROVE  /\ \A u \in Tasks \ L : task[u] # None => task'[u] = task[u]
           /\ \A u \in Tasks : task'[u] # None =>
                (u \notin L /\ task'[u] = task[u]) \/ New(task'[u], kinds)
BY DEF Begins

(* The vault is closed, and the form and the offered grant with it. *)
LEMMA LockedStep == Shape /\ PreviewSound /\ LockedShowsNothing /\ [Next]_vars => LockedShowsNothing'
<1> SUFFICES ASSUME Shape, PreviewSound, LockedShowsNothing, [Next]_vars
             PROVE  LockedShowsNothing'
    OBVIOUS
<1>1. CASE Lock \/ LockAndQuit
    BY <1>1 DEF Lock, LockAndQuit, LockVault, LockedDisplay, LockedShowsNothing, Shape
<1>2. CASE QuitLocked \/ SubmitPassword
    BY <1>2 DEF QuitLocked, SubmitPassword, Session, Preview, LockedShowsNothing
<1>3. CASE unlocked /\ unlocked'
    BY <1>3 DEF LockedShowsNothing
<1>4. CASE Keys
    <2>1. ASSUME ~(Lock \/ LockAndQuit \/ QuitLocked \/ SubmitPassword), ~LeaveApproval,
                 ~\E k \in {"commit", "cancel"} : DecideApproval(k)
          PROVE  unlocked /\ unlocked'
        <3>1. \/ SelectProfile \/ LaunchProfile \/ TypeCommand \/ LaunchTyped \/ DismissFailure
              \/ OpenApproval \/ (\E k \in {"doctor", "edit"} : AskSession(k))
              \/ \E e \in BOOLEAN : AnswerApproval(e)
            BY <1>4, <2>1, Zenon DEF Keys
        <3>2. unlocked' = unlocked
            BY <3>1 DEF SelectProfile, LaunchProfile, TypeCommand, LaunchTyped,
               DismissFailure, AskSession, OpenApproval, AnswerApproval, Session, Preview
        <3>3. unlocked
            BY <3>1, Zenon DEF SelectProfile, LaunchProfile, TypeCommand, LaunchTyped,
               DismissFailure, AskSession, OpenApproval, AnswerApproval, On, Keyboard
        <3> QED
            BY <3>2, <3>3
    <2>2. ASSUME LeaveApproval \/ \E k \in {"commit", "cancel"} : DecideApproval(k)
          PROVE  LockedShowsNothing'
        <3>1. unlocked' = unlocked /\ up' = up /\ form' \in {form, None}
            BY <2>2 DEF LeaveApproval, DecideApproval, Session, Preview
        <3>2. /\ \A r \in {"vault", "preview", "approval"} : shown'[r] \in {shown[r], None}
              /\ reused' = reused
            BY <2>2 DEF LeaveApproval, DecideApproval, Preview, Shape
        <3> QED
            BY <3>1, <3>2 DEF LockedShowsNothing
    <2> QED
        BY <1>1, <1>2, <1>3, <2>1, <2>2
<1>5. ASSUME NEW t \in Tasks, Answer(t) PROVE LockedShowsNothing'
    <2>1. CASE Unlocks(t)
        BY <2>1 DEF Unlocks, LockedShowsNothing
    <2>2. CASE UnlockStale(t) \/ UnlockRefused(t, FALSE) \/ MutationAnswer(t)
               \/ LaunchRefused(t, "idle")
        BY <2>2 DEF UnlockStale, UnlockRefused, MutationAnswer, LaunchRefused, Session, Preview,
                    LockedShowsNothing
    <2>3. CASE LaunchStarts(t)
        BY <2>3 DEF LaunchStarts, Launchable, FreshSession, Session, Preview, LockedShowsNothing
    <2>4. CASE PreviewAnswer(t) \/ DoctorAnswer(t) \/ FinishedAnswer(t)
        <3>1. unlocked' = unlocked /\ up' = up /\ form' = form
            BY <2>4 DEF PreviewAnswer, DoctorAnswer, FinishedAnswer, Session, Preview
        <3>2. \A r \in {"vault", "approval"} : shown'[r] = shown[r]
            BY <2>4 DEF PreviewAnswer, DoctorAnswer, FinishedAnswer, Shape
        <3>3. \/ shown'["preview"] \in {shown["preview"], None} /\ (reused => reused')
              \/ unlocked' \/ reused'
            <4>1. CASE PreviewAnswer(t) /\ task[t].id = preview
                <5>1. t \in Of({"preview"}) /\ unlocked' = unlocked /\ reused' = reused
                    BY <4>1 DEF PreviewAnswer, Handled, Of, Session, Preview
                <5> QED
                    BY <4>1, <5>1 DEF PreviewSound
            <4>2. CASE PreviewAnswer(t) /\ task[t].id # preview
                BY <4>2 DEF PreviewAnswer, Preview
            <4>3. CASE DoctorAnswer(t)
                BY <4>3 DEF DoctorAnswer, Preview, Shape
            <4>4. CASE FinishedAnswer(t)
                BY <4>4 DEF FinishedAnswer, RefreshPreview, Shape
            <4> QED
                BY <2>4, <4>1, <4>2, <4>3, <4>4
        <3> QED
            BY <3>1, <3>2, <3>3 DEF LockedShowsNothing
    <2>5. CASE EditAnswer(t)
        BY <2>5 DEF EditAnswer, FreshSession, Session, Preview, LockedShowsNothing
    <2>6. CASE StageAnswer(t)
        BY <2>6 DEF StageAnswer, FreshSession, Session, Preview, LockedShowsNothing
    <2> QED
        BY <1>5, <2>1, <2>2, <2>3, <2>4, <2>5, <2>6 DEF Answer, UnlockAnswer, LaunchAnswer
<1>6. ASSUME NEW t \in Tasks, Run(t) \/ ChildEnds(t) PROVE LockedShowsNothing'
    BY <1>6 DEF Run, ChildEnds, Session, Preview, LockedShowsNothing
<1>7. CASE UNCHANGED vars
    BY <1>7 DEF vars, LockedShowsNothing
<1> QED
    BY <1>4, <1>5, <1>6, <1>7 DEF Next

(* What is asked of the unlocks holds of fewer of them, and of none that   *)
(* are new, while the session stays the same.                              *)
LEMMA FewerUnlocks ==
    ASSUME UnlockSound,
           \A u \in Of({"unlock"})' : /\ u \in Of({"unlock"})
                                      /\ task'[u].id = task[u].id /\ task'[u].gen = task[u].gen,
           unlockReq' = unlockReq,
           Newest' = {} \/ (gen' = gen /\ unlocked' = unlocked)
    PROVE  UnlockSound'
<1>1. \A u \in Of({"unlock"})' : task'[u].id <= unlockReq'
    BY DEF UnlockSound
<1>2. Newest' \subseteq Newest
    BY DEF Newest
<1>3. ASSUME NEW t \in Newest'
      PROVE  task'[t].gen = gen' /\ ~unlocked' /\ Newest' = {t}
    <2>1. t \in Newest /\ t \in Of({"unlock"})' /\ gen' = gen /\ unlocked' = unlocked
        BY <1>2, <1>3 DEF Newest
    <2>2. task[t].gen = gen /\ ~unlocked /\ Newest = {t}
        BY <2>1 DEF UnlockSound
    <2> QED
        BY <1>2, <1>3, <2>1, <2>2
<1> QED
    BY <1>1, <1>3 DEF UnlockSound

(* Steps that start no unlock leave the ones there were, or drop them. *)
LEMMA NoNewUnlocks ==
    ASSUME Shape, NEW L \in SUBSET Tasks, Begins(L, Begun)
    PROVE  \A u \in Of({"unlock"})' : u \in Of({"unlock"}) /\ u \notin L /\ task'[u] = task[u]
BY BeginsFrame DEF Of, New, Begun

LEMMA UnlockStep == Shape /\ UnlockSound /\ [Next]_vars => UnlockSound'
<1> SUFFICES ASSUME Shape, UnlockSound, [Next]_vars PROVE UnlockSound'
    OBVIOUS
<1>1. CASE Lock \/ LockAndQuit
    <2>1. task' = task /\ unlockReq' = unlockReq + 1 /\ unlockReq \in Nat
        BY <1>1 DEF Lock, LockAndQuit, LockVault, Shape
    <2>2. \A u \in Of({"unlock"}) : task[u] \in Command
        BY NoneAssumption DEF Of, Shape
    <2>3. \A u \in Of({"unlock"}) : task[u].id \in Nat /\ task[u].id <= unlockReq
        BY <2>2 DEF UnlockSound, Command
    <2>4. \A u \in Of({"unlock"})' : task'[u].id < unlockReq' /\ task'[u].id \in Nat
        BY <2>1, <2>3 DEF Of
    <2>5. \A u \in Of({"unlock"})' : task'[u].id <= unlockReq' /\ task'[u].id # unlockReq'
        BY <2>1, <2>4
    <2>6. Newest' = {}
        BY <2>5 DEF Newest
    <2> QED
        BY <2>5, <2>6 DEF UnlockSound
<1>2. CASE SubmitPassword
    <2> DEFINE c == With("unlock", unlockReq + 1)
    <2>1. c.id = unlockReq + 1 /\ c.gen = gen /\ unlockReq \in Nat
        BY <1>2, SubmitBegins DEF Shape
    <2>2. PICK u \in Tasks : /\ task[u] = None /\ task'[u] = c
                             /\ \A v \in Tasks \ {u} : task'[v] = task[v]
        BY <1>2, SubmitBegins
    <2> HIDE DEF c
    <2>3. \A v \in Of({"unlock"}) : task[v] \in Command
        BY NoneAssumption DEF Of, Shape
    <2>4. \A v \in Of({"unlock"}) : task[v].id \in Nat /\ task[v].id <= unlockReq
        BY <2>3 DEF UnlockSound, Command
    <2>5. unlockReq' = unlockReq + 1 /\ gen' = gen /\ unlocked' = unlocked /\ ~unlocked
        BY <1>2 DEF SubmitPassword
    <2>6. \A v \in Of({"unlock"})' \ {u} : task'[v].id \in Nat /\ task'[v].id < unlockReq'
        BY <2>1, <2>2, <2>4, <2>5 DEF Of
    <2>7. Newest' \subseteq {u}
        BY <2>1, <2>5, <2>6 DEF Newest
    <2>8. \A v \in Of({"unlock"})' : task'[v].id <= unlockReq'
        BY <2>1, <2>2, <2>5, <2>6
    <2> QED
        BY <2>1, <2>2, <2>5, <2>7, <2>8 DEF UnlockSound
<1>3. CASE Keys
    <2>1. ASSUME ~(Lock \/ LockAndQuit), ~SubmitPassword
          PROVE  UnlockSound'
        <3>1. Begins({}, Begun)
            BY <1>3, <2>1, KeysBegin
        <3>2. \A u \in Of({"unlock"})' : u \in Of({"unlock"}) /\ task'[u] = task[u]
            BY <3>1, NoSlots, NoNewUnlocks
        <3>3. unlockReq' = unlockReq /\ gen' = gen /\ unlocked' = unlocked
            BY <1>3, <2>1 DEF Keys, QuitLocked, SelectProfile, LaunchProfile, TypeCommand,
               LaunchTyped, DismissFailure, AskSession, OpenApproval, AnswerApproval,
               LeaveApproval, DecideApproval, Session, Preview
        <3> QED
            BY <3>2, <3>3, FewerUnlocks
    <2> QED
        BY <1>1, <1>2, <2>1
<1>4. ASSUME NEW t \in Tasks, Answer(t) PROVE UnlockSound'
    <2>1. CASE LaunchStarts(t)
        <3>1. \A u \in Of({"unlock"})' : u \in Of({"unlock"}) /\ task'[u] = task[u]
            BY <2>1, LaunchStartsType DEF Of
        <3>2. unlockReq' = unlockReq /\ gen' = gen /\ unlocked' = unlocked
            BY <2>1 DEF LaunchStarts, Session, Preview
        <3> QED
            BY <3>1, <3>2, FewerUnlocks
    <2>2. CASE Begins({t}, Begun)
        <3>1. \A u \in Of({"unlock"})' : u \in Of({"unlock"}) /\ u # t /\ task'[u] = task[u]
            BY <2>2, NoSlots, NoNewUnlocks
        <3>2. CASE Unlocks(t)
            <4>1. t \in Newest /\ unlockReq' = unlockReq
                BY <3>2 DEF Unlocks, Handled, FreshUnlock, Newest, Of
            <4>2. Newest = {t}
                BY <4>1 DEF UnlockSound
            <4>3. Newest' = {}
                BY <3>1, <4>1, <4>2 DEF Newest
            <4> QED
                BY <3>1, <4>1, <4>3, FewerUnlocks
        <3>3. CASE ~Unlocks(t)
            <4>1. unlockReq' = unlockReq /\ gen' = gen /\ unlocked' = unlocked
                BY <1>4, <3>3 DEF Answer, UnlockAnswer, UnlockStale, UnlockRefused,
                   PreviewAnswer, DoctorAnswer, EditAnswer, StageAnswer, MutationAnswer,
                   LaunchAnswer, LaunchStarts, LaunchRefused, FinishedAnswer, Session, Preview
            <4> QED
                BY <3>1, <4>1, FewerUnlocks
        <3> QED
            BY <3>2, <3>3
    <2> QED
        BY <1>4, <2>1, <2>2, AnswersBegin
<1>5. ASSUME NEW t \in Tasks, Run(t) \/ ChildEnds(t) PROVE UnlockSound'
    <2>1. \A u \in Of({"unlock"})' : /\ u \in Of({"unlock"})
                                      /\ task'[u].id = task[u].id /\ task'[u].gen = task[u].gen
        <3>1. CASE Run(t)
            <4>1. /\ task[t] # None /\ task'[t].kind = task[t].kind
                  /\ task'[t].id = task[t].id /\ task'[t].gen = task[t].gen
                  /\ \A u \in Tasks \ {t} : task'[u] = task[u]
                BY <3>1, RunType, NoneAssumption
            <4> QED
                BY <4>1 DEF Of
        <3>2. CASE ChildEnds(t)
            BY <3>2, ChildEndsType DEF Of
        <3> QED
            BY <1>5, <3>1, <3>2
    <2>2. unlockReq' = unlockReq /\ gen' = gen /\ unlocked' = unlocked
        BY <1>5 DEF Run, ChildEnds, Session, Preview
    <2> QED
        BY <2>1, <2>2, FewerUnlocks
<1>6. CASE UNCHANGED vars
    <2>1. Of({"unlock"})' = Of({"unlock"}) /\ task' = task
        BY <1>6 DEF vars, Of
    <2> QED
        BY <1>6, <2>1, FewerUnlocks DEF vars
<1> QED
    BY <1>3, <1>4, <1>5, <1>6 DEF Next

(* What is asked of previews holds of fewer of them in the same session,   *)
(* and when the number goes on.                                            *)
LEMMA FewerPreviews ==
    ASSUME Shape, PreviewSound, reused' = reused,
           \A u \in Of({"preview"})' : /\ u \in Of({"preview"})
                                       /\ task'[u].id = task[u].id /\ task'[u].gen = task[u].gen,
           \/ preview' = preview + 1
           \/ preview' = preview /\ gen' = gen /\ unlocked' = unlocked
    PROVE  PreviewSound'
<1>1. preview \in Nat
    BY DEF Shape
<1>2. \A u \in Of({"preview"}) : task[u] \in Command
    BY NoneAssumption DEF Of, Shape
<1>3. \A u \in Of({"preview"}) : task[u].id \in Nat
    BY <1>2 DEF Command
<1> QED
    BY <1>1, <1>3 DEF PreviewSound

LEMMA NoNewPreviews ==
    ASSUME NEW C, NEW L \in SUBSET Tasks, Start(C, L), \A c \in C : c.kind # "preview"
    PROVE  \A u \in Of({"preview"})' : u \in Of({"preview"}) /\ task'[u] = task[u]
BY StartTakesFreeSlots DEF Of

LEMMA RefreshSound ==
    ASSUME Shape, PreviewSound, NEW open, NEW s \in Sessions, NEW others, NEW L \in SUBSET Tasks,
           RefreshPreview(open, s, others, L), \A c \in others : c.kind # "preview",
           open => unlocked' /\ gen' = s
    PROVE  PreviewSound'
<1> DEFINE c == [With("preview", preview + 1) EXCEPT !.gen = s]
<1>0. preview \in Nat /\ c.kind = "preview" /\ c.id = preview + 1 /\ c.gen = s
    BY DEF Shape, With
<1>1. CASE preview' = 0 /\ reused' = (reused \/ Of({"preview"}) # {}) /\ Start(others, L)
    <2>1. CASE Of({"preview"}) = {}
        <3>1. Of({"preview"})' = {}
            BY <1>1, <2>1, NoNewPreviews
        <3> QED
            BY <3>1 DEF PreviewSound
    <2>2. CASE Of({"preview"}) # {}
        BY <1>1, <2>2 DEF PreviewSound
    <2> QED
        BY <2>1, <2>2
<1>2. CASE preview' = preview + 1 /\ reused' = reused /\ Start(others, L)
    BY <1>2, NoNewPreviews, FewerPreviews
<1>3. CASE /\ open /\ preview' = preview + 1 /\ reused' = reused
           /\ Start(others \cup {c}, L)
    <2> HIDE DEF c
    <2>1. \A u \in Of({"preview"})' :
            task'[u] = c \/ (u \in Of({"preview"}) /\ task'[u] = task[u])
        BY <1>3, StartTakesFreeSlots DEF Of
    <2>2. \A u \in Of({"preview"}) : task[u] \in Command
        BY NoneAssumption DEF Of, Shape
    <2>3. \A u \in Of({"preview"}) : task[u].id \in Nat
        BY <2>2 DEF Command
    <2> QED
        BY <1>0, <1>3, <2>1, <2>3 DEF PreviewSound
<1> QED
    BY <1>1, <1>2, <1>3 DEF RefreshPreview

LEMMA PreviewStep == Shape /\ PreviewSound /\ [Next]_vars => PreviewSound'
<1> SUFFICES ASSUME Shape, PreviewSound, [Next]_vars PROVE PreviewSound'
    OBVIOUS
<1>s. gen \in Sessions /\ {} \in SUBSET Tasks /\ (gen < MaxGen => gen + 1 \in Sessions)
    BY BoundAssumption DEF Shape, Sessions
<1> DEFINE Same == preview' = preview /\ reused' = reused /\ gen' = gen /\ unlocked' = unlocked
<1>k. ASSUME Same, NEW C, NEW L \in SUBSET Tasks, Start(C, L), \A c \in C : c.kind # "preview"
      PROVE  PreviewSound'
    BY <1>k, NoNewPreviews, FewerPreviews
<1>t. ASSUME task' = task, reused' = reused,
             Same \/ preview' = preview + 1
      PROVE  PreviewSound'
    <2>1. Of({"preview"})' = Of({"preview"})
        BY <1>t DEF Of
    <2> QED
        BY <1>t, <2>1, FewerPreviews
<1>d. ASSUME Same, NEW t \in Tasks, Drop(t) PROVE PreviewSound'
    <2>1. \A u \in Of({"preview"})' : u \in Of({"preview"}) /\ task'[u] = task[u]
        BY <1>d DEF Drop, Of, Shape
    <2> QED
        BY <1>d, <2>1, FewerPreviews
<1>w. \A k, i, s : With(k, i).kind = k /\ [With(k, i) EXCEPT !.gen = s].kind = k
    BY DEF With
<1>1. CASE Lock \/ LockAndQuit
    BY <1>1, <1>t DEF Lock, LockAndQuit, LockVault
<1>2. CASE QuitLocked \/ TypeCommand \/ DismissFailure \/ OpenApproval \/ LeaveApproval
    BY <1>2, <1>t DEF QuitLocked, TypeCommand, DismissFailure, OpenApproval, LeaveApproval,
       Session, Preview
<1>3. CASE SubmitPassword
    <2>1. Same /\ Start({With("unlock", unlockReq + 1)}, {})
        BY <1>3 DEF SubmitPassword, Preview
    <2> QED
        BY <1>s, <1>w, <1>k, <2>1
<1>4. CASE LaunchProfile \/ LaunchTyped
    <2>1. Same /\ Start({With("launch", 0)}, {})
        BY <1>4 DEF LaunchProfile, LaunchTyped, Session, Preview
    <2> QED
        BY <1>s, <1>w, <1>k, <2>1
<1>5. ASSUME NEW k \in {"doctor", "edit"}, AskSession(k) PROVE PreviewSound'
    <2>1. Same /\ Start({With(k, 0)}, {})
        BY <1>5 DEF AskSession, Session, Preview
    <2> QED
        BY <1>s, <1>w, <1>k, <2>1
<1>6. ASSUME NEW e \in BOOLEAN, AnswerApproval(e) PROVE PreviewSound'
    <2>1. Same /\ (task' = task \/ Start({With("stage", 0)}, {}))
        BY <1>6 DEF AnswerApproval, Session, Preview
    <2> QED
        BY <1>s, <1>w, <1>k, <1>t, <2>1
<1>7. ASSUME NEW k \in {"commit", "cancel"}, DecideApproval(k) PROVE PreviewSound'
    <2> DEFINE c == [With(k, 0) EXCEPT !.gen = IF k = "commit" THEN shown["approval"] ELSE 0]
    <2>1. Same /\ Start({c}, {})
        BY <1>7 DEF DecideApproval, Session, Preview
    <2>2. c.kind = k
        BY DEF With
    <2>3. \A d \in {c} : d.kind # "preview"
        BY <2>2
    <2> HIDE DEF c
    <2>4. \E C : Start(C, {}) /\ \A d \in C : d.kind # "preview"
        BY <2>1, <2>3
    <2> QED
        BY <1>s, <2>1, <2>4, <1>k
<1>8. CASE SelectProfile
    <2>1. \E open : RefreshPreview(open, gen, {}, {}) /\ (open => unlocked' /\ gen' = gen)
        BY <1>8, Zenon DEF SelectProfile, On, Keyboard, Session
    <2>2. \A c \in {} : c.kind # "preview"
        OBVIOUS
    <2> HIDE DEF Same
    <2> QED
        BY <1>s, <2>1, <2>2, RefreshSound
<1>9. CASE Keys
    BY <1>1, <1>2, <1>3, <1>4, <1>5, <1>6, <1>7, <1>8, <1>9 DEF Keys
<1>10. ASSUME NEW t \in Tasks, Answer(t) PROVE PreviewSound'
    <2>1. CASE Unlocks(t)
        <3> DEFINE c == [With("recover", 0) EXCEPT !.gen = 0]
        <3>1. \E open : /\ RefreshPreview(open, gen + 1, {c}, {t})
                        /\ open => unlocked' /\ gen' = gen + 1
            BY <2>1, Zenon DEF Unlocks
        <3>2. \A d \in {c} : d.kind # "preview"
            BY <1>w
        <3>3. {t} \in SUBSET Tasks /\ gen + 1 \in Sessions
            BY <1>s, <2>1 DEF Unlocks
        <3> HIDE DEF c, Same
        <3> QED
            BY <3>1, <3>2, <3>3, RefreshSound
    <2>2. CASE FinishedAnswer(t)
        <3>1. RefreshPreview(unlocked, gen, {}, {t}) /\ gen' = gen /\ unlocked' = unlocked
            BY <2>2 DEF FinishedAnswer, Session
        <3> QED
            BY <1>s, <3>1, RefreshSound
    <2>3. CASE StageAnswer(t)
        <3>1. Same /\ (Drop(t) \/ Start({[With("cancel", 0) EXCEPT !.gen = 0]}, {t}))
            BY <2>3 DEF StageAnswer, Session, Preview
        <3>2. {t} \in SUBSET Tasks
            OBVIOUS
        <3> DEFINE c == [With("cancel", 0) EXCEPT !.gen = 0]
        <3>3. \A d \in {c} : d.kind # "preview"
            BY <1>w
        <3>4. CASE Drop(t)
            BY <1>d, <3>1, <3>4
        <3>5. CASE Start({c}, {t})
            <4> HIDE DEF c
            <4>1. \E C : Start(C, {t}) /\ \A d \in C : d.kind # "preview"
                BY <3>1, <3>3, <3>5
            <4> QED
                BY <1>k, <3>1, <3>2, <4>1
        <3> QED
            BY <3>1, <3>4, <3>5
    <2>4. CASE LaunchStarts(t)
        <3>1. \A u \in Of({"preview"})' : u \in Of({"preview"}) /\ task'[u] = task[u]
            BY <2>4, LaunchStartsType DEF Of
        <3>2. Same
            BY <2>4 DEF LaunchStarts, Session, Preview
        <3> QED
            BY <3>1, <3>2, FewerPreviews
    <2>5. CASE \/ UnlockStale(t) \/ UnlockRefused(t, FALSE) \/ PreviewAnswer(t) \/ DoctorAnswer(t)
               \/ EditAnswer(t) \/ MutationAnswer(t) \/ LaunchRefused(t, "idle")
        <3>1. Same /\ Drop(t)
            BY <2>5 DEF UnlockStale, UnlockRefused, PreviewAnswer, DoctorAnswer, EditAnswer,
               MutationAnswer, LaunchRefused, Session, Preview
        <3> QED
            BY <1>d, <3>1
    <2> QED
        BY <1>10, <2>1, <2>2, <2>3, <2>4, <2>5 DEF Answer, UnlockAnswer, LaunchAnswer
<1>11. ASSUME NEW t \in Tasks, Run(t) \/ ChildEnds(t) PROVE PreviewSound'
    <2>1. \A u \in Of({"preview"})' : /\ u \in Of({"preview"})
                                      /\ task'[u].id = task[u].id /\ task'[u].gen = task[u].gen
        <3>1. CASE Run(t)
            <4>1. /\ task[t] # None /\ task'[t].kind = task[t].kind
                  /\ task'[t].id = task[t].id /\ task'[t].gen = task[t].gen
                  /\ \A u \in Tasks \ {t} : task'[u] = task[u]
                BY <3>1, RunType, NoneAssumption
            <4> QED
                BY <4>1 DEF Of
        <3>2. CASE ChildEnds(t)
            BY <3>2, ChildEndsType DEF Of
        <3> QED
            BY <1>11, <3>1, <3>2
    <2>2. Same
        BY <1>11 DEF Run, ChildEnds, Session, Preview
    <2> QED
        BY <2>1, <2>2, FewerPreviews
<1>12. CASE UNCHANGED vars
    BY <1>12, <1>t DEF vars
<1> QED
    BY <1>9, <1>10, <1>11, <1>12 DEF Next

(* Nothing takes away a command before its answer. *)
LEMMA WaitStep == Shape /\ WaitsEnd /\ [Next]_vars => WaitsEnd'
<1> SUFFICES ASSUME Shape, WaitsEnd, [Next]_vars PROVE WaitsEnd'
    OBVIOUS
<1> DEFINE Kept(k) == \A u \in Of({k}) : u \in Of({k})' /\ task'[u].id = task[u].id
<1>0. ASSUME Kept("unlock"), Kept("launch"), unlockReq' = unlockReq,
             unlocking' => unlocking, phase' = "preparing" => phase = "preparing"
      PROVE  WaitsEnd'
    BY <1>0 DEF WaitsEnd, FreshUnlock
<1>1. ASSUME NEW u \in Tasks, NEW k \in Kinds, u \in Of({k}), task'[u] = task[u]
      PROVE  u \in Of({k})' /\ task'[u].id = task[u].id
    BY <1>1 DEF Of
<1>2. CASE Lock \/ LockAndQuit
    BY <1>2 DEF Lock, LockAndQuit, LockVault, WaitsEnd
<1>3. CASE SubmitPassword
    <2>1. PICK u \in Tasks : /\ task[u] = None /\ task'[u] = With("unlock", unlockReq + 1)
                             /\ \A v \in Tasks \ {u} : task'[v] = task[v]
        BY <1>3, SubmitBegins
    <2>2. /\ New(With("unlock", unlockReq + 1), {"unlock"})
          /\ With("unlock", unlockReq + 1).id = unlockReq + 1
        BY <1>3, SubmitBegins
    <2>3. unlockReq' = unlockReq + 1 /\ phase' = phase /\ unlockReq \in Nat
        BY <1>3 DEF SubmitPassword, Shape
    <2>4. u \in Of({"unlock"})' /\ task'[u].id = unlockReq' /\ task'[u].id # 0
        BY <2>1, <2>2, <2>3, NoneAssumption DEF Of, New
    <2>5. Kept("launch")
        BY <2>1 DEF Of
    <2> QED
        BY <2>3, <2>4, <2>5 DEF WaitsEnd, FreshUnlock
<1>4. CASE LaunchProfile
    <2> DEFINE c == With("launch", 0)
    <2>1. Start({c}, {}) /\ unlockReq' = unlockReq /\ unlocking' = unlocking
        BY <1>4 DEF LaunchProfile, Session, Preview
    <2>2. New(c, {"launch"})
        <3>1. 0 \in 0..MaxRequests /\ gen \in Sessions /\ "launch" \in Begun
            BY BoundAssumption DEF Begun, Kinds, Shape
        <3> QED
            BY <3>1, WithType
    <2> HIDE DEF c
    <2>3. \E u \in Tasks : task'[u] = c
        BY <2>1, NoSlots, StartTakesFreeSlots
    <2>4. Of({"launch"})' # {}
        BY <2>2, <2>3, NoneAssumption DEF Of, New
    <2>5. Begins({}, {"launch"})
        BY <2>1, <2>2, NoSlots, StartBegins
    <2>6. Kept("unlock")
        BY <2>5, BeginsFrame, NoSlots DEF Of
    <2> QED
        BY <2>1, <2>4, <2>6 DEF WaitsEnd, FreshUnlock
<1>5. CASE Keys
    <2>1. ASSUME ~(Lock \/ LockAndQuit), ~SubmitPassword, ~LaunchProfile
          PROVE  WaitsEnd'
        <3>1. Begins({}, Begun)
            BY <1>5, <2>1, KeysBegin
        <3>2. Kept("unlock") /\ Kept("launch")
            BY <3>1, BeginsFrame, NoSlots DEF Of
        <3>3. /\ unlockReq' = unlockReq /\ unlocking' = unlocking
              /\ phase' = "preparing" => phase = "preparing"
            BY <1>5, <2>1 DEF Keys, QuitLocked, SelectProfile, TypeCommand,
               LaunchTyped, DismissFailure, AskSession, OpenApproval, AnswerApproval,
               LeaveApproval, DecideApproval, Session, Preview
        <3> QED
            BY <1>0, <3>2, <3>3
    <2> QED
        BY <1>2, <1>3, <1>4, <2>1
<1>6. ASSUME NEW t \in Tasks, Answer(t) PROVE WaitsEnd'
    <2>1. CASE LaunchStarts(t) \/ LaunchRefused(t, "idle")
        <3>1. /\ t \notin Of({"unlock"}) /\ phase' # "preparing"
              /\ unlockReq' = unlockReq /\ unlocking' = unlocking
            BY <2>1 DEF LaunchStarts, LaunchRefused, Handled, Session, Preview, Of
        <3>2. \A u \in Tasks \ {t} : task'[u] = task[u]
            <4>1. CASE LaunchStarts(t)
                BY <4>1, LaunchStartsType
            <4>2. CASE LaunchRefused(t, "idle")
                BY <4>2 DEF LaunchRefused, Drop, Shape
            <4> QED
                BY <2>1, <4>1, <4>2
        <3>3. Kept("unlock")
            BY <3>1, <3>2 DEF Of
        <3> QED
            BY <3>1, <3>3 DEF WaitsEnd, FreshUnlock
    <2>2. CASE ~(LaunchStarts(t) \/ LaunchRefused(t, "idle"))
        <3>1. Begins({t}, Begun)
            BY <1>6, <2>2, AnswersBegin
        <3>2. \A u \in Tasks \ {t} : task[u] # None => task'[u] = task[u]
            BY <3>1, BeginsFrame, NoSlots
        <3>3. t \notin Of({"launch"})
            BY <1>6, <2>2 DEF Answer, UnlockAnswer, UnlockStale, UnlockRefused, Unlocks,
               PreviewAnswer, DoctorAnswer, EditAnswer, StageAnswer, MutationAnswer,
               LaunchAnswer, FinishedAnswer, Handled, Of
        <3>4. Kept("launch")
            BY <3>2, <3>3 DEF Of
        <3>5. phase' = phase \/ phase' # "preparing"
            BY <1>6, <2>2 DEF Answer, UnlockAnswer, UnlockStale, UnlockRefused, Unlocks,
               PreviewAnswer, DoctorAnswer, EditAnswer, StageAnswer, MutationAnswer,
               LaunchAnswer, FinishedAnswer, Handled
        <3>6. unlockReq' = unlockReq
            BY <1>6, <2>2 DEF Answer, UnlockAnswer, UnlockStale, UnlockRefused, Unlocks,
               PreviewAnswer, DoctorAnswer, EditAnswer, StageAnswer, MutationAnswer,
               LaunchAnswer, FinishedAnswer, Handled, Session, Preview
        <3>7. CASE Unlocks(t) \/ UnlockRefused(t, FALSE)
            <4>1. ~unlocking'
                BY <3>7, Zenon DEF Unlocks, UnlockRefused
            <4> QED
                BY <3>4, <3>5, <4>1 DEF WaitsEnd
        <3>8. CASE ~(Unlocks(t) \/ UnlockRefused(t, FALSE))
            <4>1. unlocking' = unlocking
                BY <1>6, <2>2, <3>8 DEF Answer, UnlockAnswer, UnlockStale,
                   PreviewAnswer, DoctorAnswer, EditAnswer, StageAnswer, MutationAnswer,
                   LaunchAnswer, FinishedAnswer, Handled, Session, Preview
            <4>2. ASSUME NEW u \in Of({"unlock"}), FreshUnlock(task[u])
                  PROVE  u # t
                BY <1>6, <2>2, <3>8, <4>2 DEF Answer, UnlockAnswer, UnlockStale,
                   PreviewAnswer, DoctorAnswer, EditAnswer, StageAnswer, MutationAnswer,
                   LaunchAnswer, FinishedAnswer, Handled, Of
            <4>3. ASSUME NEW u \in Of({"unlock"}), FreshUnlock(task[u])
                  PROVE  u \in Of({"unlock"})' /\ FreshUnlock(task[u])'
                BY <3>2, <3>6, <4>2, <4>3 DEF Of, FreshUnlock
            <4> QED
                BY <3>4, <3>5, <4>1, <4>3 DEF WaitsEnd
        <3> QED
            BY <3>7, <3>8
    <2> QED
        BY <2>1, <2>2
<1>7. ASSUME NEW t \in Tasks, Run(t) \/ ChildEnds(t) PROVE WaitsEnd'
    <2>1. Kept("unlock") /\ Kept("launch")
        <3>1. CASE Run(t)
            <4>1. /\ task'[t] # None /\ task'[t].kind = task[t].kind /\ task'[t].id = task[t].id
                  /\ \A u \in Tasks \ {t} : task'[u] = task[u]
                BY <3>1, RunType, NoneAssumption
            <4> QED
                BY <4>1 DEF Of
        <3>2. CASE ChildEnds(t)
            BY <3>2, ChildEndsType DEF Of
        <3> QED
            BY <1>7, <3>1, <3>2
    <2>2. unlockReq' = unlockReq /\ unlocking' = unlocking /\ phase' = phase
        BY <1>7 DEF Run, ChildEnds, Session, Preview
    <2> QED
        BY <1>0, <2>1, <2>2
<1>8. CASE UNCHANGED vars
    <2>1. Kept("unlock") /\ Kept("launch")
        BY <1>8 DEF vars, Of
    <2> QED
        BY <1>0, <1>8, <2>1 DEF vars
<1> QED
    BY <1>5, <1>6, <1>7, <1>8 DEF Next
-----------------------------------------------------------------------------
(* Commands that begin or end elsewhere leave the overlays in place alone. *)
LEMMA SameHeld ==
    ASSUME Shape, NEW L \in SUBSET Tasks, NEW kinds, Begins(L, kinds),
           "child" \notin kinds, L \cap Held = {}
    PROVE  Held' = Held
<1>1. ASSUME NEW u \in Tasks, u \in Held PROVE u \in Held'
    BY <1>1, BeginsFrame DEF Held, Of
<1>2. ASSUME NEW u \in Tasks, u \in Held' PROVE u \in Held
    BY <1>2, BeginsFrame DEF Held, Of, New
<1> QED
    BY <1>1, <1>2 DEF Held, Of

LEMMA HeldFinite == IsFiniteSet(Held) /\ IsFiniteSet(Held')
<1>1. Held \subseteq Tasks /\ Held' \subseteq Tasks
    BY DEF Held, Of
<1> QED
    BY <1>1, TaskAssumption, FS_Subset

LEMMA HeldStep == Shape /\ OverlayInv /\ [Next]_vars => OverlayInv'
<1> SUFFICES ASSUME Shape, OverlayInv, [Next]_vars PROVE OverlayInv'
    OBVIOUS
<1>0. ASSUME Held' = Held, overlays' = overlays PROVE OverlayInv'
    BY <1>0 DEF OverlayInv
<1>a. ASSUME NEW t \in Tasks, t \in Held, Held' = Held \ {t}, overlays' = overlays - 1
      PROVE  OverlayInv'
    BY <1>a, HeldFinite, FS_RemoveElement DEF OverlayInv
<1>1. CASE Keys
    <2>1. overlays' = overlays
        BY <1>1 DEF Keys, Lock, LockAndQuit, LockVault, QuitLocked, SubmitPassword, SelectProfile,
           LaunchProfile, TypeCommand, LaunchTyped, DismissFailure, AskSession, OpenApproval,
           AnswerApproval, LeaveApproval, DecideApproval
    <2>2. Begins({}, {"unlock"}) \/ Begins({}, Begun)
        BY <1>1, KeysBegin, SubmitBegins
    <2>3. "child" \notin {"unlock"} /\ "child" \notin Begun
        BY DEF Begun
    <2>4. Held' = Held
        BY <2>2, <2>3, NoSlots, SameHeld
    <2> QED
        BY <1>0, <2>1, <2>4
<1>2. ASSUME NEW t \in Tasks, Answer(t) PROVE OverlayInv'
    <2>1. CASE LaunchStarts(t)
        <3>1. Held' = Held
            BY <2>1, LaunchStartsType DEF Held, Of
        <3> QED
            BY <1>0, <2>1, <3>1 DEF LaunchStarts
    <2>2. CASE LaunchRefused(t, "idle")
        <3>1. /\ task[t] # None /\ task[t].kind = "launch"
              /\ task' = [task EXCEPT ![t] = None] /\ task \in [Tasks -> Command \cup {None}]
              /\ overlays' = IF task[t].at = "done" THEN overlays - 1 ELSE overlays
            BY <2>2 DEF LaunchRefused, Handled, Drop, Cleanup, Shape
        <3>2. Held' = Held \ {t}
            BY <3>1 DEF Held, Of
        <3>3. CASE task[t].at = "done"
            <4>1. t \in Held /\ overlays' = overlays - 1
                BY <3>1, <3>3 DEF Held, Of
            <4> QED
                BY <1>a, <3>2, <4>1
        <3>4. CASE task[t].at # "done"
            <4>1. t \notin Held /\ overlays' = overlays
                BY <3>1, <3>4 DEF Held, Of
            <4> QED
                BY <1>0, <3>2, <4>1
        <3> QED
            BY <3>3, <3>4
    <2>3. CASE ~(LaunchStarts(t) \/ LaunchRefused(t, "idle"))
        <3>1. overlays' = overlays /\ t \notin Held
            BY <1>2, <2>3 DEF Answer, UnlockAnswer, UnlockStale, UnlockRefused, Unlocks,
               PreviewAnswer, DoctorAnswer, EditAnswer, StageAnswer, MutationAnswer,
               LaunchAnswer, FinishedAnswer, Handled, Held, Of
        <3>2. Begins({t}, Begun) /\ "child" \notin Begun /\ {t} \cap Held = {}
            BY <1>2, <2>3, <3>1, AnswersBegin DEF Begun
        <3>3. Held' = Held
            BY <3>2, NoSlots, SameHeld
        <3> QED
            BY <1>0, <3>1, <3>3
    <2> QED
        BY <2>1, <2>2, <2>3
<1>3. ASSUME NEW t \in Tasks, Run(t) PROVE OverlayInv'
    <2>1. /\ task[t] # None /\ task[t].at = "running" /\ task[t].kind # "child"
          /\ task'[t] # None /\ task'[t].kind = task[t].kind
          /\ \A u \in Tasks \ {t} : task'[u] = task[u]
          /\ overlays' = IF task'[t].at = "done" /\ task[t].kind = "launch"
                         THEN overlays + 1 ELSE overlays
        BY <1>3, RunType, NoneAssumption
    <2>2. t \notin Held
        BY <2>1 DEF Held, Of
    <2>3. CASE task'[t].at = "done" /\ task[t].kind = "launch"
        <3>1. Held' = Held \cup {t}
            BY <2>1, <2>3 DEF Held, Of
        <3>2. Cardinality(Held') = Cardinality(Held) + 1
            BY <2>2, <3>1, HeldFinite, FS_AddElement
        <3> QED
            BY <2>1, <2>3, <3>2 DEF OverlayInv
    <2>4. CASE ~(task'[t].at = "done" /\ task[t].kind = "launch")
        <3>1. Held' = Held
            BY <2>1, <2>4 DEF Held, Of
        <3> QED
            BY <1>0, <2>1, <2>4, <3>1
    <2> QED
        BY <2>3, <2>4
<1>4. ASSUME NEW t \in Tasks, ChildEnds(t) PROVE OverlayInv'
    <2>1. t \in Held /\ Held' = Held \ {t}
        BY <1>4, ChildEndsType DEF Held, Of
    <2> QED
        BY <1>4, <1>a, <2>1 DEF ChildEnds
<1>5. CASE UNCHANGED vars
    <2>1. Held' = Held
        BY <1>5 DEF vars, Held, Of
    <2> QED
        BY <1>0, <1>5, <2>1 DEF vars
<1> QED
    BY <1>1, <1>2, <1>3, <1>4, <1>5 DEF Next

(* The answers that change what is shown, open the vault or start a child. *)
LEMMA FencedStep ==
    ASSUME Shape, UnlockSound, PreviewSound, [Next]_vars
    PROVE  /\ ~unlocked /\ unlocked' =>
               \E t \in Of({"unlock"}) : task'[t] # task[t] /\ task[t].gen = gen
           /\ \A r \in DOMAIN shown : shown'[r] # shown[r]
               => shown'[r] \in {None, gen'} \/ (r = "preview" /\ reused)
           /\ \A t \in Of({"launch"}) : up' = "executing" /\ task'[t] # task[t]
               => \/ task'[t].kind = "launch"
                  \/ task[t].gen = gen /\ unlocked
<1> DEFINE Opens == ~unlocked /\ unlocked' =>
                       \E t \in Of({"unlock"}) : task'[t] # task[t] /\ task[t].gen = gen
           Shows == \A r \in DOMAIN shown : shown'[r] # shown[r]
                       => shown'[r] \in {None, gen'} \/ (r = "preview" /\ reused)
           Starts == \A t \in Of({"launch"}) : up' = "executing" /\ task'[t] # task[t]
                       => \/ task'[t].kind = "launch"
                          \/ task[t].gen = gen /\ unlocked
<1>s. shown \in [{"vault", "preview", "doctor", "approval"} -> Sessions \cup {None}]
    BY DEF Shape
<1>1. CASE Keys
    <2>1. ~unlocked /\ unlocked' => FALSE
        BY <1>1 DEF Keys, Lock, LockAndQuit, LockVault, QuitLocked, SubmitPassword, SelectProfile,
           LaunchProfile, TypeCommand, LaunchTyped, DismissFailure, AskSession, OpenApproval,
           AnswerApproval, LeaveApproval, DecideApproval, Session, Preview
    <2>2. \A r \in DOMAIN shown : shown'[r] \in {shown[r], None}
        BY <1>1, <1>s DEF Keys, Lock, LockAndQuit, LockVault, LockedDisplay, QuitLocked,
           SubmitPassword, SelectProfile, LaunchProfile, TypeCommand, LaunchTyped,
           DismissFailure, AskSession, OpenApproval, AnswerApproval, LeaveApproval, DecideApproval
    <2>3. up' # "executing"
        BY <1>1 DEF Keys, Lock, LockAndQuit, QuitLocked, SubmitPassword, SelectProfile,
           LaunchProfile, TypeCommand, LaunchTyped, DismissFailure, AskSession, OpenApproval,
           AnswerApproval, LeaveApproval, DecideApproval, On, Keyboard
    <2> QED
        BY <2>1, <2>2, <2>3
<1>2. ASSUME NEW t \in Tasks, Answer(t) PROVE Opens /\ Shows /\ Starts
    <2>1. Opens
        <3>1. CASE Unlocks(t)
            <4>1. t \in Of({"unlock"}) /\ t \in Newest
                BY <3>1 DEF Unlocks, Handled, FreshUnlock, Newest, Of
            <4>2. task[t].gen = gen
                BY <4>1 DEF UnlockSound
            <4>3. ~LaunchStarts(t)
                BY <4>1 DEF LaunchStarts, Handled, Of
            <4>4. Begins({t}, Begun)
                BY <1>2, <4>3, AnswersBegin
            <4>5. task'[t] # task[t]
                BY <4>1, <4>4 DEF Begins, Begun, New, Of
            <4> QED
                BY <4>1, <4>2, <4>5
        <3>2. CASE ~Unlocks(t)
            BY <1>2, <3>2 DEF Answer, UnlockAnswer, UnlockStale, UnlockRefused,
               PreviewAnswer, DoctorAnswer, EditAnswer, StageAnswer, MutationAnswer,
               LaunchAnswer, LaunchStarts, LaunchRefused, FinishedAnswer, Session, Preview
        <3> QED
            BY <3>1, <3>2
    <2>2. Shows
        <3>1. CASE Unlocks(t)
            BY <1>s, <3>1 DEF Unlocks
        <3>2. CASE DoctorAnswer(t)
            BY <1>s, <3>2 DEF DoctorAnswer, FreshDoctor, Session, Preview
        <3>3. CASE EditAnswer(t)
            BY <1>s, <3>3 DEF EditAnswer, FreshSession, Carried, Session, Preview
        <3>4. CASE StageAnswer(t)
            BY <1>s, <3>4 DEF StageAnswer, FreshSession, Carried, Session, Preview
        <3>5. CASE PreviewAnswer(t)
            <4>1. t \in Of({"preview"}) /\ gen' = gen
                BY <3>5 DEF PreviewAnswer, Handled, Of, Session
            <4>2. task[t].id = preview => reused \/ task[t].gen = gen
                BY <4>1 DEF PreviewSound
            <4> QED
                BY <1>s, <3>5, <4>1, <4>2 DEF PreviewAnswer
        <3>7. CASE FinishedAnswer(t)
            BY <1>s, <3>7 DEF FinishedAnswer
        <3>6. CASE UnlockStale(t) \/ UnlockRefused(t, FALSE) \/ MutationAnswer(t)
                   \/ LaunchStarts(t) \/ LaunchRefused(t, "idle")
            BY <3>6 DEF UnlockStale, UnlockRefused, MutationAnswer, LaunchStarts, LaunchRefused
        <3> QED
            BY <1>2, <3>1, <3>2, <3>3, <3>4, <3>5, <3>6, <3>7 DEF Answer, UnlockAnswer, LaunchAnswer
    <2>3. Starts
        <3>1. CASE LaunchStarts(t)
            <4>1. task[t].gen = gen /\ unlocked
                BY <3>1 DEF LaunchStarts, Launchable, FreshSession, Carried
            <4>2. \A u \in Tasks \ {t} : task'[u] = task[u]
                BY <3>1, LaunchStartsType
            <4> QED
                BY <4>1, <4>2 DEF Of
        <3>2. CASE ~LaunchStarts(t)
            <4>1. up' # "executing"
                BY <1>2, <3>2 DEF Answer, UnlockAnswer, UnlockStale, UnlockRefused, Unlocks,
                   PreviewAnswer, DoctorAnswer, EditAnswer, StageAnswer, MutationAnswer,
                   LaunchAnswer, LaunchRefused, FinishedAnswer, Handled
            <4> QED
                BY <4>1
        <3> QED
            BY <3>1, <3>2
    <2> QED
        BY <2>1, <2>2, <2>3
<1>3. ASSUME NEW t \in Tasks, Run(t) PROVE Opens /\ Shows /\ Starts
    <2>1. unlocked' = unlocked /\ shown' = shown
        BY <1>3 DEF Run, Session, Preview
    <2>2. task'[t].kind = task[t].kind /\ \A u \in Tasks \ {t} : task'[u] = task[u]
        BY <1>3, RunType
    <2> QED
        BY <2>1, <2>2 DEF Of
<1>4. ASSUME NEW t \in Tasks, ChildEnds(t) PROVE Opens /\ Shows /\ Starts
    BY <1>4 DEF ChildEnds, Session, Preview
<1>5. CASE UNCHANGED vars
    BY <1>5 DEF vars
<1> QED
    BY <1>1, <1>2, <1>3, <1>4, <1>5 DEF Next
-----------------------------------------------------------------------------
IInv == Shape /\ UnlockSound /\ PreviewSound /\ OverlayInv /\ LockedShowsNothing /\ WaitsEnd

LEMMA IInvInit == Init => IInv
<1> SUFFICES ASSUME Init PROVE IInv
    OBVIOUS
<1>1. \A k \in Kinds : Of({k}) = {}
    BY DEF Init, Of
<1>2. Of({"unlock"}) = {} /\ Of({"launch"}) = {} /\ Of({"child"}) = {}
    BY <1>1 DEF Kinds
<1>3. UnlockSound
    BY <1>2 DEF UnlockSound, Newest
<1>p. PreviewSound
    BY <1>1 DEF PreviewSound, Kinds
<1>4. OverlayInv
    <2>1. Held = {}
        BY <1>2 DEF Held
    <2> QED
        BY <2>1, FS_EmptySet DEF OverlayInv, Init
<1>5. LockedShowsNothing /\ WaitsEnd
    BY DEF Init, LockedShowsNothing, WaitsEnd
<1> QED
    BY <1>3, <1>p, <1>4, <1>5, ShapeInit DEF IInv

LEMMA IInvAlways == Spec => []IInv
<1>1. IInv /\ [Next]_vars => IInv'
    BY ShapeStep, UnlockStep, PreviewStep, HeldStep, LockedStep, WaitStep DEF IInv
<1> QED
    BY <1>1, IInvInit, PTL DEF Spec

(* Every state of the interface is one of its types: the numbers of        *)
(* sessions and requests stay within their bounds, and there are never     *)
(* fewer overlays than none.                                               *)
THEOREM TuiTypeCorrect == Spec => []TypeOK
<1>1. IInv => TypeOK
    <2> SUFFICES ASSUME IInv PROVE TypeOK
        OBVIOUS
    <2>1. overlays \in Nat
        BY HeldFinite, FS_CardinalityType DEF IInv, OverlayInv
    <2> QED
        BY <2>1 DEF IInv, Shape, TypeOK
<1> QED
    BY <1>1, IInvAlways, PTL

(* An overlay is in place exactly for the launches that are prepared and   *)
(* not answered and for the child that runs.                               *)
THEOREM OverlaysAlwaysAccounted == Spec => []OverlaysAccounted
<1>1. IInv => OverlaysAccounted
    BY DEF IInv, OverlayInv, Held, OverlaysAccounted
<1> QED
    BY <1>1, IInvAlways, PTL

(* A locked interface holds neither the vault nor an approval nor, until   *)
(* the numbers of previews start again with one in use, a launch plan.     *)
THEOREM LockedAlwaysShowsNothing == Spec => []LockedShowsNothing
<1>1. IInv => LockedShowsNothing
    BY DEF IInv
<1> QED
    BY <1>1, IInvAlways, PTL

(* unlockInFlight and the preparing phase never outlive their command.     *)
THEOREM WaitsAlwaysEnd == Spec => []WaitsEnd
<1>1. IInv => WaitsEnd
    BY DEF IInv
<1> QED
    BY <1>1, IInvAlways, PTL

(* What an answer opens, displays or starts is of the session it was       *)
(* computed for; previews as long as their numbers do not start again with *)
(* one in use.                                                             *)
THEOREM ResultsAlwaysFenced == Spec => ResultsFenced
<1>1. IInv /\ [Next]_vars =>
        [/\ ~unlocked /\ unlocked' =>
             \E t \in Of({"unlock"}) : task'[t] # task[t] /\ task[t].gen = gen
         /\ \A r \in DOMAIN shown : shown'[r] # shown[r]
             => shown'[r] \in {None, gen'} \/ (r = "preview" /\ reused)
         /\ \A t \in Of({"launch"}) : up' = "executing" /\ task'[t] # task[t]
             => \/ task'[t].kind = "launch"
                \/ task[t].gen = gen /\ unlocked]_vars
    BY FencedStep DEF IInv
<1> QED
    BY <1>1, IInvAlways, PTL DEF ResultsFenced, Spec
=============================================================================
