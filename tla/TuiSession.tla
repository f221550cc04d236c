----------------------------- MODULE TuiSession -----------------------------
(***************************************************************************)
(* The sessions of the terminal interface (internal/tui/update.go, tui.go):*)
(* one event loop handles keys and answers, the work runs in commands      *)
(* beside it.  Locking ends the session while its commands are still       *)
(* running, so an answer is checked against the session generation, or a   *)
(* request number, when it arrives.                                        *)
(*                                                                         *)
(* Bubble Tea is modelled from its use: a command runs once, its message   *)
(* is handled some time later, and while tea.Exec runs a child the loop    *)
(* handles nothing.  tea.Quit is a command too: answers that arrive before *)
(* its message are handled; further keys in between are left out.          *)
(* A vault exists, so the interface starts locked.                         *)
(***************************************************************************)
EXTENDS Naturals, FiniteSets

CONSTANTS
    Tasks,          \* slots for the commands under way
    MaxGen,         \* bound on sessionGen
    MaxRequests,    \* bound on unlockRequestID and launchPreview.requestID
    Screens,        \* the screens the user works on: {"launch", "access", "other"}
    None

ASSUME BoundAssumption == MaxGen \in Nat /\ MaxRequests \in Nat

VARIABLES
    up,             \* "up", "executing" a child, "quit" asked for, "panic"
    unlocked,
    gen,            \* sessionGen
    unlockReq,      \* unlockRequestID
    unlocking,      \* unlockInFlight
    phase,          \* launchPhase
    failure,        \* launchFailure # nil: the failure screen
    typing,         \* launchMode = launchTypeCommand
    preview,        \* launchPreview.requestID
    reused,         \* its numbers have started again with one still in use
    shown,          \* the session each displayed result was computed for
    form,           \* accessStep of the approval form, None when it is closed
    task,           \* commands that run or whose message is not handled yet
    overlays        \* prepared launches that were not cleaned up yet

vars == <<up, unlocked, gen, unlockReq, unlocking, phase, failure, typing,
          preview, reused, shown, form, task, overlays>>

Sessions == 0..MaxGen
Kinds == {"unlock", "preview", "doctor", "edit", "launch", "child",
          "finished", "stage", "commit", "cancel", "recover"}
Flaws == {"start", "exit", "usage", "cleanup"}

(* A command: the session it works for, its request number, whether its    *)
(* message is on its way and what went wrong.  Most failed preparations    *)
(* answer without a generation, which no session has.                      *)
Command == [kind : Kinds, gen : Sessions, id : 0..MaxRequests,
            at : {"running", "done", "failed"}, flaws : SUBSET Flaws]
ASSUME NoneAssumption == None \notin Nat /\ None \notin Command
ASSUME TaskAssumption == IsFiniteSet(Tasks)

Of(kinds) == {t \in Tasks : task[t] # None /\ task[t].kind \in kinds}
Free == {t \in Tasks : task[t] = None}
With(k, i) == [kind |-> k, gen |-> gen, id |-> i, at |-> "running", flaws |-> {}]

(* tea.Batch: free slots, or that of the answer just handled, hold the new *)
(* commands, which differ from each other.                                 *)
Start(commands, left) ==
    \E slot \in [commands -> Free \cup left] :
      /\ \A c, d \in commands : slot[c] = slot[d] => c = d
      /\ task' = [t \in Tasks |->
            IF \E c \in commands : slot[c] = t
            THEN CHOOSE c \in commands : slot[c] = t
            ELSE IF t \in left THEN None ELSE task[t]]

Screen == <<typing, failure>>
Preview == <<preview, reused>>
Session == <<unlocked, gen, unlockReq, unlocking>>

(* No modal has the keyboard, and no typed command. *)
Keyboard == up = "up" /\ unlocked /\ form = None /\ shown["approval"] = None
On(screen) == screen \in Screens /\ Keyboard /\ ~typing
-----------------------------------------------------------------------------
Init ==
    /\ up = "up"
    /\ unlocked = FALSE /\ unlocking = FALSE /\ failure = FALSE /\ typing = FALSE
    /\ gen = 0 /\ unlockReq = 0 /\ preview = 0 /\ reused = FALSE
    /\ phase = "idle"
    /\ shown = [r \in {"vault", "preview", "doctor", "approval"} |-> None]
    /\ form = None
    /\ task = [t \in Tasks |-> None]
    /\ overlays = 0

LockedDisplayKeepsApproval == [shown EXCEPT !["vault"] = None, !["preview"] = None]
LockedDisplay ==
    [shown EXCEPT !["vault"] = None, !["preview"] = None, !["approval"] = None]

(* lockVault.  launchFailure, launchMode and the results of the doctor     *)
(* survive it; a staged grant in the dialog is forgotten.                  *)
LockVault ==
    /\ gen < MaxGen /\ unlockReq < MaxRequests /\ preview < MaxRequests
    /\ gen' = gen + 1
    /\ unlockReq' = unlockReq + 1
    /\ preview' = preview + 1 /\ UNCHANGED reused
    /\ unlocked' = FALSE /\ unlocking' = FALSE
    /\ phase' = "idle"
    /\ form' = None
    /\ shown' = LockedDisplay
    /\ UNCHANGED <<Screen, task, overlays>>

(* ctrl+l, the idle check of a key or of the timer; q and ctrl+c, which    *)
(* locks a locked interface again; esc of the locked screen.               *)
Lock == up = "up" /\ unlocked /\ LockVault /\ UNCHANGED up
LockAndQuit == up = "up" /\ LockVault /\ up' = "quit"
QuitLocked ==
    /\ up = "up" /\ ~unlocked
    /\ up' = "quit"
    /\ UNCHANGED <<Session, phase, Screen, Preview, shown, form, task, overlays>>

(* handleLockedKey, enter. *)
SubmitPassword ==
    /\ up = "up" /\ ~unlocked /\ ~unlocking
    /\ unlockReq < MaxRequests /\ gen < MaxGen
    /\ unlockReq' = unlockReq + 1
    /\ unlocking' = TRUE
    /\ Start({With("unlock", unlockReq + 1)}, {})
    /\ UNCHANGED <<up, unlocked, gen, phase, Screen, Preview, shown, form, overlays>>

(* refreshLaunchPreview, with other commands: without a vault or a profile *)
(* the preview is reset, its request number with it; the number goes on    *)
(* and no command starts when the provider is missing.                     *)
RefreshPreview(open, session, others, left) ==
    \/ /\ preview' = 0
       /\ reused' = (reused \/ Of({"preview"}) # {})
       /\ Start(others, left)
    \/ /\ open /\ preview < MaxRequests
       /\ preview' = preview + 1 /\ UNCHANGED reused
       /\ \/ Start(others, left)
          \/ Start(others \cup {[With("preview", preview + 1) EXCEPT !.gen = session]},
                   left)

SelectProfile ==
    /\ On("launch")
    /\ phase = "idle" /\ ~failure
    /\ RefreshPreview(TRUE, gen, {}, {})
    /\ shown' = [shown EXCEPT !["preview"] = None]
    /\ UNCHANGED <<up, Session, phase, Screen, form, overlays>>

(* handleLaunchKey: enter; d or right; esc and enter of the typed command, *)
(* which does not set launchPhase; the failure screen.                     *)
LaunchProfile ==
    /\ On("launch")
    /\ phase = "idle" /\ ~failure
    /\ phase' = "preparing"
    /\ Start({With("launch", 0)}, {})
    /\ UNCHANGED <<up, Session, Screen, Preview, shown, form, overlays>>

TypeCommand ==
    /\ On("launch")
    /\ phase = "idle" /\ ~failure
    /\ typing' = TRUE
    /\ UNCHANGED <<up, Session, phase, failure, Preview, shown, form, task, overlays>>

LaunchTyped ==
    /\ Keyboard /\ typing
    /\ typing' = FALSE
    /\ Start({With("launch", 0)}, {})
    /\ UNCHANGED <<up, Session, phase, failure, Preview, shown, form, overlays>>

DismissFailure ==
    /\ On("launch") /\ failure
    /\ failure' = FALSE
    /\ phase' = "idle"
    /\ UNCHANGED <<up, Session, typing, Preview, shown, form, task, overlays>>

(* runDoctor and commitProfileEdit. *)
AskSession(k) ==
    /\ On("other")
    /\ Start({With(k, 0)}, {})
    /\ UNCHANGED <<up, Session, phase, Screen, Preview, shown, form, overlays>>

(* The approval form of a binding: four values, and the form stays open    *)
(* until the staged grant is shown.  An empty value takes the placeholder  *)
(* of the step; behind the last step there is none.                        *)
LastStep == 4
OpenApproval ==
    /\ On("access")
    /\ form' = 0
    /\ UNCHANGED <<up, Session, phase, Screen, Preview, shown, task, overlays>>

AnswerApproval(empty) ==
    /\ up = "up" /\ unlocked /\ form # None
    /\ IF form >= LastStep /\ empty
       THEN up' = "panic" /\ UNCHANGED <<form, task>>
       ELSE /\ form' = IF form >= LastStep THEN form ELSE form + 1
            /\ IF form + 1 < LastStep THEN UNCHANGED task
               ELSE Start({With("stage", 0)}, {})
            /\ UNCHANGED up
    /\ UNCHANGED <<Session, phase, Screen, Preview, shown, overlays>>

LeaveApproval ==
    /\ up = "up" /\ form # None
    /\ form' = None
    /\ UNCHANGED <<up, Session, phase, Screen, Preview, shown, task, overlays>>

(* handleAccessConfirmKey. *)
DecideApproval(k) ==
    /\ up = "up" /\ shown["approval"] # None
    /\ shown' = [shown EXCEPT !["approval"] = None]
    /\ Start({[With(k, 0) EXCEPT
                  !.gen = IF k = "commit" THEN shown["approval"] ELSE 0]}, {})
    /\ UNCHANGED <<up, Session, phase, Screen, Preview, form, overlays>>
-----------------------------------------------------------------------------
(* A command does its work.  A staged or committed approval looks at the   *)
(* context of its session, which locking cancels; a prepared launch has    *)
(* its overlay in place.                                                   *)
Live(c) == unlocked /\ c.gen = gen
Run(t) ==
    /\ up # "panic"
    /\ task[t] # None
    /\ task[t].at = "running" /\ task[t].kind # "child"
    /\ \E r \in {"done", "failed"} :
         /\ task[t].kind \in {"stage", "commit"} /\ ~Live(task[t]) => r = "failed"
         /\ task' = [task EXCEPT ![t].at = r]
         /\ overlays' = IF r = "done" /\ task[t].kind = "launch"
                        THEN overlays + 1 ELSE overlays
    /\ UNCHANGED <<up, Session, phase, Screen, Preview, shown, form>>

(* The message of a command is handled: the guard of every handler. *)
Handled(t, kinds) ==
    /\ up \in {"up", "quit"}
    /\ task[t] # None
    /\ task[t].at # "running" /\ task[t].kind \in kinds
Drop(t) == task' = [task EXCEPT ![t] = None]

(* Fresh answers: of the newest unlock request; of the current session; of *)
(* the current session while it is unlocked, if they carry a generation.   *)
FreshUnlock(c) == c.id # 0 /\ c.id = unlockReq
FreshDoctor(c) == c.gen = gen
Carried(c) == IF c.at = "failed" /\ c.kind \in {"launch", "stage", "cancel", "recover"}
              THEN 0 ELSE c.gen
FreshSessionUnfenced(c) == Carried(c) # 0 /\ unlocked
FreshSession(c) == Carried(c) # 0 /\ Carried(c) = gen /\ unlocked

(* unlockResultMsg: a stale one is wiped, a refusal lets the user try      *)
(* again, and a key opens a session, asks for the preview and recovers     *)
(* pending approvals.                                                      *)
UnlockStale(t) ==
    /\ Handled(t, {"unlock"}) /\ ~FreshUnlock(task[t])
    /\ Drop(t)
    /\ UNCHANGED <<up, Session, phase, Screen, Preview, shown, form, overlays>>

UnlockRefused(t, flag) ==
    /\ Handled(t, {"unlock"})
    /\ FreshUnlock(task[t]) /\ task[t].at = "failed"
    /\ unlocking' = flag
    /\ Drop(t)
    /\ UNCHANGED <<up, unlocked, gen, unlockReq, phase, Screen, Preview, shown,
                   form, overlays>>

Unlocks(t) ==
    /\ Handled(t, {"unlock"})
    /\ FreshUnlock(task[t]) /\ task[t].at = "done"
    /\ gen < MaxGen
    /\ unlocking' = FALSE /\ unlocked' = TRUE
    /\ gen' = gen + 1
    /\ shown' = [shown EXCEPT !["vault"] = gen', !["preview"] = None]
    /\ RefreshPreview(TRUE, gen + 1, {[With("recover", 0) EXCEPT !.gen = 0]}, {t})
    /\ UNCHANGED <<up, unlockReq, phase, Screen, form, overlays>>

UnlockAnswerKeepsFlag(t) == UnlockStale(t) \/ UnlockRefused(t, unlocking) \/ Unlocks(t)
UnlockAnswer(t) == UnlockStale(t) \/ UnlockRefused(t, FALSE) \/ Unlocks(t)

(* launchPreviewResolvedMsg: only its request number is looked at. *)
PreviewAnswer(t) ==
    /\ Handled(t, {"preview"})
    /\ Drop(t)
    /\ shown' = IF task[t].id = preview
                THEN [shown EXCEPT !["preview"] = task[t].gen] ELSE shown
    /\ UNCHANGED <<up, Session, phase, Screen, Preview, form, overlays>>

(* doctorResultMsg, which is shown on a locked interface too. *)
DoctorAnswer(t) ==
    /\ Handled(t, {"doctor"})
    /\ Drop(t)
    /\ shown' = IF FreshDoctor(task[t])
                THEN [shown EXCEPT !["doctor"] = task[t].gen] ELSE shown
    /\ UNCHANGED <<up, Session, phase, Screen, Preview, form, overlays>>

(* profileEditSavedMsg: the profiles and a snapshot of the vault. *)
EditAnswer(t) ==
    /\ Handled(t, {"edit"})
    /\ Drop(t)
    /\ shown' = IF FreshSession(task[t]) /\ task[t].at = "done"
                THEN [shown EXCEPT !["vault"] = task[t].gen] ELSE shown
    /\ UNCHANGED <<up, Session, phase, Screen, Preview, form, overlays>>

(* accessApprovalPreparedMsg: a grant of an earlier session is removed.    *)
(* accessMutationDoneMsg, also of a staging that failed: one without the   *)
(* current generation is dropped, with the error it brings.                *)
StageAnswer(t) ==
    /\ Handled(t, {"stage"}) /\ task[t].at = "done"
    /\ IF FreshSession(task[t])
       THEN /\ shown' = [shown EXCEPT !["approval"] = task[t].gen]
            /\ form' = None
            /\ Drop(t)
       ELSE /\ Start({[With("cancel", 0) EXCEPT !.gen = 0]}, {t})
            /\ UNCHANGED <<shown, form>>
    /\ UNCHANGED <<up, Session, phase, Screen, Preview, overlays>>

MutationAnswer(t) ==
    /\ Handled(t, {"stage", "commit", "cancel", "recover"})
    /\ task[t].kind = "stage" => task[t].at = "failed"
    /\ Drop(t)
    /\ UNCHANGED <<up, Session, phase, Screen, Preview, shown, form, overlays>>

(* launchPreparedMsg: a prepared launch of an earlier session is undone,   *)
(* and the phase goes back to idle whoever set it.                         *)
CleanupForgotten(c) == overlays
Cleanup(c) == IF c.at = "done" THEN overlays - 1 ELSE overlays
Launchable(c) == FreshSession(c) /\ c.at = "done"

LaunchStarts(t) ==
    /\ Handled(t, {"launch"}) /\ Launchable(task[t])
    /\ phase' = "running"
    /\ up' = "executing"
    /\ task' = [task EXCEPT ![t].kind = "child", ![t].at = "running"]
    /\ UNCHANGED <<Session, Screen, Preview, shown, form, overlays>>

LaunchRefused(t, next) ==
    /\ Handled(t, {"launch"}) /\ ~Launchable(task[t])
    /\ phase' = next
    /\ overlays' = Cleanup(task[t])
    /\ Drop(t)
    /\ UNCHANGED <<up, Session, Screen, Preview, shown, form>>

LaunchAnswerKeepsPhase(t) == LaunchStarts(t) \/ LaunchRefused(t, phase)
LaunchAnswer(t) == LaunchStarts(t) \/ LaunchRefused(t, "idle")

(* The callback of tea.Exec: usage metadata, cleanup, then the message. *)
ChildEnds(t) ==
    /\ up = "executing"
    /\ task[t] # None /\ task[t].kind = "child"
    /\ \E f \in SUBSET Flaws :
         /\ "start" \in f => "usage" \notin f
         /\ task' = [task EXCEPT ![t].kind = "finished", ![t].at = "done",
                                 ![t].flaws = f]
    /\ overlays' = overlays - 1
    /\ up' = "up"
    /\ UNCHANGED <<Session, phase, Screen, Preview, shown, form>>

(* launchFinishedMsg, which no session is asked of. *)
StartupFailure(c) == c.flaws \cap {"start", "exit"} # {}
Told(c) ==
    IF StartupFailure(c) THEN {"start", "exit"} \cap c.flaws
    ELSE IF "cleanup" \in c.flaws THEN {"cleanup"}
    ELSE c.flaws \cap {"usage"}

FinishedAnswer(t) ==
    /\ Handled(t, {"finished"})
    /\ phase' = IF StartupFailure(task[t]) THEN "failed" ELSE "idle"
    /\ failure' = (failure \/ StartupFailure(task[t]))
    /\ RefreshPreview(unlocked, gen, {}, {t})
    /\ shown' = [shown EXCEPT !["preview"] = None]
    /\ UNCHANGED <<up, Session, typing, form, overlays>>
-----------------------------------------------------------------------------
Keys ==
    \/ Lock \/ LockAndQuit \/ QuitLocked \/ SubmitPassword
    \/ SelectProfile \/ LaunchProfile \/ TypeCommand \/ LaunchTyped
    \/ DismissFailure
    \/ \E k \in {"doctor", "edit"} : AskSession(k)
    \/ OpenApproval \/ LeaveApproval
    \/ \E e \in BOOLEAN : AnswerApproval(e)
    \/ \E k \in {"commit", "cancel"} : DecideApproval(k)

Answer(t) ==
    \/ UnlockAnswer(t) \/ PreviewAnswer(t) \/ DoctorAnswer(t) \/ EditAnswer(t)
    \/ StageAnswer(t) \/ MutationAnswer(t) \/ LaunchAnswer(t) \/ FinishedAnswer(t)

Next == Keys \/ \E t \in Tasks : Run(t) \/ Answer(t) \/ ChildEnds(t)

Spec == Init /\ [][Next]_vars

-----------------------------------------------------------------------------
TypeOK ==
    /\ up \in {"up", "executing", "quit", "panic"}
    /\ unlocked \in BOOLEAN /\ unlocking \in BOOLEAN
    /\ failure \in BOOLEAN /\ typing \in BOOLEAN /\ reused \in BOOLEAN
    /\ gen \in Sessions
    /\ unlockReq \in 0..MaxRequests /\ preview \in 0..MaxRequests
    /\ phase \in {"idle", "preparing", "running", "failed"}
    /\ shown \in [{"vault", "preview", "doctor", "approval"} -> Sessions \cup {None}]
    /\ form \in 0..LastStep \cup {None}
    /\ task \in [Tasks -> Command \cup {None}]
    /\ overlays \in Nat

(* A password opens the vault only in the lock it was typed in; the vault, *)
(* the doctor's findings, an offered grant and a launch preview come on    *)
(* display only in the session they were computed for; a prepared child    *)
(* starts only in the session that asked for it.  Two things are not said: *)
(* of previews nothing once their request numbers have started again with  *)
(* one still in use (update.go:3639), and of what a child leaves when it   *)
(* ends, nothing at all: launchFinishedMsg is asked of no session.         *)
ResultsFenced ==
    [][/\ ~unlocked /\ unlocked' =>
             \E t \in Of({"unlock"}) : task'[t] # task[t] /\ task[t].gen = gen
       /\ \A r \in DOMAIN shown : shown'[r] # shown[r]
             => shown'[r] \in {None, gen'} \/ (r = "preview" /\ reused)
       /\ \A t \in Of({"launch"}) : up' = "executing" /\ task'[t] # task[t]
             => \/ task'[t].kind = "launch"
                \/ task[t].gen = gen /\ unlocked]_vars

(* Whatever happens between the preparation of a launch and its answer,    *)
(* while the interface is up every overlay in place belongs to a launch    *)
(* whose answer or whose child will remove it.                             *)
OverlaysAccounted ==
    up \in {"up", "executing"} =>
        overlays = Cardinality({t \in Of({"launch"}) : task[t].at = "done"}
                               \cup Of({"child"}))

(* A locked interface holds neither the vault nor an offered grant nor its *)
(* form, no child runs under it, and it holds no launch plan, which may    *)
(* contain credentials (tui.go:439), however late the answer to a preview  *)
(* comes.  The last holds until the request numbers of previews start      *)
(* again with one still in use.  The doctor's findings stay.               *)
LockedShowsNothing ==
    ~unlocked => /\ \A r \in {"vault", "approval"} : shown[r] = None
                 /\ shown["preview"] = None \/ reused
                 /\ form = None /\ up # "executing"

(* What the user waits for is still to come: while unlockInFlight refuses  *)
(* another password, the answer to the newest one is under way, and while  *)
(* the launch screen says "Preparing launch..." a launch is.  A flag that  *)
(* outlived its command would shut the user out for good (tui.go).         *)
WaitsEnd ==
    /\ unlocking => \E t \in Of({"unlock"}) : FreshUnlock(task[t])
    /\ phase = "preparing" => Of({"launch"}) # {}
=============================================================================
