----------------------------- MODULE ScratchPad -----------------------------
(***************************************************************************)
(* The notes of the terminal interface (internal/tui/update.go,            *)
(* external_editor.go, internal/secret/vault.go): the text in the editor,  *)
(* the decrypted vault of the session and the vault on disk, and the       *)
(* commands between them.  A draft is saved by a timer, a key or on        *)
(* leaving the editor; the write runs beside the event loop and is         *)
(* answered later.  The text may be handed to an external editor, in a     *)
(* plaintext file.                                                         *)
(*                                                                         *)
(* A text is the note it was typed in and its age; empty text is Blank.    *)
(***************************************************************************)
EXTENDS Naturals, FiniteSets

CONSTANTS
    Pads,
    Tasks,          \* slots for timers and commands under way
    Failures,       \* the work that may fail: {"save", "delete", "editor"}
    MaxGen,         \* bound on the sessions of a process
    MaxRevision,    \* bound on scratchRevision
    Blank,
    None

Texts == {Blank} \cup [pad : Pads, age : 0..MaxRevision]
Vaults == [Pads -> Texts \cup {None}]

VARIABLES
    up,             \* "up", "executing" the editor, "quit"
    unlocked,
    gen,            \* sessionGen
    editing,        \* scratchEditingID, None when no note is open
    draft,          \* the editor's text
    dirty,          \* scratchDirty
    revision,       \* scratchRevision
    inFlight,       \* scratchSaveInFlight
    mem,            \* vaultSession.vault
    disk,           \* the vault file
    task,           \* timers and commands whose message is not handled yet
    files           \* plaintext files, by the command that wrote them

vars == <<up, unlocked, gen, editing, draft, dirty, revision, inFlight,
          mem, disk, task, files>>

Command == [kind : {"save", "timer", "delete", "editor", "child", "edited"},
            at : {"running", "done", "failed"}, gen : 0..MaxGen, pad : Pads,
            text : Texts, revision : 0..MaxRevision, close : BOOLEAN]

ASSUME BoundAssumption == MaxGen \in Nat /\ MaxRevision \in Nat
ASSUME NoneAssumption ==
    None \notin Pads /\ None \notin Texts /\ None \notin Command

Editor == <<editing, draft, dirty, revision, inFlight>>

Start(c, left) == \E t \in left \cup {u \in Tasks : task[u] = None} :
    task' = [u \in Tasks |-> IF u = t THEN c ELSE IF u \in left THEN None ELSE task[u]]
Drop(t) == task' = [task EXCEPT ![t] = None]

(* A command on the open note; the bound on slots bounds those under way. *)
Work(k, text, rev, close) ==
    [kind |-> k, at |-> "running", gen |-> gen, pad |-> editing,
     text |-> text, revision |-> rev, close |-> close]

(* UpdateScratchPad of a note on disk: an empty field leaves what is there. *)
Updated(vault, p, text) ==
    IF text = Blank THEN vault ELSE [vault EXCEPT ![p] = text]
-----------------------------------------------------------------------------
Init ==
    /\ up = "up" /\ unlocked = FALSE /\ gen = 0
    /\ editing = None /\ draft = Blank
    /\ dirty = FALSE /\ inFlight = FALSE /\ revision = 0
    /\ disk \in [Pads -> {None, Blank}]
    /\ mem = disk
    /\ task = [t \in Tasks |-> None]
    /\ files = {}

Unlock ==
    /\ up = "up" /\ ~unlocked /\ gen < MaxGen
    /\ unlocked' = TRUE /\ gen' = gen + 1
    /\ mem' = disk
    /\ UNCHANGED <<up, Editor, disk, task, files>>

(* lockVault, of which also the draft is a victim; q and ctrl+c quit. *)
Lock ==
    /\ up = "up" /\ unlocked
    /\ gen < MaxGen /\ revision < MaxRevision
    /\ unlocked' = FALSE /\ gen' = gen + 1
    /\ editing' = None /\ draft' = Blank
    /\ dirty' = FALSE /\ inFlight' = FALSE
    /\ revision' = revision + 1
    /\ \E q \in BOOLEAN :
         /\ up' = IF q THEN "quit" ELSE "up"
         /\ task' = IF q THEN [t \in Tasks |-> None] ELSE task
    /\ UNCHANGED <<mem, disk, files>>

(* Run: the plaintext of an earlier process is removed first. *)
Restart ==
    /\ up = "quit"
    /\ up' = "up" /\ gen' = 0 /\ revision' = 0
    /\ files' = {}
    /\ UNCHANGED <<unlocked, editing, draft, dirty, inFlight, mem, disk, task>>

(* Another process with the same configuration directory starts. *)
OtherStarts ==
    /\ files # {}
    /\ files' = {}
    /\ UNCHANGED <<up, unlocked, gen, Editor, mem, disk, task>>

(* saveScratchPadDraft with the draft d of revision r, in the vault v of   *)
(* the session: the draft is assigned to the note itself, an empty one     *)
(* too, and a command writes it unless one is in flight; a note that is    *)
(* not in the vault is not saved.                                          *)
SaveDraft(p, d, r, v, close, left) ==
    IF v[p] = None
    THEN mem' = v /\ Start(None, left) /\ UNCHANGED inFlight
    ELSE /\ mem' = [v EXCEPT ![p] = d]
         /\ IF inFlight THEN Start(None, left)
            ELSE Start([Work("save", d, r, close) EXCEPT !.pad = p], left)
         /\ inFlight' = TRUE

EditPad(p) ==
    /\ up = "up" /\ unlocked /\ editing = None
    /\ mem[p] # None
    /\ editing' = p /\ draft' = mem[p] /\ dirty' = FALSE
    /\ UNCHANGED <<up, unlocked, gen, revision, inFlight, mem, disk, task, files>>

(* newScratchPad, whose note has an identifier nobody used. *)
NewPad(p) ==
    /\ up = "up" /\ unlocked /\ editing = None
    /\ mem[p] = None /\ disk[p] = None
    /\ revision < MaxRevision
    /\ editing' = p /\ draft' = Blank
    /\ dirty' = TRUE /\ revision' = revision + 1
    /\ SaveDraft(p, Blank, revision + 1, [mem EXCEPT ![p] = Blank], FALSE, {})
    /\ UNCHANGED <<up, unlocked, gen, disk, files>>

(* A key or a paste changes the text: markScratchDirty and a new timer. *)
Type(clear) ==
    /\ up = "up" /\ editing # None
    /\ revision < MaxRevision
    /\ revision' = revision + 1
    /\ draft' = IF clear THEN Blank ELSE [pad |-> editing, age |-> revision + 1]
    /\ dirty' = TRUE
    /\ Start(Work("timer", Blank, revision + 1, FALSE), {})
    /\ UNCHANGED <<up, unlocked, gen, editing, inFlight, mem, disk, files>>

(* ctrl+s and esc, which save with closeEditor. *)
SaveKey ==
    /\ up = "up" /\ editing # None
    /\ SaveDraft(editing, draft, revision, mem, TRUE, {})
    /\ UNCHANGED <<up, unlocked, gen, editing, draft, dirty, revision, disk, files>>

(* deleteScratchPad of the selected note. *)
DeletePad(p) ==
    /\ up = "up" /\ unlocked /\ editing = None
    /\ mem[p] # None
    /\ Start([Work("delete", Blank, 0, FALSE) EXCEPT !.pad = p], {})
    /\ UNCHANGED <<up, unlocked, gen, Editor, mem, disk, files>>

(* editScratchInExternalEditor. *)
ExternalEditor ==
    /\ up = "up" /\ editing # None
    /\ Start(Work("editor", draft, 0, FALSE), {})
    /\ UNCHANGED <<up, unlocked, gen, Editor, mem, disk, files>>
-----------------------------------------------------------------------------
Running(t, k) ==
    /\ up # "quit"
    /\ task[t] # None /\ task[t].kind = k /\ task[t].at = "running"
Outcomes(k) == {"done"} \cup (IF k \in Failures THEN {"failed"} ELSE {})
Ends(t, r) == task' = [task EXCEPT ![t].at = r]

(* The transaction of a save: the note must be in the vault on disk. *)
SaveRuns(t) ==
    /\ Running(t, "save")
    /\ \E r \in Outcomes("save") :
         LET found == r = "done" /\ disk[task[t].pad] # None
         IN  /\ Ends(t, IF found THEN "done" ELSE "failed")
             /\ disk' = IF found THEN Updated(disk, task[t].pad, task[t].text) ELSE disk
    /\ UNCHANGED <<up, unlocked, gen, Editor, mem, files>>

(* The generation of a delete is read while it runs, not when it starts. *)
DeleteRuns(t) ==
    /\ Running(t, "delete")
    /\ \E r \in Outcomes("delete") :
         LET found == r = "done" /\ disk[task[t].pad] # None
         IN  /\ task' = [task EXCEPT ![t].at = IF found THEN "done" ELSE "failed",
                                     ![t].gen = gen]
             /\ disk' = IF found THEN [disk EXCEPT ![task[t].pad] = None] ELSE disk
    /\ UNCHANGED <<up, unlocked, gen, Editor, mem, files>>

(* prepareExternalEditor removes what it wrote when it fails. *)
EditorPrepares(t) ==
    /\ Running(t, "editor")
    /\ \E r \in Outcomes("editor") :
         /\ Ends(t, r)
         /\ files' = IF r = "done" THEN files \cup {t} ELSE files
    /\ UNCHANGED <<up, unlocked, gen, Editor, mem, disk>>

Handled(t, k) ==
    /\ up = "up"
    /\ task[t] # None /\ task[t].kind = k /\ task[t].at # "running"
FreshUnfenced(c) == unlocked
Fresh(c) == c.gen = gen /\ unlocked

(* The timer: only the one of the newest draft saves. *)
TimerFires(t) ==
    /\ up = "up" /\ Running(t, "timer")
    /\ IF task[t].pad = editing /\ task[t].revision = revision /\ dirty /\ ~inFlight
       THEN SaveDraft(editing, draft, revision, mem, FALSE, {t})
       ELSE Drop(t) /\ UNCHANGED <<mem, inFlight>>
    /\ UNCHANGED <<up, unlocked, gen, editing, draft, dirty, revision, disk, files>>

(* scheduleScratchAutosave, once the answer is handled. *)
AutosaveDueWhenDirty == dirty'
AutosaveDue == dirty' /\ editing' # None

(* scratchSavedMsg: of an earlier session; of a failed save; of a save,    *)
(* which refreshes the vault of the session and may close the editor.      *)
SaveAnswer(t) ==
    /\ Handled(t, "save")
    /\ LET c == task[t]
           clean == c.revision = revision
           closes == c.close /\ editing = c.pad
       IN \/ /\ ~Fresh(c)
             /\ inFlight' = FALSE
             /\ Drop(t)
             /\ UNCHANGED <<editing, draft, dirty, mem>>
          \/ /\ Fresh(c) /\ c.at = "failed"
             /\ Drop(t)
             /\ UNCHANGED <<inFlight, editing, draft, dirty, mem>>
          \/ /\ Fresh(c) /\ c.at = "done"
             /\ dirty' = (dirty /\ ~clean)
             /\ mem' = disk
             /\ editing' = IF closes THEN None ELSE editing
             /\ IF AutosaveDue
                THEN Start([Work("timer", Blank, revision, FALSE) EXCEPT
                                !.pad = editing'], {t})
                ELSE Drop(t)
             /\ UNCHANGED <<inFlight, draft>>
    /\ UNCHANGED <<up, unlocked, gen, revision, disk, files>>

(* scratchDeletedMsg. *)
DeleteAnswer(t) ==
    /\ Handled(t, "delete")
    /\ mem' = IF Fresh(task[t]) /\ task[t].at = "done" THEN disk ELSE mem
    /\ Drop(t)
    /\ UNCHANGED <<up, unlocked, gen, Editor, disk, files>>

(* externalEditorPreparedMsg: the editor starts only on the note and in    *)
(* the session it was asked for; otherwise its file is removed.            *)
WantedInAnyNote(c) == Fresh(c) /\ editing # None
Wanted(c) == Fresh(c) /\ editing = c.pad
FileKept(t) == files
CleanedUp(t) == files \ {t}
EditorAnswer(t) ==
    /\ Handled(t, "editor")
    /\ IF task[t].at = "done" /\ Wanted(task[t])
       THEN /\ task' = [task EXCEPT ![t].kind = "child", ![t].at = "running"]
            /\ up' = "executing"
            /\ UNCHANGED files
       ELSE /\ Drop(t)
            /\ files' = CleanedUp(t)
            /\ UNCHANGED up
    /\ UNCHANGED <<unlocked, gen, Editor, mem, disk>>

(* finishExternalEditor: the text is read back and the file removed. *)
EditorEnds(t) ==
    /\ up = "executing" /\ Running(t, "child")
    /\ \E text \in {Blank} \cup [pad : {task[t].pad}, age : revision..MaxRevision],
          r \in Outcomes("editor") :
         task' = [task EXCEPT ![t].kind = "edited", ![t].text = text,
                              ![t].at = IF t \in files THEN r ELSE "failed"]
    /\ files' = files \ {t}
    /\ up' = "up"
    /\ UNCHANGED <<unlocked, gen, Editor, mem, disk>>

EditedAnswer(t) ==
    /\ Handled(t, "edited")
    /\ IF task[t].at = "done" /\ Wanted(task[t])
       THEN /\ revision < MaxRevision
            /\ revision' = revision + 1
            /\ draft' = task[t].text /\ dirty' = TRUE
            /\ Start([Work("timer", Blank, revision + 1, FALSE) EXCEPT
                         !.pad = editing], {t})
       ELSE Drop(t) /\ UNCHANGED <<draft, dirty, revision>>
    /\ UNCHANGED <<up, unlocked, gen, editing, inFlight, mem, disk, files>>
-----------------------------------------------------------------------------
Keys ==
    \/ Unlock \/ Lock \/ SaveKey \/ ExternalEditor
    \/ \E clear \in BOOLEAN : Type(clear)
    \/ \E p \in Pads : EditPad(p) \/ NewPad(p) \/ DeletePad(p)

Steps(t) ==
    \/ SaveRuns(t) \/ DeleteRuns(t) \/ EditorPrepares(t)
    \/ TimerFires(t) \/ SaveAnswer(t) \/ DeleteAnswer(t)
    \/ EditorAnswer(t) \/ EditorEnds(t) \/ EditedAnswer(t)

Next == Keys \/ Restart \/ OtherStarts \/ \E t \in Tasks : Steps(t)

Spec == Init /\ [][Next]_vars
-----------------------------------------------------------------------------
TypeOK ==
    /\ up \in {"up", "executing", "quit"}
    /\ unlocked \in BOOLEAN /\ dirty \in BOOLEAN /\ inFlight \in BOOLEAN
    /\ gen \in 0..MaxGen /\ revision \in 0..MaxRevision
    /\ editing \in Pads \cup {None} /\ draft \in Texts
    /\ mem \in Vaults /\ disk \in Vaults
    /\ task \in [Tasks -> Command \cup {None}]
    /\ files \subseteq Tasks

(* However editors are opened, closed and answered, what was typed in one  *)
(* note is never in another: not in the editor, and not on disk.           *)
TextOf(p, text) == text \in {Blank, None} \/ text.pad = p
PadsKeepTheirText ==
    /\ \A p \in Pads : TextOf(p, disk[p]) /\ TextOf(p, mem[p])
    /\ editing # None => TextOf(editing, draft)

(* docs/release-evidence.md:37: while the interface is up, a plaintext     *)
(* file belongs to an editor that is prepared or open, and will remove it. *)
PlaintextAccounted ==
    up # "quit" => \A t \in files :
        task[t] # None /\ task[t].kind \in {"editor", "child"}

(* The answers of saves and editors of an earlier session touch neither    *)
(* the editor nor the decrypted vault, though their note may be open again *)
(* with a draft of the same revision; only quitting forgets them all.      *)
StaleAnswersIgnored ==
    [][\A t \in Tasks : task[t] # None /\ task[t].kind \in {"save", "edited"}
           /\ task[t].gen # gen /\ task'[t] # task[t] /\ up' # "quit"
         => UNCHANGED <<editing, draft, dirty, mem>>]_vars
=============================================================================
