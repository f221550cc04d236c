-------------------------- MODULE ScratchPadProofs --------------------------
(***************************************************************************)
(* Notes keep their own text, plaintext is accounted for and answers of    *)
(* another session change nothing, for any notes, sessions and number of   *)
(* commands under way.                                                     *)
(*                                                                         *)
(* A text moves from the editor into a command, to the disk or to an       *)
(* external editor, and back: so the invariant (TextInv) says of every     *)
(* command, too, that it carries text of its own note.                     *)
(***************************************************************************)
EXTENDS ScratchPad, TLAPS

CommandsKeepTheirText ==
    \A t \in Tasks : task[t] # None => TextOf(task[t].pad, task[t].text)

TextInv == TypeOK /\ PadsKeepTheirText /\ CommandsKeepTheirText
-----------------------------------------------------------------------------
LEMMA NoSlots == {} \in SUBSET Tasks /\ TRUE \in BOOLEAN /\ FALSE \in BOOLEAN
OBVIOUS

(* A new command takes a slot that is free or whose command is handled.    *)
LEMMA StartTakesFreeSlot ==
    ASSUME NEW c, NEW L \in SUBSET Tasks, Start(c, L)
    PROVE  /\ task' = [u \in Tasks |-> task'[u]]
           /\ \A u \in Tasks : task'[u] = task[u] \/ task'[u] = c \/ task'[u] = None
           /\ \A u \in Tasks : task[u] # None /\ u \notin L => task'[u] = task[u]
<1>1. PICK t \in L \cup {u \in Tasks : task[u] = None} :
        task' = [u \in Tasks |-> IF u = t THEN c ELSE IF u \in L THEN None ELSE task[u]]
    BY DEF Start
<1> QED
    BY <1>1

(* The commands of an open note, and what a save makes of the vault.       *)
LEMMA WorkType ==
    ASSUME TypeOK, NEW k \in {"save", "timer", "delete", "editor"},
           NEW p \in Pads, NEW text \in Texts, NEW r \in 0..MaxRevision,
           NEW close \in BOOLEAN
    PROVE  /\ [Work(k, text, r, close) EXCEPT !.pad = p] \in Command
           /\ [Work(k, text, r, close) EXCEPT !.pad = p].pad = p
           /\ [Work(k, text, r, close) EXCEPT !.pad = p].text = text
           /\ [Work(k, text, r, close) EXCEPT !.pad = p].kind = k
           /\ editing = p => Work(k, text, r, close)
                               = [Work(k, text, r, close) EXCEPT !.pad = p]
BY DEF TypeOK, Work, Command

LEMMA UpdatedType ==
    ASSUME NEW v \in Vaults, NEW p \in Pads, NEW text \in Texts,
           \A q \in Pads : TextOf(q, v[q]), TextOf(p, text)
    PROVE  /\ Updated(v, p, text) \in Vaults
           /\ \A q \in Pads : TextOf(q, Updated(v, p, text)[q])
           /\ v[p] # None => Updated(v, p, text)[p] \in Texts
BY DEF Vaults, Updated, TextOf

LEMMA SaveDraftKeepsText ==
    ASSUME TextInv, NEW p \in Pads, NEW d \in Texts, NEW r \in 0..MaxRevision,
           NEW v \in Vaults, NEW close \in BOOLEAN, NEW L \in SUBSET Tasks,
           \A q \in Pads : TextOf(q, v[q]), TextOf(p, d),
           SaveDraft(p, d, r, v, close, L)
    PROVE  /\ mem' \in Vaults /\ inFlight' \in BOOLEAN
           /\ \A q \in Pads : TextOf(q, mem'[q])
           /\ task' \in [Tasks -> Command \cup {None}]
           /\ CommandsKeepTheirText'
<1> DEFINE c == [Work("save", d, r, close) EXCEPT !.pad = p]
<1>1. task \in [Tasks -> Command \cup {None}] /\ CommandsKeepTheirText /\ inFlight \in BOOLEAN
    BY DEF TextInv, TypeOK
<1>2. CASE v[p] = None
    <2>1. mem' = v /\ Start(None, L) /\ inFlight' = inFlight
        BY <1>2 DEF SaveDraft
    <2>2. \A u \in Tasks : task'[u] = task[u] \/ task'[u] = None
        BY <2>1, StartTakesFreeSlot
    <2>3. task' = [u \in Tasks |-> task'[u]]
        BY <2>1, StartTakesFreeSlot
    <2> QED
        BY <1>1, <2>1, <2>2, <2>3 DEF CommandsKeepTheirText
<1>3. CASE v[p] # None
    <2>1. /\ mem' = [v EXCEPT ![p] = d] /\ inFlight' = TRUE
          /\ Start(None, L) \/ Start(c, L)
        BY <1>3 DEF SaveDraft
    <2>2. mem' \in Vaults /\ (\A q \in Pads : TextOf(q, mem'[q])) /\ mem'[p] \in Texts
        BY <1>3, <2>1 DEF Vaults, TextOf
    <2>3. c \in Command /\ c.pad = p /\ c.text = d
        BY <2>2, WorkType DEF TextInv
    <2>4. PICK d2 \in {None, c} : Start(d2, L)
        BY <2>1
    <2>5. \A u \in Tasks : task'[u] = task[u] \/ task'[u] = d2 \/ task'[u] = None
        BY <2>4, StartTakesFreeSlot
    <2>6. task' = [u \in Tasks |-> task'[u]]
        BY <2>4, StartTakesFreeSlot
    <2>7. \A u \in Tasks : task'[u] = task[u] \/ task'[u] = c \/ task'[u] = None
        BY <2>4, <2>5
    <2>8. task' \in [Tasks -> Command \cup {None}]
        BY <1>1, <2>3, <2>6, <2>7
    <2>9. CommandsKeepTheirText'
        <3> SUFFICES ASSUME NEW u \in Tasks, task'[u] # None
                     PROVE  TextOf(task'[u].pad, task'[u].text)
            BY DEF CommandsKeepTheirText
        <3>1. CASE task'[u] = task[u]
            BY <1>1, <3>1 DEF CommandsKeepTheirText
        <3>2. CASE task'[u] = c
            BY <2>2, <2>3, <3>2
        <3> QED
            BY <2>7, <3>1, <3>2
    <2> QED
        BY <2>1, <2>2, <2>8, <2>9
<1> QED
    BY <1>2, <1>3
(* Slots keep their commands, get a new one or become free. *)
LEMMA CommandsReplaced ==
    ASSUME TextInv, NEW c,
           c # None => c \in Command /\ TextOf(c.pad, c.text),
           task' = [u \in Tasks |-> task'[u]],
           \A u \in Tasks : task'[u] = task[u] \/ task'[u] = c \/ task'[u] = None
    PROVE  task' \in [Tasks -> Command \cup {None}] /\ CommandsKeepTheirText'
<1>1. task \in [Tasks -> Command \cup {None}] /\ CommandsKeepTheirText
    BY DEF TextInv, TypeOK
<1>2. task' \in [Tasks -> Command \cup {None}]
    BY <1>1
<1>3. ASSUME NEW u \in Tasks, task'[u] # None
      PROVE  TextOf(task'[u].pad, task'[u].text)
    BY <1>1, <1>3 DEF CommandsKeepTheirText
<1> QED
    BY <1>2, <1>3 DEF CommandsKeepTheirText

LEMMA CommandDropped ==
    ASSUME TextInv, NEW t \in Tasks, Drop(t)
    PROVE  task' \in [Tasks -> Command \cup {None}] /\ CommandsKeepTheirText'
BY CommandsReplaced DEF Drop, TextInv, TypeOK

LEMMA CommandStarted ==
    ASSUME TextInv, NEW c, NEW L \in SUBSET Tasks, Start(c, L),
           c \in Command /\ TextOf(c.pad, c.text)
    PROVE  task' \in [Tasks -> Command \cup {None}] /\ CommandsKeepTheirText'
BY StartTakesFreeSlot, CommandsReplaced

(* A command advances and may take other text of its note. *)
LEMMA CommandAdvances ==
    ASSUME TextInv, NEW t \in Tasks, NEW c \in Command,
           task[t] # None, task' = [task EXCEPT ![t] = c], TextOf(c.pad, c.text)
    PROVE  task' \in [Tasks -> Command \cup {None}] /\ CommandsKeepTheirText'
<1>1. task \in [Tasks -> Command \cup {None}]
    BY DEF TextInv, TypeOK
<1> QED
    BY <1>1, CommandsReplaced

LEMMA TimerHasNoText ==
    ASSUME TypeOK, NEW p \in Pads, NEW r \in 0..MaxRevision
    PROVE  LET c == [Work("timer", Blank, r, FALSE) EXCEPT !.pad = p]
           IN  c \in Command /\ TextOf(c.pad, c.text)
<1>1. Blank \in Texts
    BY DEF Texts
<1> QED
    BY <1>1 DEF TextOf, TypeOK, Work, Command
-----------------------------------------------------------------------------
(* What the user does. *)
LEMMA KeysKeepText ==
    ASSUME TextInv, Keys
    PROVE  TextInv'
<1> DEFINE Rest == /\ up' \in {"up", "executing", "quit"}
                   /\ unlocked' \in BOOLEAN /\ dirty' \in BOOLEAN /\ inFlight' \in BOOLEAN
                   /\ gen' \in 0..MaxGen /\ revision' \in 0..MaxRevision
                   /\ editing' \in Pads \cup {None} /\ draft' \in Texts
                   /\ mem' \in Vaults /\ disk' \in Vaults
                   /\ files' \subseteq Tasks
           Kept == /\ \A p \in Pads : TextOf(p, disk'[p]) /\ TextOf(p, mem'[p])
                   /\ editing' # None => TextOf(editing', draft')
           Slots == task' \in [Tasks -> Command \cup {None}] /\ CommandsKeepTheirText'
<1>0. Rest /\ Kept /\ Slots => TextInv'
    BY DEF TextInv, TypeOK, PadsKeepTheirText
<1>t. TypeOK /\ PadsKeepTheirText /\ CommandsKeepTheirText /\ Blank \in Texts
    BY DEF TextInv, Texts
<1>1. CASE Unlock
    BY <1>0, <1>t, <1>1, BoundAssumption
       DEF Unlock, TypeOK, PadsKeepTheirText, CommandsKeepTheirText, Editor
<1>2. CASE Lock
    <2>0. gen' \in 0..MaxGen /\ revision' \in 0..MaxRevision
        BY <1>t, <1>2, BoundAssumption DEF Lock, TypeOK
    <2>1. Rest /\ Kept
        BY <1>t, <1>2, <2>0 DEF Lock, TypeOK, PadsKeepTheirText, TextOf
    <2>2. Slots
        <3>1. task' = [u \in Tasks |-> None] \/ task' = task
            BY <1>2 DEF Lock
        <3> QED
            BY <1>t, <3>1 DEF CommandsKeepTheirText, TypeOK
    <2> QED
        BY <1>0, <2>1, <2>2
<1>3. CASE SaveKey
    <2>1. /\ editing \in Pads /\ SaveDraft(editing, draft, revision, mem, TRUE, {})
          /\ UNCHANGED <<up, unlocked, gen, editing, draft, dirty, revision, disk, files>>
        BY <1>t, <1>3 DEF SaveKey, TypeOK
    <2>2. /\ draft \in Texts /\ revision \in 0..MaxRevision /\ mem \in Vaults
          /\ \A q \in Pads : TextOf(q, mem[q])
          /\ TextOf(editing, draft)
        BY <1>t, <2>1, NoneAssumption DEF TypeOK, PadsKeepTheirText
    <2>3. /\ mem' \in Vaults /\ inFlight' \in BOOLEAN /\ Slots
          /\ \A q \in Pads : TextOf(q, mem'[q])
        BY <2>1, <2>2, NoSlots, SaveDraftKeepsText, Zenon
    <2> QED
        BY <1>0, <1>t, <2>1, <2>3 DEF TypeOK, PadsKeepTheirText
<1>4. CASE ExternalEditor
    <2>1. /\ editing \in Pads /\ draft \in Texts /\ TextOf(editing, draft)
          /\ Start(Work("editor", draft, 0, FALSE), {})
        BY <1>t, <1>4, NoneAssumption DEF ExternalEditor, TypeOK, PadsKeepTheirText
    <2>2. Work("editor", draft, 0, FALSE) \in Command
        BY <1>t, <2>1, BoundAssumption DEF TypeOK, Work, Command
    <2>3. /\ Work("editor", draft, 0, FALSE).pad = editing
          /\ Work("editor", draft, 0, FALSE).text = draft
        BY DEF Work
    <2>4. Slots
        BY <2>1, <2>2, <2>3, NoSlots, CommandStarted, Zenon
    <2> QED
        BY <1>0, <1>t, <1>4, <2>4 DEF ExternalEditor, TypeOK, PadsKeepTheirText, Editor
<1>5. ASSUME NEW clear \in BOOLEAN, Type(clear)
      PROVE  TextInv'
    <2>0. editing \in Pads /\ revision + 1 \in 0..MaxRevision
        BY <1>t, <1>5, BoundAssumption DEF Type, TypeOK
    <2>1. /\ editing \in Pads /\ revision + 1 \in 0..MaxRevision
          /\ Start(Work("timer", Blank, revision + 1, FALSE), {})
        BY <2>0, <1>5, Zenon DEF Type
    <2>2. Work("timer", Blank, revision + 1, FALSE) \in Command
        BY <1>t, <2>1, BoundAssumption DEF TypeOK, Work, Command
    <2>3. TextOf(Work("timer", Blank, revision + 1, FALSE).pad,
                 Work("timer", Blank, revision + 1, FALSE).text)
        BY DEF Work, TextOf
    <2>4. Slots
        BY <2>1, <2>2, <2>3, NoSlots, CommandStarted, Zenon
    <2>5. draft' \in Texts /\ TextOf(editing, draft')
        BY <1>5, <2>1 DEF Type, Texts, TextOf
    <2> QED
        BY <1>0, <1>t, <1>5, <2>1, <2>4, <2>5 DEF Type, TypeOK, PadsKeepTheirText
<1>6. ASSUME NEW p \in Pads, EditPad(p)
      PROVE  TextInv'
    <2>1. mem[p] \in Texts /\ TextOf(p, mem[p])
        BY <1>t, <1>6 DEF EditPad, TypeOK, PadsKeepTheirText, Vaults
    <2> QED
        BY <1>0, <1>t, <1>6, <2>1
           DEF EditPad, TypeOK, PadsKeepTheirText, CommandsKeepTheirText
<1>7. ASSUME NEW p \in Pads, NewPad(p)
      PROVE  TextInv'
    <2> DEFINE v == [mem EXCEPT ![p] = Blank]
    <2>1. v \in Vaults /\ (\A q \in Pads : TextOf(q, v[q])) /\ TextOf(p, Blank)
        BY <1>t DEF TypeOK, PadsKeepTheirText, Vaults, TextOf
    <2>0. revision + 1 \in 0..MaxRevision
        BY <1>t, <1>7, BoundAssumption DEF NewPad, TypeOK
    <2>2. /\ revision + 1 \in 0..MaxRevision
          /\ SaveDraft(p, Blank, revision + 1, v, FALSE, {})
        BY <2>0, <1>7, Zenon DEF NewPad
    <2>3. /\ mem' \in Vaults /\ inFlight' \in BOOLEAN /\ Slots
          /\ \A q \in Pads : TextOf(q, mem'[q])
        BY <1>t, <2>1, <2>2, NoSlots, SaveDraftKeepsText, Zenon
    <2> QED
        BY <1>0, <1>t, <1>7, <2>1, <2>2, <2>3 DEF NewPad, TypeOK, PadsKeepTheirText
<1>8. ASSUME NEW p \in Pads, DeletePad(p)
      PROVE  TextInv'
    <2> DEFINE c == [Work("delete", Blank, 0, FALSE) EXCEPT !.pad = p]
    <2>0. 0 \in 0..MaxRevision
        BY BoundAssumption
    <2>a. \A close \in BOOLEAN :
            LET d == [Work("delete", Blank, 0, close) EXCEPT !.pad = p]
            IN  d \in Command /\ d.pad = p /\ d.text = Blank
        BY <1>t, <2>0, WorkType
    <2>1. c \in Command /\ c.pad = p /\ c.text = Blank
        BY <2>a, NoSlots, Zenon
    <2>2. Start(c, {}) /\ TextOf(p, Blank)
        BY <1>8 DEF DeletePad, TextOf
    <2>3. Slots
        BY <2>1, <2>2, NoSlots, CommandStarted, Zenon
    <2> QED
        BY <1>0, <1>t, <1>8, <2>3 DEF DeletePad, TypeOK, PadsKeepTheirText, Editor
<1> QED
    BY <1>1, <1>2, <1>3, <1>4, <1>5, <1>6, <1>7, <1>8 DEF Keys

(* Only a slot changes, the editor and its note, or the notes of the       *)
(* session: what is left of the invariant.                                 *)
LEMMA TextInvParts ==
    ASSUME TextInv,
           up' \in {"up", "executing", "quit"}, inFlight' \in BOOLEAN, dirty' \in BOOLEAN,
           UNCHANGED <<unlocked, gen>>, revision' \in 0..MaxRevision,
           editing' = editing \/ editing' = None,
           draft' \in Texts, editing' # None => TextOf(editing', draft'),
           mem' \in Vaults, \A p \in Pads : TextOf(p, mem'[p]),
           disk' \in Vaults, \A p \in Pads : TextOf(p, disk'[p]),
           files' \in SUBSET Tasks,
           task' \in [Tasks -> Command \cup {None}], CommandsKeepTheirText'
    PROVE  TextInv'
BY DEF TextInv, TypeOK, PadsKeepTheirText

(* What commands do. *)
LEMMA WorkKeepsText ==
    ASSUME TextInv, NEW t \in Tasks,
           SaveRuns(t) \/ DeleteRuns(t) \/ EditorPrepares(t) \/ EditorEnds(t)
    PROVE  TextInv'
<1>t. TypeOK /\ PadsKeepTheirText /\ CommandsKeepTheirText
    BY DEF TextInv
<1>1. /\ task[t] \in Command /\ task[t] # None /\ TextOf(task[t].pad, task[t].text)
      /\ \A p \in Pads : TextOf(p, mem[p]) /\ TextOf(p, disk[p])
    BY <1>t, NoneAssumption
       DEF SaveRuns, DeleteRuns, EditorPrepares, EditorEnds, Running, TypeOK,
           CommandsKeepTheirText, PadsKeepTheirText
<1>2. gen \in 0..MaxGen
    BY <1>t DEF TypeOK
<1>3. CASE SaveRuns(t)
    <2>1. PICK r \in {"done", "failed"} :
            /\ task' = [task EXCEPT ![t] = [task[t] EXCEPT !.at = r]]
            /\ disk' = disk \/ disk' = Updated(disk, task[t].pad, task[t].text)
        BY <1>3 DEF SaveRuns, Ends
    <2>2. task' \in [Tasks -> Command \cup {None}] /\ CommandsKeepTheirText'
        <3>1. /\ [task[t] EXCEPT !.at = r] \in Command
              /\ [task[t] EXCEPT !.at = r].pad = task[t].pad
              /\ [task[t] EXCEPT !.at = r].text = task[t].text
            BY <1>1 DEF Command
        <3> QED
            BY <1>1, <2>1, <3>1, CommandAdvances
    <2>3. task[t].pad \in Pads /\ task[t].text \in Texts
        BY <1>1 DEF Command
    <2>4. disk' \in Vaults /\ \A p \in Pads : TextOf(p, disk'[p])
        BY <1>t, <1>1, <2>1, <2>3, UpdatedType DEF TypeOK
    <2> QED
        BY <1>t, <1>1, <1>3, <2>2, <2>4, TextInvParts
           DEF SaveRuns, TypeOK, PadsKeepTheirText, Editor
<1>4. CASE DeleteRuns(t)
    <2>1. PICK r \in {"done", "failed"} :
            /\ task' = [task EXCEPT ![t] = [task[t] EXCEPT !.at = r, !.gen = gen]]
            /\ disk' = disk \/ disk' = [disk EXCEPT ![task[t].pad] = None]
        BY <1>4 DEF DeleteRuns
    <2>2. task' \in [Tasks -> Command \cup {None}] /\ CommandsKeepTheirText'
        <3>1. /\ [task[t] EXCEPT !.at = r, !.gen = gen] \in Command
              /\ [task[t] EXCEPT !.at = r, !.gen = gen].pad = task[t].pad
              /\ [task[t] EXCEPT !.at = r, !.gen = gen].text = task[t].text
            BY <1>1, <1>2 DEF Command
        <3> QED
            BY <1>1, <2>1, <3>1, CommandAdvances
    <2>3. disk' \in Vaults /\ \A p \in Pads : TextOf(p, disk'[p])
        BY <1>t, <1>1, <2>1 DEF TypeOK, Vaults, TextOf
    <2> QED
        BY <1>t, <1>1, <1>4, <2>2, <2>3, TextInvParts
           DEF DeleteRuns, TypeOK, PadsKeepTheirText, Editor
<1>5. CASE EditorPrepares(t)
    <2>1. PICK r \in {"done", "failed"} :
            /\ task' = [task EXCEPT ![t] = [task[t] EXCEPT !.at = r]]
            /\ files' \in SUBSET Tasks
        BY <1>t, <1>5 DEF EditorPrepares, Ends, Outcomes, TypeOK
    <2>2. task' \in [Tasks -> Command \cup {None}] /\ CommandsKeepTheirText'
        <3>1. /\ [task[t] EXCEPT !.at = r] \in Command
              /\ [task[t] EXCEPT !.at = r].pad = task[t].pad
              /\ [task[t] EXCEPT !.at = r].text = task[t].text
            BY <1>1 DEF Command
        <3> QED
            BY <1>1, <2>1, <3>1, CommandAdvances
    <2> QED
        BY <1>t, <1>1, <1>5, <2>1, <2>2, TextInvParts
           DEF EditorPrepares, TypeOK, PadsKeepTheirText, Editor
<1>6. CASE EditorEnds(t)
    <2>1. PICK text \in {Blank} \cup [pad : {task[t].pad}, age : revision..MaxRevision],
               r \in {"done", "failed"} :
            task' = [task EXCEPT ![t].kind = "edited", ![t].text = text, ![t].at = r]
        BY <1>6 DEF EditorEnds, Outcomes
    <2>2. text \in Texts /\ TextOf(task[t].pad, text)
        BY <1>t, <1>1, <2>1, BoundAssumption DEF Texts, TextOf, TypeOK, Command
    <2>3. task' \in [Tasks -> Command \cup {None}] /\ CommandsKeepTheirText'
        <3> DEFINE c == [task[t] EXCEPT !.kind = "edited", !.text = text, !.at = r]
        <3>1. c \in Command /\ c.pad = task[t].pad /\ c.text = text
            BY <1>1, <2>2 DEF Command
        <3>2. task' = [task EXCEPT ![t] = c]
            BY <1>t, <1>1, <2>1 DEF TypeOK
        <3> QED
            BY <1>1, <2>2, <3>1, <3>2, CommandAdvances
    <2>4. files' \in SUBSET Tasks
        BY <1>t, <1>6 DEF EditorEnds, TypeOK
    <2> QED
        BY <1>t, <1>1, <1>6, <2>3, <2>4, TextInvParts
           DEF EditorEnds, TypeOK, PadsKeepTheirText, Editor
<1> QED
    BY <1>3, <1>4, <1>5, <1>6

(* How timers and answers are handled. *)
LEMMA AnswersKeepText ==
    ASSUME TextInv, NEW t \in Tasks,
           TimerFires(t) \/ SaveAnswer(t) \/ DeleteAnswer(t) \/ EditorAnswer(t)
             \/ EditedAnswer(t)
    PROVE  TextInv'
<1>t. TypeOK /\ PadsKeepTheirText /\ CommandsKeepTheirText
    BY DEF TextInv
<1>1. /\ task[t] \in Command /\ task[t] # None /\ TextOf(task[t].pad, task[t].text)
      /\ \A p \in Pads : TextOf(p, mem[p]) /\ TextOf(p, disk[p])
    BY <1>t, NoneAssumption
       DEF TimerFires, SaveAnswer, DeleteAnswer, EditorAnswer, EditedAnswer, Running,
           Handled, TypeOK, CommandsKeepTheirText, PadsKeepTheirText
<1>2. {t} \in SUBSET Tasks
    OBVIOUS
<1>d. ASSUME Drop(t)
      PROVE  task' \in [Tasks -> Command \cup {None}] /\ CommandsKeepTheirText'
    BY <1>d, CommandDropped
<1>3. CASE TimerFires(t)
    <2> DEFINE Saves == /\ editing \in Pads
                        /\ SaveDraft(editing, draft, revision, mem, FALSE, {t})
    <2>1. Saves \/ (Drop(t) /\ mem' = mem /\ inFlight' = inFlight)
        <3>1. task[t].pad \in Pads
            BY <1>1 DEF Command
        <3> QED
            BY <3>1, <1>3, Zenon DEF TimerFires
    <2>2. CASE Saves
        <3>1. /\ draft \in Texts /\ revision \in 0..MaxRevision /\ mem \in Vaults
              /\ \A q \in Pads : TextOf(q, mem[q])
              /\ TextOf(editing, draft)
            BY <1>t, <1>1, <2>2, NoneAssumption DEF TypeOK, PadsKeepTheirText
        <3>2. /\ mem' \in Vaults /\ inFlight' \in BOOLEAN
              /\ \A q \in Pads : TextOf(q, mem'[q])
              /\ task' \in [Tasks -> Command \cup {None}] /\ CommandsKeepTheirText'
            BY <1>2, <2>2, <3>1, NoSlots, SaveDraftKeepsText, Zenon
        <3> QED
            BY <1>t, <1>1, <1>3, <3>2, TextInvParts DEF TimerFires, TypeOK, PadsKeepTheirText
    <2>3. CASE Drop(t) /\ mem' = mem /\ inFlight' = inFlight
        BY <1>t, <1>1, <1>d, <1>3, <2>3, TextInvParts DEF TimerFires, TypeOK, PadsKeepTheirText
    <2> QED
        BY <2>1, <2>2, <2>3
<1>4. CASE SaveAnswer(t)
    <2> DEFINE timer == [Work("timer", Blank, revision, FALSE) EXCEPT !.pad = editing']
    <2>1. /\ UNCHANGED <<up, unlocked, gen, revision, disk, files, draft>>
          /\ inFlight' \in BOOLEAN /\ dirty' \in BOOLEAN
          /\ mem' = mem \/ mem' = disk
          /\ editing' = editing \/ editing' = None
        BY <1>t, <1>4 DEF SaveAnswer, TypeOK
    <2>2. Drop(t) \/ (editing' # None /\ Start(timer, {t}))
        BY <1>4, Zenon DEF SaveAnswer, AutosaveDue
    <2>3. task' \in [Tasks -> Command \cup {None}] /\ CommandsKeepTheirText'
        <3>1. CASE editing' # None /\ Start(timer, {t})
            <4>1. editing' \in Pads /\ revision \in 0..MaxRevision
                BY <1>t, <2>1, <3>1 DEF TypeOK
            <4>2. timer \in Command /\ TextOf(timer.pad, timer.text)
                BY <1>t, <4>1, TimerHasNoText, Zenon
            <4> QED
                BY <1>2, <3>1, <4>2, CommandStarted, Zenon
        <3> QED
            BY <1>d, <2>2, <3>1
    <2> QED
        BY <1>t, <1>1, <2>1, <2>3, TextInvParts DEF TypeOK, PadsKeepTheirText
<1>5. CASE DeleteAnswer(t)
    BY <1>t, <1>1, <1>d, <1>5, TextInvParts DEF DeleteAnswer, TypeOK, PadsKeepTheirText, Editor
<1>6. CASE EditorAnswer(t)
    <2>1. task' \in [Tasks -> Command \cup {None}] /\ CommandsKeepTheirText'
        <3>1. CASE task' = [task EXCEPT ![t].kind = "child", ![t].at = "running"]
            <4> DEFINE c == [task[t] EXCEPT !.kind = "child", !.at = "running"]
            <4>1. c \in Command /\ c.pad = task[t].pad /\ c.text = task[t].text
                BY <1>1 DEF Command
            <4>2. task' = [task EXCEPT ![t] = c]
                BY <1>t, <1>1, <3>1 DEF TypeOK
            <4> QED
                BY <1>1, <4>1, <4>2, CommandAdvances
        <3> QED
            BY <1>d, <1>6, <3>1 DEF EditorAnswer
    <2> QED
        BY <1>t, <1>1, <1>6, <2>1, TextInvParts
           DEF EditorAnswer, CleanedUp, TypeOK, PadsKeepTheirText, Editor
<1>7. CASE EditedAnswer(t)
    <2>1. CASE task[t].at = "done" /\ Wanted(task[t])
        <3> DEFINE timer == [Work("timer", Blank, revision + 1, FALSE) EXCEPT !.pad = editing]
        <3>1. /\ editing = task[t].pad /\ revision' = revision + 1
              /\ draft' = task[t].text /\ dirty' = TRUE
              /\ UNCHANGED <<up, unlocked, gen, editing, inFlight, mem, disk, files>>
            BY <1>7, <2>1 DEF EditedAnswer, Wanted
        <3>2. Start(timer, {t})
            BY <1>7, <2>1, Zenon DEF EditedAnswer
        <3>3. editing \in Pads /\ revision + 1 \in 0..MaxRevision
            BY <1>t, <1>1, <1>7, <2>1, <3>1, BoundAssumption DEF EditedAnswer, TypeOK, Command
        <3>4. timer \in Command /\ TextOf(timer.pad, timer.text)
            BY <1>t, <3>3, TimerHasNoText, Zenon
        <3>5. task' \in [Tasks -> Command \cup {None}] /\ CommandsKeepTheirText'
            BY <1>2, <3>2, <3>4, CommandStarted, Zenon
        <3>6. draft' \in Texts /\ TextOf(editing, draft')
            BY <1>1, <3>1 DEF Command
        <3> QED
            BY <1>t, <1>1, <3>1, <3>3, <3>5, <3>6, TextInvParts DEF TypeOK, PadsKeepTheirText
    <2>2. CASE ~(task[t].at = "done" /\ Wanted(task[t]))
        BY <1>t, <1>1, <1>d, <1>7, <2>2, TextInvParts
           DEF EditedAnswer, TypeOK, PadsKeepTheirText
    <2> QED
        BY <2>1, <2>2
<1> QED
    BY <1>3, <1>4, <1>5, <1>6, <1>7

LEMMA InitTextInv == Init => TextInv
<1> SUFFICES ASSUME Init PROVE TextInv
    OBVIOUS
<1>1. Blank \in Texts /\ 0 \in 0..MaxGen /\ 0 \in 0..MaxRevision
    BY BoundAssumption DEF Texts
<1> QED
    BY <1>1 DEF Init, TextInv, TypeOK, PadsKeepTheirText, CommandsKeepTheirText, TextOf, Vaults

LEMMA NextTextInv == TextInv /\ [Next]_vars => TextInv'
<1> SUFFICES ASSUME TextInv, [Next]_vars PROVE TextInv'
    OBVIOUS
<1>1. CASE Keys
    BY <1>1, KeysKeepText
<1>2. CASE Restart
    BY <1>2, BoundAssumption
       DEF Restart, TextInv, TypeOK, PadsKeepTheirText, CommandsKeepTheirText
<1>3. CASE OtherStarts
    BY <1>3 DEF OtherStarts, Editor, TextInv, TypeOK, PadsKeepTheirText, CommandsKeepTheirText
<1>4. ASSUME NEW t \in Tasks, Steps(t) PROVE TextInv'
    BY <1>4, WorkKeepsText, AnswersKeepText DEF Steps
<1>5. CASE UNCHANGED vars
    BY <1>5 DEF vars, Editor, TextInv, TypeOK, PadsKeepTheirText, CommandsKeepTheirText
<1> QED
    BY <1>1, <1>2, <1>3, <1>4, <1>5 DEF Next

(* The variables keep their types. *)
THEOREM NotesTypeCorrect == Spec => []TypeOK
BY InitTextInv, NextTextInv, PTL DEF Spec, TextInv

(* What is typed in a note never reaches another one (README.md:93), not   *)
(* in the editor, in the session's vault or on disk.                       *)
THEOREM PadsAlwaysKeepTheirText == Spec => []PadsKeepTheirText
BY InitTextInv, NextTextInv, PTL DEF Spec, TextInv
-----------------------------------------------------------------------------
(* A timer or command changes by its own steps, and when the program quits.*)
LEMMA SaveDraftElsewhere ==
    ASSUME NEW p, NEW d, NEW r, NEW v, NEW close, NEW L \in SUBSET Tasks,
           SaveDraft(p, d, r, v, close, L)
    PROVE  \A u \in Tasks : task[u] # None /\ u \notin L => task'[u] = task[u]
<1>1. PICK c : Start(c, L)
    BY DEF SaveDraft
<1> QED
    BY <1>1, StartTakesFreeSlot

LEMMA KeysElsewhere ==
    ASSUME Keys, NEW u \in Tasks, task[u] # None, task'[u] # task[u]
    PROVE  up' = "quit"
<1>0. ASSUME NEW c, Start(c, {})
      PROVE  task'[u] = task[u]
    BY <1>0, NoSlots, StartTakesFreeSlot
<1>1. CASE Unlock
    BY <1>1 DEF Unlock
<1>2. CASE Lock
    BY <1>2 DEF Lock
<1>3. CASE SaveKey
    <2>1. SaveDraft(editing, draft, revision, mem, TRUE, {})
        BY <1>3, Zenon DEF SaveKey
    <2> QED
        BY <2>1, NoSlots, SaveDraftElsewhere, Zenon
<1>4. CASE ExternalEditor
    BY <1>0, <1>4, Zenon DEF ExternalEditor
<1>5. ASSUME NEW clear \in BOOLEAN, Type(clear) PROVE FALSE
    BY <1>0, <1>5, Zenon DEF Type
<1>6. ASSUME NEW p \in Pads, EditPad(p) PROVE FALSE
    BY <1>6 DEF EditPad
<1>7. ASSUME NEW p \in Pads, NewPad(p) PROVE FALSE
    <2>1. SaveDraft(p, Blank, revision + 1, [mem EXCEPT ![p] = Blank], FALSE, {})
        BY <1>7, Zenon DEF NewPad
    <2> QED
        BY <2>1, NoSlots, SaveDraftElsewhere, Zenon
<1>8. ASSUME NEW p \in Pads, DeletePad(p) PROVE FALSE
    BY <1>0, <1>8, Zenon DEF DeletePad
<1> QED
    BY <1>1, <1>2, <1>3, <1>4, <1>5, <1>6, <1>7, <1>8 DEF Keys

LEMMA StepsElsewhere ==
    ASSUME TypeOK, NEW t \in Tasks, Steps(t), NEW u \in Tasks, task[u] # None, u # t
    PROVE  task'[u] = task[u]
<1>0. {t} \in SUBSET Tasks /\ u \notin {t}
    OBVIOUS
<1>1. ASSUME NEW c, Start(c, {t})
      PROVE  task'[u] = task[u]
    BY <1>0, <1>1, StartTakesFreeSlot
<1>2. ASSUME NEW p, NEW d, NEW r, NEW v, SaveDraft(p, d, r, v, FALSE, {t})
      PROVE  task'[u] = task[u]
    BY <1>0, <1>2, SaveDraftElsewhere, Zenon
<1>3. ASSUME Drop(t)
      PROVE  task'[u] = task[u]
    BY <1>3 DEF Drop, TypeOK
<1>4. CASE SaveRuns(t) \/ DeleteRuns(t) \/ EditorPrepares(t) \/ EditorEnds(t)
    BY <1>4 DEF SaveRuns, DeleteRuns, EditorPrepares, EditorEnds, Ends, TypeOK
<1>5. CASE TimerFires(t)
    BY <1>2, <1>3, <1>5, Zenon DEF TimerFires
<1>6. CASE SaveAnswer(t)
    BY <1>1, <1>3, <1>6, Zenon DEF SaveAnswer
<1>7. CASE DeleteAnswer(t)
    BY <1>3, <1>7 DEF DeleteAnswer
<1>8. CASE EditorAnswer(t)
    BY <1>3, <1>8 DEF EditorAnswer, TypeOK
<1>9. CASE EditedAnswer(t)
    BY <1>1, <1>3, <1>9, Zenon DEF EditedAnswer
<1> QED
    BY <1>4, <1>5, <1>6, <1>7, <1>8, <1>9 DEF Steps
-----------------------------------------------------------------------------
LEMMA NextPlaintext ==
    ASSUME TypeOK, PlaintextAccounted, [Next]_vars
    PROVE  PlaintextAccounted'
<1>1. CASE Keys
    <2>1. files' = files /\ up = "up"
        BY <1>1 DEF Keys, Unlock, Lock, SaveKey, ExternalEditor, Type, EditPad, NewPad, DeletePad
    <2> QED
        BY <1>1, <2>1, KeysElsewhere DEF PlaintextAccounted, TypeOK
<1>2. CASE Restart \/ OtherStarts
    BY <1>2 DEF Restart, OtherStarts, PlaintextAccounted
<1>3. ASSUME NEW t \in Tasks, Steps(t)
      PROVE  PlaintextAccounted'
    <2>0. up # "quit" /\ task[t] # None /\ task \in [Tasks -> Command \cup {None}]
        BY <1>3 DEF Steps, SaveRuns, DeleteRuns, EditorPrepares, TimerFires, SaveAnswer,
                    DeleteAnswer, EditorAnswer, EditorEnds, EditedAnswer, Running, Handled,
                    TypeOK
    <2>1. files \subseteq Tasks /\ \A u \in files : task[u] # None /\ task[u].kind \in {"editor", "child"}
        BY <2>0 DEF PlaintextAccounted, TypeOK
    <2>2. \A u \in files \ {t} : task'[u] = task[u]
        BY <1>3, <2>1, StepsElsewhere
    <2>3. CASE t \notin files' /\ files' \subseteq files
        BY <2>1, <2>2, <2>3 DEF PlaintextAccounted
    <2>4. CASE SaveRuns(t) \/ DeleteRuns(t)
        <3>1. files' = files /\ task[t].kind \notin {"editor", "child"}
            BY <2>4 DEF SaveRuns, DeleteRuns, Running
        <3> QED
            BY <2>1, <2>3, <3>1
    <2>5. CASE EditorPrepares(t)
        <3>1. /\ files' = files \/ files' = files \cup {t}
              /\ task'[t].kind = "editor" /\ task'[t] # None
            <4>1. PICK r \in {"done", "failed"} : task'[t] = [task[t] EXCEPT !.at = r]
                BY <2>0, <2>5 DEF EditorPrepares, Ends, Outcomes
            <4>2. task'[t] \in Command /\ task'[t].kind = "editor"
                BY <2>0, <2>5, <4>1 DEF EditorPrepares, Running, Command
            <4> QED
                BY <2>5, <4>2, NoneAssumption DEF EditorPrepares
        <3> QED
            BY <2>1, <2>2, <3>1 DEF PlaintextAccounted
    <2>6. CASE TimerFires(t) \/ SaveAnswer(t) \/ DeleteAnswer(t) \/ EditedAnswer(t)
        <3>1. files' = files /\ task[t].kind \notin {"editor", "child"}
            <4>1. task[t].kind \in {"timer", "save", "delete", "edited"}
                BY <2>6 DEF TimerFires, SaveAnswer, DeleteAnswer, EditedAnswer, Running, Handled
            <4>2. files' = files
                BY <2>6 DEF TimerFires, SaveAnswer, DeleteAnswer, EditedAnswer
            <4> QED
                BY <4>1, <4>2
        <3> QED
            BY <2>1, <2>3, <3>1
    <2>7. CASE EditorAnswer(t)
        <3>1. CASE files' = files /\ task' = [task EXCEPT ![t].kind = "child", ![t].at = "running"]
            <4>1. task'[t] = [task[t] EXCEPT !.kind = "child", !.at = "running"]
                BY <2>0, <3>1
            <4>2. task'[t] \in Command /\ task'[t].kind = "child"
                BY <2>0, <4>1 DEF Command
            <4> QED
                BY <2>1, <2>2, <3>1, <4>2, NoneAssumption DEF PlaintextAccounted
        <3>2. CASE files' = files \ {t}
            BY <2>3, <3>2
        <3> QED
            BY <2>7, <3>1, <3>2 DEF EditorAnswer, CleanedUp
    <2>8. CASE EditorEnds(t)
        BY <2>3, <2>8 DEF EditorEnds
    <2> QED
        BY <1>3, <2>4, <2>5, <2>6, <2>7, <2>8 DEF Steps
<1>4. CASE UNCHANGED vars
    BY <1>4 DEF vars, PlaintextAccounted
<1> QED
    BY <1>1, <1>2, <1>3, <1>4 DEF Next

(* While the interface is up every plaintext file belongs to an editor     *)
(* that will remove it (docs/release-evidence.md:37).                      *)
THEOREM PlaintextAlwaysAccounted == Spec => []PlaintextAccounted
<1>1. Init => PlaintextAccounted
    BY DEF Init, PlaintextAccounted
<1>2. TextInv => TypeOK
    BY DEF TextInv
<1> QED
    BY <1>1, <1>2, InitTextInv, NextTextInv, NextPlaintext, PTL DEF Spec

(* An answer of another session leaves editor and vault alone (the fences  *)
(* of scratchSavedMsg and externalEditorFinishedMsg).                      *)
THEOREM StaleAnswersAlwaysIgnored == Spec => StaleAnswersIgnored
<1> DEFINE Ignored ==
        \A t \in Tasks : task[t] # None /\ task[t].kind \in {"save", "edited"}
            /\ task[t].gen # gen /\ task'[t] # task[t] /\ up' # "quit"
          => UNCHANGED <<editing, draft, dirty, mem>>
<1>1. TypeOK /\ [Next]_vars => [Ignored]_vars
    <2> SUFFICES ASSUME TypeOK, Next, NEW t \in Tasks, task[t] # None,
                        task[t].kind \in {"save", "edited"}, task[t].gen # gen,
                        task'[t] # task[t], up' # "quit"
                 PROVE  UNCHANGED <<editing, draft, dirty, mem>>
        OBVIOUS
    <2>1. ~Keys
        BY KeysElsewhere
    <2>2. ~Restart /\ ~OtherStarts
        BY DEF Restart, OtherStarts
    <2>3. Steps(t)
        BY <2>1, <2>2, StepsElsewhere DEF Next
    <2>4. SaveRuns(t) \/ SaveAnswer(t) \/ EditedAnswer(t)
        BY <2>3 DEF Steps, DeleteRuns, EditorPrepares, TimerFires, DeleteAnswer, EditorAnswer,
                    EditorEnds, Running, Handled
    <2>5. ~Fresh(task[t])
        BY DEF Fresh
    <2> QED
        BY <2>4, <2>5 DEF SaveRuns, SaveAnswer, EditedAnswer, Wanted, Editor
<1>2. TextInv => TypeOK
    BY DEF TextInv
<1> QED
    BY <1>1, <1>2, InitTextInv, NextTextInv, PTL DEF Spec, StaleAnswersIgnored
=============================================================================
