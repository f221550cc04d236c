--------------------------- MODULE VaultContents ---------------------------
(***************************************************************************)
(* What a vault promises its users (internal/secret/vault.go): one set of  *)
(* records, created empty, that changes by one edit at a time, and only by *)
(* an edit somebody asked for.  Sealing, rekeying, repairing and migrating *)
(* it change nothing.                                                      *)
(***************************************************************************)
CONSTANTS Records, Absent

VARIABLES
    contents,
    asked           \* the edits asked for and not yet answered

Edits == [op : {"add", "remove"}, rec : Records]

Init == contents \in {Absent} \cup SUBSET Records /\ asked = {}

Create == contents = Absent /\ contents' = {}

Add(e) ==
    /\ e.op = "add"
    /\ e.rec \notin contents
    /\ contents' = contents \cup {e.rec}

Remove(e) ==
    /\ e.op = "remove"
    /\ e.rec \in contents
    /\ contents' = contents \ {e.rec}

Edit == contents # Absent /\ \E e \in asked : Add(e) \/ Remove(e)

Next == asked' \subseteq Edits /\ (Create \/ Edit \/ UNCHANGED contents)

Spec == Init /\ [][Next]_<<contents, asked>>
=============================================================================
