----------------------------- MODULE MCCatalogue -----------------------------
EXTENDS Catalogue

CONSTANTS a, b, k1, n1, tui, cli

NoFamilies == {}

(* Everything but the operations that change what others refer to without  *)
(* taking the lock the others take, and the edits of one provider's record. *)
Safe(p) == Ops \ {"provider rename", "key edit", "bootstrap", "provider edit", "provider models"}
SafeCommands == [p \in Processes |-> IF p = Tui THEN Safe(p) ELSE Safe(p) \ InterfaceOnly]

(* One provider's record, changed whole or in part, and removed. *)
RecordCommands == [p \in Processes |->
    {"provider add", "provider remove", "provider edit", "provider models"}
    \cup IF p = Tui THEN {"provider rename", "restore defaults"} ELSE {}]

(* Everything that goes through a lock of the file it writes. *)
EditCommands == [p \in Processes |->
    {"provider add", "provider remove", "profile create", "profile delete", "key add"}
    \cup IF p = Tui THEN {"restore defaults", "key edit", "profile edit"}
         ELSE {}]

(* Keys are added by the interface, which checks their provider. *)
KeyCommands == [p \in Processes |->
    {"provider add", "provider remove", "key delete", "profile create"}
    \cup IF p = Tui THEN {"restore defaults", "key add", "key replace"} ELSE {}]

(* A command that merges the defaults, without a lock, beside the others.  *)
BootstrapCommands == [p \in Processes |->
    IF p = Tui THEN {"provider remove", "key add"} ELSE {"bootstrap", "profile create"}]

(* One run, five ways to use the program.                                  *)
MCCommands == {SafeCommands, RecordCommands, EditCommands, KeyCommands, BootstrapCommands}
=============================================================================
