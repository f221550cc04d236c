-------------------------- MODULE MCConfigOverlay --------------------------
EXTENDS ConfigOverlayHistory, TLC

CONSTANTS l1, l2, settings, catalog, a, b, keys, rest

(* A merge sets the keys of the settings and leaves the rest. *)
Merge(f, x) == [file |-> f, layer |-> x, replace |-> FALSE, over |-> {keys}]
Replace(f, x) == [file |-> f, layer |-> x, replace |-> TRUE, over |-> {}]

(* A launch that has the files to itself, with a plan that writes one file *)
(* twice and replaces another.                                             *)
Alone == l1 :> <<Merge(settings, a), Replace(catalog, a), Merge(settings, b)>>
         @@ l2 :> <<>>

(* Two launches of different profiles that share a file. *)
Shared == l1 :> <<Merge(settings, a)>> @@ l2 :> <<Merge(settings, b)>>

(* The same profile launched twice, of an app whose file is replaced, and  *)
(* of one into whose file the settings are merged.                         *)
Twice == l1 :> <<Replace(settings, a)>> @@ l2 :> <<Replace(settings, a)>>
Again == l1 :> <<Merge(settings, a)>> @@ l2 :> <<Merge(settings, a)>>

MCPlans == {Alone, Shared, Twice, Again}
=============================================================================
