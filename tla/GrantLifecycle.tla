--------------------------- MODULE GrantLifecycle ---------------------------
(***************************************************************************)
(* What the broker promises about an access grant, whatever the number of  *)
(* processes working on broker.json and wherever one of them dies: a grant *)
(* is created switched off, is switched on at most once and only out of an *)
(* approval that is still pending, and once suspended or dropped it is     *)
(* never switched on again.                                                *)
(***************************************************************************)
CONSTANT GrantIds

VARIABLE state

Stages == {"unborn", "staged", "active", "suspended", "gone"}

In(stage) == {g \in GrantIds : state[g] = stage}
Move(G, stage) == state' = [g \in GrantIds |-> IF g \in G THEN stage ELSE state[g]]

Init == state = [g \in GrantIds |-> "unborn"]

Stage    == \E g \in In("unborn") : Move({g}, "staged")
Activate == \E g \in In("staged") : Move({g}, "active")
Suspend  == \E G \in SUBSET In("active") : Move(G, "suspended")
Drop     == \E G \in SUBSET (GrantIds \ In("unborn")) : Move(G, "gone")

Next == Stage \/ Activate \/ Suspend \/ Drop

Spec == Init /\ [][Next]_state
=============================================================================
