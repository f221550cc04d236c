------------------------- MODULE BrokerSessionFence -------------------------
(***************************************************************************)
(* The broker session with the history its generation fence is about.      *)
(***************************************************************************)
EXTENDS BrokerSession

(* History: the requests that were past a fence when the session was first *)
(* invalidated, by Lock or by Close.                                       *)
VARIABLES mayRelease, mayCommit

Released == {r \in Requests : answer[r] = "ok"}
At(position) == {r \in Requests : pc[r] = position}

FenceInit == Init /\ mayRelease = {} /\ mayCommit = {}
FenceNext ==
    /\ Next
    /\ IF cancelled = {} /\ cancelled' # {}
       THEN /\ mayRelease' = Released \cup At("releasing")
            /\ mayCommit' = committed \cup At("checked")
       ELSE UNCHANGED <<mayRelease, mayCommit>>

FenceSpec == FenceInit /\ [][FenceNext]_<<vars, mayRelease, mayCommit>>
FairFenceSpec == FenceSpec /\ Fairness

(* "any request that has not crossed its generation fence cannot release a *)
(* credential or commit a rotation after the user initiates lock": after   *)
(* Lock or Close was called, only requests that had already passed their   *)
(* second check release a credential, and only those past the first one    *)
(* commit.                                                                 *)
FenceHonoured ==
    cancelled # {} => Released \subseteq mayRelease /\ committed \subseteq mayCommit
=============================================================================
