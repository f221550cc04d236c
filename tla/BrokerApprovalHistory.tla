----------------------- MODULE BrokerApprovalHistory -----------------------
(***************************************************************************)
(* Broker approvals, with why a record's bits are on: what administrators  *)
(* gave, what a recovery took for given, and what the clean-up of old      *)
(* staged grants dropped.                                                  *)
(***************************************************************************)
EXTENDS BrokerApproval

VARIABLES
    given,          \* per record, the capabilities administrators have switched on
    adopted,        \* <<record, capability>>: made administrative by a recovery
    swept           \* the records whose pending approvals the clean-up has dropped

history == <<given, adopted, swept>>

Cleanup == \E cutoff \in GrantIds : CleanupStaleStaged(cutoff)
Recovery == \E p \in Procs : RecoverApprovalGrant(p) \/ RecoverPendingApprovals(p)

(* The flags an administrator sets in this step. *)
Gives(s) == IF MarkStep /\ s \in Present
            THEN vault'[s].policy.admin \ vault[s].policy.admin ELSE {}

(* A recovery labels administrative what the baseline of an approval had,  *)
(* whoever switched it on (approval.go:258, 430).                          *)
Adopts(s) == IF Recovery /\ s \in Present
             THEN AdminSourced(vault'[s].policy)
                    \cap UNION {meta.intents[g].base.allow : g \in IntentsFor(meta, s)}
             ELSE {}

HInit ==
    /\ Init
    /\ given = [s \in Secrets |-> vault[s].policy.allow]
    /\ adopted = {}
    /\ swept = {}
HNext ==
    /\ Next
    /\ given' = [s \in Secrets |-> given[s] \cup Gives(s)]
    /\ adopted' = adopted \cup
          {sc \in Secrets \X Caps : sc[2] \in Adopts(sc[1]) \ given[sc[1]]}
    /\ swept' = swept \cup
          {s \in Secrets : Cleanup /\ IntentsFor(meta, s) # IntentsFor(meta', s)}

HSpec == HInit /\ [][HNext]_<<vars, history>>

(* A bit that is on, whatever its label, is there for a reason: an         *)
(* administrator gave it, a grant that is on needs it, or an approval is   *)
(* still on record that wants it, so that recovery will find it.  There    *)
(* are two ways in which the code leaves a bit without one: the clean-up   *)
(* of old staged grants, which drops intents without looking at the vault  *)
(* (swept), and a recovery, which takes another grant's bit in a baseline  *)
(* for the administrator's (adopted); that bit outlives its grant, against *)
(* approval.go:196-198.  No other operation, and no crash, adds a third.   *)
Justified(s) ==
    \A c \in vault[s].policy.allow :
        \/ c \in given[s]
        \/ Needing(meta, s, c) # {}
        \/ \E g \in IntentsFor(meta, s) : c \in meta.intents[g].caps
        \/ <<s, c>> \in adopted
GrantPolicyJustified == \A s \in Present \ swept : Justified(s)
=============================================================================
