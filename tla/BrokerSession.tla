--------------------------- MODULE BrokerSession ---------------------------
(***************************************************************************)
(* The broker's HTTP session (internal/broker/server.go): concurrent       *)
(* resolve and rotate requests against Lock (the auto-lock timer) and      *)
(* Close (the signal handler).                                             *)
(*                                                                         *)
(* Every section under s.mu is one step.  Lock invalidates first (locked,  *)
(* a new generation, the session context cancelled) and then waits until   *)
(* no request is active; a request looks at the session four times: when   *)
(* it copies the key, when it becomes active, before the operation and     *)
(* before it releases the result.                                          *)
(***************************************************************************)
EXTENDS Naturals, FiniteSets

CONSTANTS
    Requests,       \* HTTP requests, each served by a goroutine of its own
    Rotations,      \* those that are POST /v1/rotate
    MaxRequests,    \* capacity of the inflight semaphore (16)
    None

ASSUME RequestsAssumption == Rotations \subseteq Requests /\ None \notin Requests
ASSUME FiniteAssumption == IsFiniteSet(Requests)
ASSUME CapacityAssumption == MaxRequests \in Nat \ {0}

VARIABLES
    locked,         \* Session.locked; never cleared
    generation,     \* Session.generation
    cancelled,      \* generations whose session context is cancelled
    zeroed,         \* Session.vaultKey is all zeroes
    active,         \* Session.activeRequests
    operation,      \* holder of Session.operationMu
    inflight,       \* requests holding a slot of the semaphore
    pc, gen, key,   \* per request: its position, captured generation and key
    committed,      \* rotations written to the vault
    answer,         \* what the client was sent
    locker,         \* the auto-lock goroutine
    closer,         \* the signal goroutine
    down            \* whether the process still runs

session == <<locked, generation, cancelled, zeroed>>
vars == <<session, active, operation, inflight, pc, gen, key, committed,
          answer, locker, closer, down>>

Positions == {"idle", "arrived", "admitted", "keyed", "begun", "operating",
              "checked", "served", "releasing", "answered", "leaving", "done"}
Answers == {"none", "ok", "locked", "busy", "refused"}

(* Holding a slot of the semaphore; and between beginRequest and           *)
(* endRequest.                                                             *)
Served == {r \in Requests : pc[r] \notin {"idle", "arrived", "done"}}
Begun == {r \in Requests : pc[r] \in {"begun", "operating", "checked", "served",
                                      "releasing", "answered", "leaving"}}

Goto(r, to) == pc' = [pc EXCEPT ![r] = to]
Answer(r, code) == answer' = [answer EXCEPT ![r] = code]
LeaveSemaphore(r) == inflight' = inflight \ {r}

(* requestValid *)
RequestValidByGeneration(r) == ~locked /\ generation = gen[r]
RequestValid(r) ==
    /\ gen[r] \notin cancelled
    /\ ~locked /\ generation = gen[r]
-----------------------------------------------------------------------------
Init ==
    /\ locked = FALSE /\ generation = 0 /\ cancelled = {} /\ zeroed = FALSE
    /\ active = 0 /\ operation = None /\ inflight = {}
    /\ pc = [r \in Requests |-> "idle"]
    /\ gen = [r \in Requests |-> 0]
    /\ key = [r \in Requests |-> "none"]
    /\ committed = {}
    /\ answer = [r \in Requests |-> "none"]
    /\ locker = "idle" /\ closer = "idle" /\ down = "no"

Arrive(r) ==
    /\ pc[r] = "idle"
    /\ closer # "stopped"
    /\ Goto(r, "arrived")
    /\ UNCHANGED <<session, active, operation, inflight, gen, key, committed,
                   answer, locker, closer>>

(* The semaphore: a free slot, or 429 after two seconds without one. *)
Admit(r) ==
    /\ pc[r] = "arrived"
    /\ Cardinality(inflight) < MaxRequests
    /\ inflight' = inflight \cup {r}
    /\ Goto(r, "admitted")
    /\ UNCHANGED <<session, active, operation, gen, key, committed, answer,
                   locker, closer>>

ShedAndContinue(r) ==
    /\ pc[r] = "arrived"
    /\ Cardinality(inflight) >= MaxRequests
    /\ Goto(r, "admitted") /\ Answer(r, "busy")
    /\ UNCHANGED <<session, active, operation, inflight, gen, key, committed,
                   locker, closer>>
Shed(r) ==
    /\ pc[r] = "arrived"
    /\ Cardinality(inflight) >= MaxRequests
    /\ Goto(r, "done") /\ Answer(r, "busy")
    /\ UNCHANGED <<session, active, operation, inflight, gen, key, committed,
                   locker, closer>>

(* A malformed request, or a peer the listener did not identify. *)
Refuse(r) ==
    /\ pc[r] = "admitted"
    /\ Goto(r, "done") /\ Answer(r, "refused") /\ LeaveSemaphore(r)
    /\ UNCHANGED <<session, active, operation, gen, key, committed, locker,
                   closer>>

(* Session.key *)
ReadKey(r) ==
    /\ pc[r] = "admitted"
    /\ IF locked
       THEN /\ Goto(r, "done") /\ Answer(r, "locked") /\ LeaveSemaphore(r)
            /\ UNCHANGED key
       ELSE /\ key' = [key EXCEPT ![r] = IF zeroed THEN "zero" ELSE "real"]
            /\ Goto(r, "keyed")
            /\ UNCHANGED <<answer, inflight>>
    /\ UNCHANGED <<session, active, operation, gen, committed, locker, closer>>

BeginRequestUnchecked(r) ==
    /\ pc[r] = "keyed"
    /\ active' = active + 1
    /\ gen' = [gen EXCEPT ![r] = generation]
    /\ Goto(r, "begun")
    /\ UNCHANGED <<session, operation, inflight, key, committed, answer, locker,
                   closer>>
BeginRequest(r) ==
    /\ pc[r] = "keyed"
    /\ IF locked
       THEN /\ Goto(r, "done") /\ Answer(r, "locked") /\ LeaveSemaphore(r)
            /\ UNCHANGED <<active, gen>>
       ELSE /\ active' = active + 1
            /\ gen' = [gen EXCEPT ![r] = generation]
            /\ Goto(r, "begun")
            /\ UNCHANGED <<answer, inflight>>
    /\ UNCHANGED <<session, operation, key, committed, locker, closer>>

AcquireOperation(r) ==
    /\ pc[r] = "begun"
    /\ operation = None
    /\ operation' = r
    /\ Goto(r, "operating")
    /\ UNCHANGED <<session, active, inflight, gen, key, committed, answer,
                   locker, closer>>

(* The fence before the operation. *)
CheckBefore(r) ==
    /\ pc[r] = "operating"
    /\ IF RequestValid(r)
       THEN Goto(r, "checked") /\ UNCHANGED answer
       ELSE Goto(r, "answered") /\ Answer(r, "locked")
    /\ UNCHANGED <<session, active, operation, inflight, gen, key, committed,
                   locker, closer>>

(* Service.Resolve or Service.Rotate, under the lock of broker.json: the   *)
(* grant and the record's policy allow it, or the client is refused.       *)
Serve(r) ==
    /\ pc[r] = "checked"
    /\ \/ /\ committed' = committed \cup ({r} \cap Rotations)
          /\ Goto(r, "served")
          /\ UNCHANGED answer
       \/ /\ Goto(r, "answered") /\ Answer(r, "refused")
          /\ UNCHANGED committed
    /\ UNCHANGED <<session, active, operation, inflight, gen, key, locker,
                   closer>>

(* The fence after the operation. *)
CheckAfterOmitted(r) ==
    /\ pc[r] = "served"
    /\ Goto(r, "releasing")
    /\ UNCHANGED <<session, active, operation, inflight, gen, key, committed,
                   answer, locker, closer>>
CheckAfter(r) ==
    /\ pc[r] = "served"
    /\ IF RequestValid(r)
       THEN Goto(r, "releasing") /\ UNCHANGED answer
       ELSE Goto(r, "answered") /\ Answer(r, "locked")
    /\ UNCHANGED <<session, active, operation, inflight, gen, key, committed,
                   locker, closer>>

Respond(r) ==
    /\ pc[r] = "releasing"
    /\ Goto(r, "answered") /\ Answer(r, "ok")
    /\ UNCHANGED <<session, active, operation, inflight, gen, key, committed,
                   locker, closer>>

(* The deferred calls, last one first. *)
ReleaseOperationOnSuccess(r) ==
    /\ pc[r] = "answered"
    /\ operation' = IF answer[r] = "ok" THEN None ELSE operation
    /\ Goto(r, "leaving")
    /\ UNCHANGED <<session, active, inflight, gen, key, committed, answer,
                   locker, closer>>
ReleaseOperation(r) ==
    /\ pc[r] = "answered"
    /\ operation' = None
    /\ Goto(r, "leaving")
    /\ UNCHANGED <<session, active, inflight, gen, key, committed, answer,
                   locker, closer>>

(* endRequest, which wakes a waiting Lock, and the semaphore. *)
OneLess == IF active > 0 THEN active - 1 ELSE active
EndRequestSilently(r) ==
    /\ pc[r] = "leaving"
    /\ active' = OneLess
    /\ Goto(r, "done") /\ LeaveSemaphore(r)
    /\ UNCHANGED <<session, operation, gen, key, committed, answer, locker,
                   closer>>
EndRequest(r) ==
    /\ pc[r] = "leaving"
    /\ active' = OneLess
    /\ locker' = IF locker = "asleep" THEN "draining" ELSE locker
    /\ Goto(r, "done") /\ LeaveSemaphore(r)
    /\ UNCHANGED <<session, operation, gen, key, committed, answer, closer>>
-----------------------------------------------------------------------------
(* Session.Lock *)
LockBegin ==
    /\ locker = "idle"
    /\ locked' = TRUE
    /\ zeroed' = TRUE
    /\ cancelled' = cancelled \cup {generation}
    /\ generation' = generation + 1
    /\ locker' = "draining"
    /\ UNCHANGED <<active, operation, inflight, pc, gen, key, committed, answer,
                   closer>>

(* waitForActiveRequests: go to sleep, or see that nothing is active. *)
LockDrain ==
    /\ locker = "draining"
    /\ locker' = IF active > 0 THEN "asleep" ELSE "returned"
    /\ UNCHANGED <<session, active, operation, inflight, pc, gen, key, committed,
                   answer, closer>>

(* Session.Close, up to where it lets go of the mutex. *)
CloseBegin ==
    /\ closer = "idle"
    /\ zeroed' = TRUE
    /\ cancelled' = cancelled \cup {generation}
    /\ closer' = "draining"
    /\ UNCHANGED <<locked, generation, active, operation, inflight, pc, gen, key,
                   committed, answer, locker>>

(* Close's wait: with requests active it calls Cond.Wait without holding   *)
(* the mutex, and unlocking an unlocked mutex ends the Go program.  (Had   *)
(* another goroutine held it just then, its own Unlock may be the fatal    *)
(* one, or may be made good by a wakeup, after which Close looks again: a  *)
(* step that changes nothing here.)                                        *)
CloseDrain ==
    /\ closer = "draining"
    /\ IF active > 0
       THEN down' = "fatal" /\ UNCHANGED closer
       ELSE closer' = "stopped" /\ UNCHANGED down
    /\ UNCHANGED <<session, active, operation, inflight, pc, gen, key, committed,
                   answer, locker>>

(* The server is closed, Serve returns and the process ends. *)
Exit ==
    /\ closer = "stopped"
    /\ down' = "exited"
    /\ UNCHANGED <<session, active, operation, inflight, pc, gen, key, committed,
                   answer, locker, closer>>
-----------------------------------------------------------------------------
(* What a request's goroutine does of its own accord. *)
Handle(r) ==
    \/ Admit(r) \/ Shed(r) \/ Refuse(r) \/ ReadKey(r) \/ BeginRequest(r)
    \/ AcquireOperation(r) \/ CheckBefore(r) \/ Serve(r) \/ CheckAfter(r)
    \/ Respond(r) \/ ReleaseOperation(r) \/ EndRequest(r)

Running(r) == down = "no" /\ Handle(r) /\ UNCHANGED down
Locking == down = "no" /\ LockDrain /\ UNCHANGED down

Next ==
    /\ down = "no"
    /\ \/ \E r \in Requests : (Arrive(r) \/ Handle(r)) /\ UNCHANGED down
       \/ (LockBegin \/ LockDrain \/ CloseBegin) /\ UNCHANGED down
       \/ CloseDrain
       \/ Exit

Spec == Init /\ [][Next]_vars

(* Goroutines are scheduled; nobody has to send a request, and neither the *)
(* timer nor a signal has to come.                                         *)
Fairness == /\ \A r \in Requests : WF_vars(Running(r))
            /\ WF_vars(Locking)
-----------------------------------------------------------------------------
(* The shape of the session's state; a slot of the semaphore stands behind *)
(* every active request.                                                   *)
TypeOK ==
    /\ locked \in BOOLEAN /\ zeroed \in BOOLEAN
    /\ generation \in Nat /\ cancelled \subseteq Nat
    /\ active \in 0..MaxRequests
    /\ operation \in Requests \cup {None}
    /\ inflight \subseteq Requests
    /\ pc \in [Requests -> Positions]
    /\ gen \in [Requests -> Nat]
    /\ key \in [Requests -> {"none", "real", "zero"}]
    /\ committed \subseteq Rotations
    /\ answer \in [Requests -> Answers]
    /\ locker \in {"idle", "draining", "asleep", "returned"}
    /\ closer \in {"idle", "draining", "stopped"}
    /\ down \in {"no", "exited", "fatal"}

(* "A short bounded wait sheds excess same-user load instead of letting     *)
(* concurrent requests pin vault decryption memory": every request being   *)
(* served holds a slot of its own, and there are MaxRequests of them.      *)
LoadBounded == Served = inflight /\ Cardinality(inflight) <= MaxRequests

(* "Lock completion is a barrier: no request that began before the lock    *)
(* may still resolve a credential or rotate the vault after this returns": *)
(* once Lock has returned, no request is between beginRequest and          *)
(* endRequest, and none ever gets there again.                             *)
LockIsBarrier == locker = "returned" => Begun = {}

(* Close zeroes the session's key without marking it locked; a request     *)
(* that copies the key after that must never decrypt the vault with it.    *)
NeverServedWithZeroKey == \A r \in Requests : pc[r] = "checked" => key[r] = "real"

(* "invalidation happens before waiting": Lock, once called, returns.      *)
LockReturns == locker = "draining" ~> locker = "returned" \/ down # "no"

(* Every request is answered, whatever the number of requests, the state   *)
(* of the semaphore and the moment of Lock; only the end of the process    *)
(* cuts a request off.                                                     *)
EveryRequestAnswered ==
    \A r \in Requests : pc[r] = "arrived" ~> answer[r] # "none" \/ down # "no"
=============================================================================
