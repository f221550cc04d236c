------------------------ MODULE BrokerSessionProofs ------------------------
(***************************************************************************)
(* Lock is a barrier, and no vault is opened with a zeroed key, for any    *)
(* number of requests and any capacity of the semaphore.                   *)
(*                                                                         *)
(* LockIsBarrier is not inductive: Lock decides by the counter.  So the    *)
(* invariant says that the counter counts (ActiveCounted), that a Lock     *)
(* under way has locked the session, and that nothing is active once it    *)
(* has returned (BarrierInv); KeyInv follows a zeroed key from the session *)
(* to the request that copied it.                                          *)
(***************************************************************************)
EXTENDS BrokerSessionFence, FiniteSetTheorems, TLAPS

ActiveCounted == active = Cardinality(Begun)

(* The part of TypeOK that does not count.                                 *)
Shape ==
    /\ locked \in BOOLEAN /\ zeroed \in BOOLEAN
    /\ generation \in Nat /\ cancelled \subseteq Nat
    /\ active \in Nat
    /\ operation \in Requests \cup {None}
    /\ inflight \subseteq Requests
    /\ pc \in [Requests -> Positions]
    /\ gen \in [Requests -> Nat]
    /\ key \in [Requests -> {"none", "real", "zero"}]
    /\ committed \subseteq Rotations
    /\ answer \in [Requests -> Answers]
    /\ locker \in {"idle", "draining", "asleep", "returned"}
    /\ closer \in {"idle", "draining", "stopped"}
    /\ down \in {"no", "exited", "fatal"}

CountInv == Shape /\ LoadBounded /\ ActiveCounted

BarrierInv ==
    /\ CountInv
    /\ locker # "idle" => locked
    /\ locker = "returned" => active = 0

KeyInv ==
    /\ Shape
    /\ zeroed => locked \/ generation \in cancelled
    /\ \A r \in Requests :
        /\ pc[r] = "keyed" /\ key[r] # "real" => zeroed
        /\ r \in Begun /\ key[r] # "real" => locked \/ gen[r] \in cancelled
        /\ pc[r] = "checked" => key[r] = "real"
-----------------------------------------------------------------------------
(* Every set of requests is finite.                                        *)
LEMMA Finite ==
    /\ IsFiniteSet(Begun) /\ Cardinality(Begun) \in Nat
    /\ \A S \in SUBSET Requests : IsFiniteSet(S) /\ Cardinality(S) \in Nat
<1>1. Begun \in SUBSET Requests
    BY DEF Begun
<1>2. \A S \in SUBSET Requests : IsFiniteSet(S)
    BY FS_Subset, FiniteAssumption
<1>3. \A S \in SUBSET Requests : Cardinality(S) \in Nat
    BY <1>2, FS_CardinalityType
<1> QED
    BY <1>1, <1>2, <1>3

(* An active request holds a slot, so there are no more than slots.        *)
LEMMA ActiveBounded ==
    ASSUME inflight \in SUBSET Requests, LoadBounded, ActiveCounted
    PROVE  active \in 0..MaxRequests
<1>1. Begun \in SUBSET inflight
    BY DEF LoadBounded, Begun, Served
<1>2. Cardinality(Begun) <= Cardinality(inflight)
    BY <1>1, Finite, FS_Subset
<1> QED
    BY <1>2, Finite, CapacityAssumption DEF LoadBounded, ActiveCounted

LEMMA ShapeStep ==
    ASSUME Shape, [Next]_vars
    PROVE  Shape'
<1> USE DEF Shape, Positions, Answers, Goto, Answer, LeaveSemaphore, session
<1>1. ASSUME NEW r \in Requests, Arrive(r), UNCHANGED down
      PROVE  Shape'
    BY <1>1 DEF Arrive
<1>2. ASSUME NEW r \in Requests, Admit(r), UNCHANGED down
      PROVE  Shape'
    BY <1>2 DEF Admit
<1>3. ASSUME NEW r \in Requests, Shed(r), UNCHANGED down
      PROVE  Shape'
    BY <1>3 DEF Shed
<1>4. ASSUME NEW r \in Requests, Refuse(r), UNCHANGED down
      PROVE  Shape'
    BY <1>4 DEF Refuse
<1>5. ASSUME NEW r \in Requests, ReadKey(r), UNCHANGED down
      PROVE  Shape'
    BY <1>5 DEF ReadKey
<1>6. ASSUME NEW r \in Requests, BeginRequest(r), UNCHANGED down
      PROVE  Shape'
    BY <1>6 DEF BeginRequest
<1>7. ASSUME NEW r \in Requests, AcquireOperation(r), UNCHANGED down
      PROVE  Shape'
    BY <1>7 DEF AcquireOperation
<1>8. ASSUME NEW r \in Requests, CheckBefore(r), UNCHANGED down
      PROVE  Shape'
    BY <1>8 DEF CheckBefore
<1>9. ASSUME NEW r \in Requests, Serve(r), UNCHANGED down
      PROVE  Shape'
    BY <1>9 DEF Serve
<1>10. ASSUME NEW r \in Requests, CheckAfter(r), UNCHANGED down
      PROVE  Shape'
    BY <1>10 DEF CheckAfter
<1>11. ASSUME NEW r \in Requests, Respond(r), UNCHANGED down
      PROVE  Shape'
    BY <1>11 DEF Respond
<1>12. ASSUME NEW r \in Requests, ReleaseOperation(r), UNCHANGED down
      PROVE  Shape'
    BY <1>12 DEF ReleaseOperation
<1>13. ASSUME NEW r \in Requests, EndRequest(r), UNCHANGED down
      PROVE  Shape'
    BY <1>13 DEF EndRequest, OneLess
<1>14. CASE LockBegin /\ UNCHANGED down
    BY <1>14 DEF LockBegin
<1>15. CASE LockDrain /\ UNCHANGED down
    BY <1>15 DEF LockDrain
<1>16. CASE CloseBegin /\ UNCHANGED down
    BY <1>16 DEF CloseBegin
<1>17. CASE CloseDrain
    BY <1>17 DEF CloseDrain
<1>18. CASE Exit
    BY <1>18 DEF Exit
<1>19. CASE UNCHANGED vars
    BY <1>19 DEF vars
<1> QED
    BY <1>1, <1>2, <1>3, <1>4, <1>5, <1>6, <1>7, <1>8, <1>9, <1>10, <1>11, <1>12, <1>13, <1>14, <1>15, <1>16, <1>17, <1>18, <1>19 DEF Next, Handle

(* beginRequest and endRequest keep the counter equal to the number of     *)
(* requests between them, and the semaphore is held from Admit to the end. *)
LEMMA CountStep ==
    ASSUME Shape, Shape', LoadBounded, ActiveCounted, [Next]_vars
    PROVE  LoadBounded' /\ ActiveCounted'
<1> DEFINE Quiet == UNCHANGED <<inflight, active>> /\ Served' = Served /\ Begun' = Begun
<1> DEFINE Left(r) == /\ inflight' = inflight \ {r} /\ Served' = Served \ {r}
                      /\ active' = active /\ Begun' = Begun
<1>1. Quiet => LoadBounded' /\ ActiveCounted'
    BY DEF LoadBounded, ActiveCounted
<1>2. ASSUME NEW r \in Requests, Left(r)
      PROVE  LoadBounded' /\ ActiveCounted'
    <2>1. IsFiniteSet(inflight) /\ Cardinality(inflight) \in Nat
        BY Finite DEF Shape
    <2>2. Cardinality(inflight \ {r}) <= Cardinality(inflight)
        BY <2>1, FS_RemoveElement
    <2>3. Cardinality(inflight \ {r}) \in Nat
        BY Finite DEF Shape
    <2> QED
        BY <1>2, <2>1, <2>2, <2>3, CapacityAssumption DEF LoadBounded, ActiveCounted
<1>3. ASSUME NEW r \in Requests,
             Arrive(r) \/ Shed(r) \/ AcquireOperation(r) \/ CheckBefore(r) \/ Serve(r)
             \/ CheckAfter(r) \/ Respond(r) \/ ReleaseOperation(r)
      PROVE  Quiet
    <2> USE DEF Shape, Goto, Served, Begun
    <2>1. CASE Arrive(r)
        BY <2>1 DEF Arrive
    <2>2. CASE Shed(r)
        BY <2>2 DEF Shed
    <2>3. CASE AcquireOperation(r)
        BY <2>3 DEF AcquireOperation
    <2>4. CASE CheckBefore(r)
        BY <2>4 DEF CheckBefore
    <2>5. CASE Serve(r)
        BY <2>5 DEF Serve
    <2>6. CASE CheckAfter(r)
        BY <2>6 DEF CheckAfter
    <2>7. CASE Respond(r)
        BY <2>7 DEF Respond
    <2>8. CASE ReleaseOperation(r)
        BY <2>8 DEF ReleaseOperation
    <2> QED
        BY <1>3, <2>1, <2>2, <2>3, <2>4, <2>5, <2>6, <2>7, <2>8
<1>4. ASSUME NEW r \in Requests, Admit(r)
      PROVE  LoadBounded' /\ ActiveCounted'
    <2>1. Served' = Served \cup {r} /\ Begun' = Begun /\ r \notin Served
        BY <1>4 DEF Admit, Shape, Goto, Served, Begun
    <2>2. IsFiniteSet(inflight) /\ Cardinality(inflight) \in Nat
        BY Finite DEF Shape
    <2>3. Cardinality(inflight \cup {r}) = Cardinality(inflight) + 1
        BY <2>1, <2>2, FS_AddElement DEF LoadBounded
    <2>4. LoadBounded'
        BY <1>4, <2>1, <2>2, <2>3, CapacityAssumption DEF Admit, LoadBounded
    <2> QED
        BY <1>4, <2>1, <2>4 DEF Admit, ActiveCounted
<1>5. ASSUME NEW r \in Requests, Refuse(r)
      PROVE  Left(r)
    BY <1>5 DEF Refuse, Shape, Goto, LeaveSemaphore, Served, Begun
<1>6. ASSUME NEW r \in Requests, ReadKey(r)
      PROVE  Quiet \/ Left(r)
    BY <1>6 DEF ReadKey, Shape, Goto, LeaveSemaphore, Served, Begun
<1>7. ASSUME NEW r \in Requests, BeginRequest(r)
      PROVE  LoadBounded' /\ ActiveCounted'
    <2>1. CASE locked
        <3>1. Left(r)
            BY <1>7, <2>1 DEF BeginRequest, Shape, Goto, LeaveSemaphore, Served, Begun
        <3> QED
            BY <3>1, <1>2
    <2>2. CASE ~locked
        <3>1. /\ Served' = Served /\ inflight' = inflight /\ active' = active + 1
              /\ Begun' = Begun \cup {r} /\ r \notin Begun
            BY <1>7, <2>2 DEF BeginRequest, Shape, Goto, Served, Begun
        <3>2. Cardinality(Begun \cup {r}) = Cardinality(Begun) + 1
            BY <3>1, Finite, FS_AddElement
        <3> QED
            BY <3>1, <3>2 DEF LoadBounded, ActiveCounted
    <2> QED
        BY <2>1, <2>2
<1>8. ASSUME NEW r \in Requests, EndRequest(r)
      PROVE  LoadBounded' /\ ActiveCounted'
    <2>1. /\ Served' = Served \ {r} /\ inflight' = inflight \ {r}
          /\ Begun' = Begun \ {r} /\ r \in Begun
        BY <1>8 DEF EndRequest, Shape, Goto, LeaveSemaphore, Served, Begun
    <2>2. IsFiniteSet(Begun) /\ Cardinality(Begun) \in Nat
        BY Finite
    <2>3. Cardinality(Begun \ {r}) = Cardinality(Begun) - 1
        BY <2>1, <2>2, FS_RemoveElement
    <2>4. Cardinality(Begun) # 0
        BY <2>1, <2>2, FS_EmptySet
    <2>5. ActiveCounted'
        BY <1>8, <2>1, <2>2, <2>3, <2>4 DEF EndRequest, OneLess, ActiveCounted
    <2>6. IsFiniteSet(inflight) /\ Cardinality(inflight) \in Nat
          /\ Cardinality(inflight \ {r}) \in Nat
        BY Finite DEF Shape
    <2>7. Cardinality(inflight \ {r}) <= Cardinality(inflight)
        BY <2>6, FS_RemoveElement
    <2>8. LoadBounded'
        BY <2>1, <2>6, <2>7, CapacityAssumption DEF LoadBounded
    <2> QED
        BY <2>5, <2>8
<1>9. CASE LockBegin \/ LockDrain \/ CloseBegin \/ CloseDrain \/ Exit \/ UNCHANGED vars
    <2>1. UNCHANGED <<pc, inflight, active>>
        BY <1>9 DEF LockBegin, LockDrain, CloseBegin, CloseDrain, Exit, vars
    <2> QED
        BY <2>1, <1>1 DEF Served, Begun
<1> QED
    BY <1>1, <1>2, <1>3, <1>4, <1>5, <1>6, <1>7, <1>8, <1>9 DEF Next, Handle
-----------------------------------------------------------------------------
(* The counting invariant holds of every behaviour.                        *)
LEMMA CountInit ==
    ASSUME Init
    PROVE  CountInv
<1>1. Shape
    BY DEF Init, Shape, Positions, Answers
<1>2. Served = {} /\ Begun = {}
    BY DEF Init, Served, Begun
<1> QED
    BY <1>1, <1>2, FS_EmptySet, CapacityAssumption
    DEF Init, CountInv, LoadBounded, ActiveCounted

LEMMA CountInvariant == Spec => []CountInv
<1>1. CountInv /\ [Next]_vars => CountInv'
    BY ShapeStep, CountStep DEF CountInv
<1> QED
    BY <1>1, CountInit, PTL DEF Spec

(* Whatever the requests, the session keeps its shape: in particular, no   *)
(* more requests are active than the semaphore has slots.                  *)
THEOREM SessionTypeCorrect == Spec => []TypeOK
<1>1. CountInv => TypeOK
    BY ActiveBounded DEF CountInv, Shape, TypeOK
<1> QED
    BY <1>1, CountInvariant, PTL

(* Load is shed: every request being served holds a slot.                  *)
THEOREM LoadAlwaysBounded == Spec => []LoadBounded
<1>1. CountInv => LoadBounded
    BY DEF CountInv
<1> QED
    BY <1>1, CountInvariant, PTL
-----------------------------------------------------------------------------
(* Once Lock has seen no active request, locked keeps every other request  *)
(* out of beginRequest.                                                    *)
LEMMA BarrierStep ==
    ASSUME BarrierInv, CountInv', [Next]_vars
    PROVE  BarrierInv'
<1> USE DEF BarrierInv, CountInv, Shape
<1>1. ASSUME NEW r \in Requests, BeginRequest(r)
      PROVE  BarrierInv'
    BY <1>1 DEF BeginRequest, session
<1>2. ASSUME NEW r \in Requests, EndRequest(r)
      PROVE  BarrierInv'
    BY <1>2 DEF EndRequest, OneLess, session
<1>3. ASSUME NEW r \in Requests, Handle(r) \/ Arrive(r), ~BeginRequest(r), ~EndRequest(r)
      PROVE  BarrierInv'
    <2>1. UNCHANGED <<locked, locker, active>>
        BY <1>3 DEF Handle, Arrive, Admit, Shed, Refuse, ReadKey, AcquireOperation,
                    CheckBefore, Serve, CheckAfter, Respond, ReleaseOperation, session
    <2> QED
        BY <2>1
<1>4. CASE LockBegin
    BY <1>4 DEF LockBegin
<1>5. CASE LockDrain
    BY <1>5 DEF LockDrain, session
<1>6. CASE CloseBegin \/ CloseDrain \/ Exit \/ UNCHANGED vars
    <2>1. UNCHANGED <<locked, locker, active>>
        BY <1>6 DEF CloseBegin, CloseDrain, Exit, vars, session
    <2> QED
        BY <2>1
<1> QED
    BY <1>1, <1>2, <1>3, <1>4, <1>5, <1>6 DEF Next

(* Lock is a barrier: when it has returned, no request that passed         *)
(* beginRequest is still at work, and none ever will be.                   *)
THEOREM LockIsAlwaysBarrier == Spec => []LockIsBarrier
<1>1. Init => BarrierInv
    BY CountInit DEF Init, BarrierInv
<1>2. BarrierInv /\ CountInv' /\ [Next]_vars => BarrierInv'
    BY BarrierStep
<1>3. BarrierInv => LockIsBarrier
    BY Finite, FS_EmptySet DEF BarrierInv, CountInv, ActiveCounted, LockIsBarrier
<1> QED
    BY <1>1, <1>2, <1>3, CountInvariant, PTL DEF Spec
-----------------------------------------------------------------------------
(* A zeroed key is copied only from an invalidated session, and the fence  *)
(* of that generation stops the request that copied it.                    *)
LEMMA KeyStep ==
    ASSUME KeyInv, Shape', [Next]_vars
    PROVE  KeyInv'
<1> USE DEF KeyInv, Shape, Begun, Goto
<1>1. ASSUME NEW r \in Requests, ReadKey(r)
      PROVE  KeyInv'
    BY <1>1 DEF ReadKey, session
<1>2. ASSUME NEW r \in Requests, BeginRequest(r)
      PROVE  KeyInv'
    BY <1>2 DEF BeginRequest, session
<1>3. ASSUME NEW r \in Requests, CheckBefore(r)
      PROVE  KeyInv'
    BY <1>3 DEF CheckBefore, RequestValid, session
<1>4. ASSUME NEW r \in Requests, Arrive(r) \/ Admit(r) \/ Shed(r) \/ Refuse(r)
      PROVE  KeyInv'
    BY <1>4 DEF Arrive, Admit, Shed, Refuse, session
<1>5. ASSUME NEW r \in Requests, AcquireOperation(r) \/ Serve(r) \/ CheckAfter(r)
      PROVE  KeyInv'
    BY <1>5 DEF AcquireOperation, Serve, CheckAfter, session
<1>6. ASSUME NEW r \in Requests, Respond(r) \/ ReleaseOperation(r) \/ EndRequest(r)
      PROVE  KeyInv'
    BY <1>6 DEF Respond, ReleaseOperation, EndRequest, session
<1>7. CASE LockBegin
    BY <1>7 DEF LockBegin
<1>8. CASE CloseBegin
    BY <1>8 DEF CloseBegin
<1>9. CASE LockDrain \/ CloseDrain \/ Exit \/ UNCHANGED vars
    BY <1>9 DEF LockDrain, CloseDrain, Exit, vars, session
<1> QED
    BY <1>1, <1>2, <1>3, <1>4, <1>5, <1>6, <1>7, <1>8, <1>9 DEF Next, Handle

(* Close zeroes the key of a session it does not mark as locked; even so,  *)
(* no request reaches the vault with a zeroed key.                         *)
THEOREM ZeroKeyNeverServes == Spec => []NeverServedWithZeroKey
<1>1. Init => KeyInv
    BY CountInit DEF Init, CountInv, KeyInv, Begun
<1>2. KeyInv /\ CountInv' /\ [Next]_vars => KeyInv'
    BY KeyStep DEF CountInv
<1>3. KeyInv => NeverServedWithZeroKey
    BY DEF KeyInv, NeverServedWithZeroKey
<1> QED
    BY <1>1, <1>2, <1>3, CountInvariant, PTL DEF Spec
-----------------------------------------------------------------------------
(* Until the session is invalidated every request has the generation of    *)
(* the session; afterwards every request at work has a cancelled one, or   *)
(* the session is locked.                                                  *)
FenceInv ==
    /\ Shape
    /\ locked => cancelled # {}
    /\ cancelled # {} => locked \/ generation \in cancelled
    /\ cancelled = {} => \A r \in Begun : gen[r] = generation
    /\ cancelled # {} => \A r \in Begun : gen[r] \in cancelled

(* What is still to come: a request past its second check will release,    *)
(* one past the first may commit.                                          *)
HistoryInv ==
    cancelled # {} =>
        /\ Released \cup At("releasing") \subseteq mayRelease
        /\ committed \cup At("checked") \subseteq mayCommit

LEMMA FenceStep ==
    ASSUME FenceInv, Shape', [Next]_vars
    PROVE  FenceInv'
<1> USE DEF FenceInv, Shape, Begun, Goto
<1>1. ASSUME NEW r \in Requests, BeginRequest(r)
      PROVE  FenceInv'
    BY <1>1 DEF BeginRequest, session
<1>2. ASSUME NEW r \in Requests, Handle(r) \/ Arrive(r), ~BeginRequest(r)
      PROVE  FenceInv'
    <2>1. UNCHANGED <<locked, cancelled, generation, gen>> /\ Begun' \subseteq Begun
        BY <1>2 DEF Handle, Arrive, Admit, Shed, Refuse, ReadKey, AcquireOperation,
                    CheckBefore, Serve, CheckAfter, Respond, ReleaseOperation,
                    EndRequest, session
    <2> QED
        BY <2>1
<1>3. CASE LockBegin
    BY <1>3 DEF LockBegin
<1>4. CASE CloseBegin
    BY <1>4 DEF CloseBegin
<1>5. CASE LockDrain \/ CloseDrain \/ Exit \/ UNCHANGED vars
    BY <1>5 DEF LockDrain, CloseDrain, Exit, vars, session
<1> QED
    BY <1>1, <1>2, <1>3, <1>4, <1>5 DEF Next

LEMMA HistoryStep ==
    ASSUME FenceInv, HistoryInv, Shape', [FenceNext]_<<vars, mayRelease, mayCommit>>
    PROVE  HistoryInv'
<1> USE DEF HistoryInv, Released, At
<1>1. CASE UNCHANGED <<vars, mayRelease, mayCommit>>
    BY <1>1 DEF vars, session
<1>2. CASE FenceNext /\ cancelled' = {}
    BY <1>2
<1>3. CASE FenceNext /\ cancelled = {} /\ cancelled' # {}
    <2>1. LockBegin \/ CloseBegin
        BY <1>3 DEF FenceNext, Next, Handle, Arrive, Admit, Shed, Refuse, ReadKey,
                    BeginRequest, AcquireOperation, CheckBefore, Serve, CheckAfter,
                    Respond, ReleaseOperation, EndRequest, LockDrain, CloseDrain,
                    Exit, session
    <2>2. UNCHANGED <<pc, answer, committed>>
        BY <2>1 DEF LockBegin, CloseBegin
    <2>3. /\ mayRelease' = Released \cup At("releasing")
          /\ mayCommit' = committed \cup At("checked")
        BY <1>3 DEF FenceNext
    <2> QED
        BY <2>2, <2>3
<1>4. CASE FenceNext /\ cancelled # {} /\ cancelled' # {}
    <2>1. UNCHANGED <<mayRelease, mayCommit>> /\ Next
        BY <1>4 DEF FenceNext
    <2>2. ASSUME NEW r \in Requests, Handle(r) \/ Arrive(r)
          PROVE  HistoryInv'
        <3> USE DEF Shape, Goto, Answer
        <3>1. r \in Begun => ~RequestValid(r)
            BY <1>4 DEF FenceInv, RequestValid
        <3>2. CASE CheckBefore(r) \/ CheckAfter(r)
            <4>1. /\ At("checked")' \subseteq At("checked")
                  /\ At("releasing")' \subseteq At("releasing")
                  /\ Released' \subseteq Released /\ committed' = committed
                <5>1. CASE CheckBefore(r)
                    BY <3>1, <5>1 DEF CheckBefore, Begun
                <5>2. CASE CheckAfter(r)
                    BY <3>1, <5>2 DEF CheckAfter, Begun
                <5> QED
                    BY <3>2, <5>1, <5>2
            <4> QED
                BY <1>4, <2>1, <4>1
        <3>3. CASE Serve(r)
            BY <1>4, <2>1, <3>3 DEF Serve
        <3>4. CASE Respond(r)
            BY <1>4, <2>1, <3>4 DEF Respond
        <3>5. CASE Arrive(r) \/ Admit(r) \/ Shed(r) \/ Refuse(r) \/ ReadKey(r)
            <4>1. /\ At("checked")' \subseteq At("checked")
                  /\ At("releasing")' \subseteq At("releasing")
                  /\ Released' \subseteq Released /\ committed' = committed
                BY <3>5 DEF Arrive, Admit, Shed, Refuse, ReadKey
            <4> QED
                BY <1>4, <2>1, <4>1
        <3>6. CASE BeginRequest(r) \/ AcquireOperation(r) \/ ReleaseOperation(r)
                   \/ EndRequest(r)
            <4>1. /\ At("checked")' \subseteq At("checked")
                  /\ At("releasing")' \subseteq At("releasing")
                  /\ Released' \subseteq Released /\ committed' = committed
                BY <3>6 DEF BeginRequest, AcquireOperation, ReleaseOperation, EndRequest
            <4> QED
                BY <1>4, <2>1, <4>1
        <3> QED
            BY <2>2, <3>2, <3>3, <3>4, <3>5, <3>6 DEF Handle
    <2>3. CASE LockBegin \/ LockDrain \/ CloseBegin \/ CloseDrain \/ Exit
        <3>1. UNCHANGED <<pc, answer, committed>>
            BY <2>3 DEF LockBegin, LockDrain, CloseBegin, CloseDrain, Exit
        <3> QED
            BY <1>4, <2>1, <3>1
    <2> QED
        BY <2>1, <2>2, <2>3 DEF Next
<1> QED
    BY <1>1, <1>2, <1>3, <1>4

(* The generation fence: after Lock or Close was called, nothing is        *)
(* released or committed but by a request that had already passed.         *)
THEOREM FenceAlwaysHonoured == FenceSpec => []FenceHonoured
<1> DEFINE Inv == CountInv /\ FenceInv /\ HistoryInv
<1>1. FenceInit => Inv
    BY CountInit DEF FenceInit, Init, FenceInv, CountInv, HistoryInv, Begun
<1>2. Inv /\ [FenceNext]_<<vars, mayRelease, mayCommit>> => Inv'
    <2> SUFFICES ASSUME Inv, [FenceNext]_<<vars, mayRelease, mayCommit>>
                 PROVE  Inv'
        OBVIOUS
    <2>1. [Next]_vars
        BY DEF FenceNext
    <2>2. CountInv'
        BY <2>1, ShapeStep, CountStep DEF CountInv
    <2> QED
        BY <2>1, <2>2, FenceStep, HistoryStep DEF CountInv
<1>3. Inv => FenceHonoured
    BY DEF HistoryInv, FenceHonoured
<1> QED
    BY <1>1, <1>2, <1>3, PTL DEF FenceSpec
=============================================================================
