-------------------------- MODULE SimulatorUse_proofs ---------------------------
(***************************************************************************)
(* The event kernel under arbitrary use: for every set of EventImpl        *)
(* objects, every width of m_uid, every set of delays and every bound on   *)
(* time, until m_uid wraps.                                                *)
(*                                                                         *)
(* Every action is one kernel operation, whose effect on the kernel        *)
(* invariant is a lemma of MosaicSimulatorImpl_proofs; what is left is the *)
(* relation between the kernel and the EventIds its callers hold.          *)
(***************************************************************************)
EXTENDS SimulatorUse, MosaicSimulatorImpl_proofs

(***************************************************************************)
(* What every step guarantees, besides the invariant.                      *)
(***************************************************************************)
CurrentStays == UNCHANGED <<m_currentTs, m_currentUid>>

StaysCancelled ==
    \A id \in handles : id.impl \in cancelled => id.impl \in cancelled'

StaysDestroyed ==
    \A id \in handles : InDestroyList(id)' => InDestroyList(id)

StepOK ==
    /\ IInv'
    /\ InExecutionOrder \/ CurrentStays
    /\ StaysCancelled
    /\ StaysDestroyed

(***************************************************************************)
(* The three forms of Schedule.                                            *)
(***************************************************************************)
LEMMA InsertStep ==
    ASSUME IInv, NEW delay \in Nat, NEW impl \in Impl, Fresh(impl),
           Insert(delay, impl), m_uid <= m_uid',
           handles' \subseteq handles \cup {NewEvent(delay, impl)}, mode' = mode
    PROVE  StepOK
<1> DEFINE new == NewEvent(delay, impl)
<1>1. KernelInv'
  BY InsertKeeps DEF IInv
<1>2. /\ new \in EventId
      /\ new.uid = m_uid
      /\ new.impl = impl
      /\ LaterThanCurrent(new)
  BY NewEventProperties DEF IInv
<1>3. m_uid' = m_uid + 1 /\ m_uid \in Nat /\ FirstUid <= m_uid
  BY NoWrap DEF IInv, KernelInv, KernelTypeOK, Uid, Insert, UidsAllocated
<1>4. /\ m_events' = m_events \cup {new}
      /\ cancelled' = cancelled \ {impl}
      /\ CurrentStays
      /\ m_destroyEvents' = m_destroyEvents
      /\ handles' \subseteq handles \cup {new}
  BY DEF Insert, CurrentStays
<1> HIDE DEF new
<1>5. TypeOK'
  BY <1>1, <1>2, <1>4 DEF IInv, TypeOK, KernelInv
<1>6. HandlesAllocated'
  BY <1>2, <1>3, <1>4 DEF IInv, TypeOK, HandlesAllocated, EventId, Uid
<1>7. HandlesKnown'
  BY <1>2, <1>4
     DEF IInv, HandlesKnown, Fresh, LaterThanCurrent, CurrentStays
<1>8. StaysCancelled /\ StaysDestroyed
  BY <1>4 DEF StaysCancelled, StaysDestroyed, Fresh, InDestroyList
<1> QED BY <1>1, <1>4, <1>5, <1>6, <1>7, <1>8 DEF StepOK, IInv

LEMMA ScheduleAtDestroyStep ==
    ASSUME IInv, NEW impl \in Impl, ScheduleAtDestroy(impl), m_uid <= m_uid'
    PROVE  StepOK
<1> DEFINE new == NewDestroyEvent(impl)
<1>1. KernelInv'
  BY ScheduleDestroyKeeps DEF IInv, ScheduleAtDestroy
<1>2. new \in EventId /\ new.uid = DestroyUid /\ new.impl = impl
  BY UidModulusAssumption
     DEF NewDestroyEvent, EventId, Uid, DestroyUid, IInv, KernelInv, KernelTypeOK
<1>3. /\ Fresh(impl)
      /\ m_destroyEvents' = Append(m_destroyEvents, new)
      /\ cancelled' = cancelled \ {impl}
      /\ m_events' = m_events
      /\ CurrentStays
      /\ handles' = handles \cup {new}
      /\ mode' = mode
  BY DEF ScheduleAtDestroy, ScheduleDestroy, CurrentStays
<1>4. m_uid' = m_uid + 1 /\ m_uid \in Nat
  BY NoWrap DEF IInv, KernelInv, KernelTypeOK, Uid, ScheduleAtDestroy, ScheduleDestroy
<1> HIDE DEF new
<1>5. TypeOK'
  BY <1>1, <1>2, <1>3 DEF IInv, TypeOK, KernelInv
<1>6. HandlesAllocated'
  BY <1>2, <1>3, <1>4 DEF IInv, TypeOK, HandlesAllocated, EventId, Uid
<1>7. HandlesKnown'
  BY <1>2, <1>3 DEF IInv, HandlesKnown, Fresh, LaterThanCurrent, CurrentStays
<1>8. StaysCancelled
  BY <1>3 DEF StaysCancelled, Fresh
<1>9. StaysDestroyed
  <2>1. m_destroyEvents \in Seq(EventId)
    BY DEF IInv, KernelInv, KernelTypeOK
  <2>2. \A id : InDestroyList(id)' => InDestroyList(id) \/ id = new
    BY <1>2, <1>3, <2>1 DEF InDestroyList
  <2> QED BY <1>2, <1>3, <2>2 DEF StaysDestroyed, Fresh
<1> QED BY <1>1, <1>3, <1>5, <1>6, <1>7, <1>8, <1>9 DEF StepOK, IInv

(***************************************************************************)
(* RunOneEvent and the loop of Run().                                      *)
(***************************************************************************)
LEMMA ProcessStep ==
    ASSUME IInv, NEW e, ProcessOneEvent(e), handles' = handles, mode' = mode
    PROVE  StepOK
<1>1. KernelInv' /\ e \in m_events /\ LaterThanCurrent(e)
  BY ProcessKeeps DEF IInv
<1>2. /\ m_events' = m_events \ {e}
      /\ m_currentTs' = e.ts
      /\ m_currentUid' = e.uid
      /\ m_uid' = m_uid
      /\ UNCHANGED <<m_destroyEvents, cancelled>>
  BY DEF ProcessOneEvent
<1>3. e \in EventId
  BY <1>1 DEF IInv, KernelInv, KernelTypeOK
<1>4. InExecutionOrder
  BY <1>1, <1>2 DEF InExecutionOrder, LaterThanCurrent
<1>5. TypeOK' /\ HandlesAllocated'
  BY <1>1, <1>2 DEF IInv, TypeOK, KernelInv, HandlesAllocated
<1>6. HandlesKnown'
  <2> SUFFICES ASSUME NEW id \in handles, id.uid # DestroyUid,
                      id \notin m_events \ {e}, id.impl \notin cancelled
               PROVE  ~ LaterThanCurrent(id)'
    BY <1>2 DEF HandlesKnown
  <2>1. id \in EventId
    BY DEF IInv, TypeOK
  <2>2. CASE id = e
    BY <1>2, <1>3, <2>2 DEF LaterThanCurrent, EventId, Uid
  <2>3. CASE id # e
    <3>1. ~ LaterThanCurrent(id)
      BY <2>3 DEF IInv, HandlesKnown
    <3> QED
      BY <1>1, <1>2, <1>3, <2>1, <3>1
         DEF LaterThanCurrent, EventId, Uid, IInv, KernelInv, KernelTypeOK
  <2> QED BY <2>2, <2>3
<1>7. StaysCancelled /\ StaysDestroyed
  BY <1>2 DEF StaysCancelled, StaysDestroyed, InDestroyList
<1> QED BY <1>1, <1>4, <1>5, <1>6, <1>7 DEF StepOK, IInv

(***************************************************************************)
(* Remove and Cancel of an EventId its caller holds.  The test of          *)
(* IsExpired is what makes the removed event a pending one.                *)
(***************************************************************************)
LEMMA NotExpiredIsPending ==
    ASSUME IInv, NEW id \in handles, id.uid # DestroyUid, ~ IsExpired(id)
    PROVE  id \in m_events
<1>1. /\ id \in EventId
      /\ m_currentTs \in Nat
      /\ m_currentUid \in Nat
  BY DEF IInv, TypeOK, KernelInv, KernelTypeOK, Uid
<1>2. LaterThanCurrent(id) /\ id.impl \notin cancelled
  BY <1>1 DEF IsExpired, LaterThanCurrent, EventId, Uid
<1> QED BY <1>2 DEF IInv, HandlesKnown

LEMMA RemoveStep ==
    ASSUME IInv, NEW id \in handles, RemoveId(id)
    PROVE  StepOK
<1>1. handles' = handles /\ mode' = mode
  BY DEF RemoveId
<1>2. CASE RemoveDestroyEvent(id)
  <2>1. /\ KernelInv'
        /\ \A other : InDestroyList(other)' => InDestroyList(other)
    BY <1>2, RemoveDestroyKeeps DEF IInv
  <2>2. UNCHANGED <<m_events, m_currentTs, m_currentUid, m_uid, cancelled>>
    BY <1>2 DEF RemoveDestroyEvent
  <2>3. TypeOK' /\ HandlesAllocated' /\ HandlesKnown'
    BY <1>1, <2>1, <2>2
       DEF IInv, TypeOK, KernelInv, HandlesAllocated, HandlesKnown, LaterThanCurrent
  <2> QED
    BY <2>1, <2>2, <2>3
       DEF StepOK, IInv, CurrentStays, StaysCancelled, StaysDestroyed
<1>3. CASE RemovePendingEvent(id)
  <2>1. id \in m_events
    BY <1>3, NotExpiredIsPending DEF RemovePendingEvent
  <2>2. KernelInv'
    BY <1>3, <2>1, RemovePendingKeeps DEF IInv
  <2>3. /\ m_events' = m_events \ {id}
        /\ cancelled' = cancelled \cup {id.impl}
        /\ UNCHANGED <<m_currentTs, m_currentUid, m_uid, m_destroyEvents>>
    BY <1>3 DEF RemovePendingEvent
  <2>4. TypeOK' /\ HandlesAllocated' /\ HandlesKnown'
    BY <1>1, <2>2, <2>3
       DEF IInv, TypeOK, KernelInv, HandlesAllocated, HandlesKnown, LaterThanCurrent
  <2> QED
    BY <2>2, <2>3, <2>4
       DEF StepOK, IInv, CurrentStays, StaysCancelled, StaysDestroyed, InDestroyList
<1> QED BY <1>2, <1>3 DEF RemoveId, Remove

LEMMA CancelStep ==
    ASSUME IInv, NEW id \in handles, CancelId(id)
    PROVE  StepOK
<1>1. handles' = handles /\ mode' = mode /\ Cancel(id)
  BY DEF CancelId
<1>2. KernelInv'
  BY <1>1, CancelKeeps DEF IInv, TypeOK
<1>3. /\ cancelled' = cancelled \cup {id.impl}
      /\ UNCHANGED <<m_events, m_currentTs, m_currentUid, m_uid, m_destroyEvents>>
  BY <1>1 DEF Cancel
<1>4. TypeOK' /\ HandlesAllocated' /\ HandlesKnown'
  BY <1>1, <1>2, <1>3
     DEF IInv, TypeOK, KernelInv, HandlesAllocated, HandlesKnown, LaterThanCurrent
<1> QED
  BY <1>2, <1>3, <1>4
     DEF StepOK, IInv, CurrentStays, StaysCancelled, StaysDestroyed, InDestroyList

(***************************************************************************)
(* Steps that touch neither the scheduler, nor the clock, nor m_uid, nor   *)
(* the cancel flags, and hand out no EventId.                              *)
(***************************************************************************)
LEMMA FrameStep ==
    ASSUME IInv, KernelInv',
           UNCHANGED <<m_events, m_currentTs, m_currentUid, m_uid, cancelled>>,
           \A other : InDestroyList(other)' => InDestroyList(other),
           handles' \subseteq handles, mode' \in {"idle", "run", "destroy"}
    PROVE  StepOK
<1>1. TypeOK' /\ HandlesAllocated' /\ HandlesKnown'
  BY DEF IInv, TypeOK, KernelInv, HandlesAllocated, HandlesKnown, LaterThanCurrent
<1> QED
  BY <1>1 DEF StepOK, IInv, CurrentStays, StaysCancelled, StaysDestroyed

LEMMA NextStep ==
    ASSUME IInv, [Next /\ UidGrows]_vars
    PROVE  StepOK
<1>1. CASE UNCHANGED vars
  <2>1. UNCHANGED simVars /\ handles' = handles /\ mode' = mode
    BY <1>1 DEF vars
  <2>2. KernelInv'
    BY <2>1, KernelStutters DEF IInv
  <2> QED
    BY <2>1, <2>2, FrameStep DEF simVars, InDestroyList, IInv, TypeOK
<1> SUFFICES ASSUME Next, m_uid <= m_uid' PROVE StepOK
  BY <1>1 DEF UidGrows
<1>2. ASSUME NEW impl \in Impl, NEW delay \in Delays,
             Schedule(delay, impl) \/ ScheduleWithContext(delay, impl)
      PROVE  StepOK
  <2>1. delay \in Nat
    BY DelaysAssumption
  <2>2. /\ Fresh(impl) /\ Insert(delay, impl) /\ mode' = mode
        /\ handles' \subseteq handles \cup {NewEvent(delay, impl)}
    BY <1>2 DEF Schedule, ScheduleWithContext, MayInsert
  <2> QED BY <2>1, <2>2, InsertStep
<1>3. ASSUME NEW impl \in Impl, ScheduleNow(impl)
      PROVE  StepOK
  <2>1. /\ Fresh(impl) /\ Insert(0, impl) /\ mode' = mode
        /\ handles' \subseteq handles \cup {NewEvent(0, impl)}
    BY <1>3 DEF ScheduleNow, MayInsert
  <2> QED BY <2>1, InsertStep
<1>4. ASSUME NEW impl \in Impl, ScheduleAtDestroy(impl)
      PROVE  StepOK
  BY <1>4, ScheduleAtDestroyStep
<1>5. ASSUME NEW id \in handles, RemoveId(id) \/ CancelId(id)
      PROVE  StepOK
  BY <1>5, RemoveStep, CancelStep
<1>6. ASSUME NEW id \in handles, Drop(id)
      PROVE  StepOK
  <2>1. UNCHANGED simVars /\ handles' \subseteq handles /\ mode' = mode
    BY <1>6 DEF Drop
  <2>2. KernelInv'
    BY <2>1, KernelStutters DEF IInv
  <2> QED
    BY <2>1, <2>2, FrameStep DEF simVars, InDestroyList, IInv, TypeOK
<1>7. ASSUME Stop \/ Run
      PROVE  StepOK
  <2>1. KernelInv'
    BY <1>7, SetStopKeeps DEF Stop, Run, IInv
  <2> QED
    BY <1>7, <2>1, FrameStep
       DEF Stop, Run, SetStop, InDestroyList, IInv, TypeOK
<1>8. ASSUME NEW e \in m_events, RunOneEvent(e) \/ RunLoop(e)
      PROVE  StepOK
  BY <1>8, ProcessStep DEF RunOneEvent, RunLoop
<1>9. ASSUME RunReturns \/ Destroy \/ DestroyReturns
      PROVE  StepOK
  <2>1. /\ UNCHANGED simVars /\ handles' = handles
        /\ mode' \in {"idle", "run", "destroy"}
    BY <1>9 DEF RunReturns, Destroy, DestroyReturns
  <2>2. KernelInv'
    BY <2>1, KernelStutters DEF IInv
  <2> QED
    BY <2>1, <2>2, FrameStep DEF simVars, InDestroyList
<1>10. ASSUME DestroyLoop
       PROVE  StepOK
  <2>1. /\ KernelInv'
        /\ \A other : InDestroyList(other)' => InDestroyList(other)
    BY <1>10, DestroyNextKeeps DEF DestroyLoop, IInv
  <2> QED
    BY <1>10, <2>1, FrameStep DEF DestroyLoop, DestroyNext, IInv, TypeOK
<1> QED
  BY <1>2, <1>3, <1>4, <1>5, <1>6, <1>7, <1>8, <1>9, <1>10 DEF Next

LEMMA InitOK == Init => IInv
<1> SUFFICES ASSUME Init PROVE IInv
  OBVIOUS
<1>1. KernelInv /\ handles = {} /\ mode = "idle"
  BY KernelInit DEF Init
<1> QED
  BY <1>1 DEF IInv, TypeOK, KernelInv, HandlesAllocated, HandlesKnown

LEMMA Invariant == SpecBeforeWrap => []IInv
<1>1. IInv /\ [Next /\ UidGrows]_vars => IInv'
  BY NextStep DEF StepOK
<1> QED BY <1>1, InitOK, PTL DEF SpecBeforeWrap

-----------------------------------------------------------------------------
(* The kernel and its callers keep the type of their state. *)
THEOREM TypeCorrect == SpecBeforeWrap => []TypeOK
<1>1. IInv => TypeOK
  BY DEF IInv
<1> QED BY <1>1, Invariant, PTL

(* The assertion of ProcessOneEvent never fails: no pending event is       *)
(* before the event executed last.                                         *)
THEOREM NothingInThePast == SpecBeforeWrap => []PendingAreLater
<1>1. IInv => PendingAreLater
  BY DEF IInv, KernelInv
<1> QED BY <1>1, Invariant, PTL

(* m_unscheduledEvents is the number of pending events: the assertion Run  *)
(* ends with never fails.                                                  *)
THEOREM NoEventLost == SpecBeforeWrap => []CountExact
<1>1. IInv => CountExact
  BY DEF IInv, KernelInv
<1> QED BY <1>1, Invariant, PTL

(* Until m_uid wraps, no scheduled event has a reserved uid. *)
THEOREM UidsFromFour == SpecBeforeWrap => []ReservedUidsUnused
<1>1. IInv => ReservedUidsUnused
  BY DEF IInv, KernelInv
<1> QED BY <1>1, Invariant, PTL

(* IsExpired, which reads only the key and the cancel flag, says exactly   *)
(* whether the event will still be invoked.                                *)
THEOREM ExpiredIsExact == SpecBeforeWrap => []ExpiredExact
<1>1. IInv => ExpiredExact
  <2> SUFFICES ASSUME IInv, NEW id \in handles, id.uid # DestroyUid
               PROVE  IsExpired(id) <=> (id \notin m_events \/ id.impl \in cancelled)
    BY DEF ExpiredExact
  <2>1. ASSUME id \in m_events, id.impl \notin cancelled
        PROVE  ~ IsExpired(id)
    <3>1. LaterThanCurrent(id) /\ id \in EventId
      BY <2>1 DEF IInv, TypeOK, KernelInv, PendingAreLater
    <3> QED
      BY <2>1, <3>1 DEF IsExpired, LaterThanCurrent, EventId, Uid, IInv,
                        KernelInv, KernelTypeOK
  <2>2. ASSUME id.impl \in cancelled
        PROVE  IsExpired(id)
    BY <2>2 DEF IsExpired
  <2> QED BY <2>1, <2>2, NotExpiredIsPending
<1> QED BY <1>1, Invariant, PTL

(* Events are executed in strictly increasing (time, uid) order. *)
THEOREM ExecutedInOrder == SpecBeforeWrap => ExecutionOrder
<1>1. IInv /\ [Next /\ UidGrows]_vars
         => [InExecutionOrder]_<<m_currentTs, m_currentUid>>
  BY NextStep DEF StepOK, CurrentStays
<1> QED BY <1>1, Invariant, PTL DEF SpecBeforeWrap, ExecutionOrder

(* An EventId that has expired stays expired while its owner holds it. *)
THEOREM NoComeback == SpecBeforeWrap => ExpiredForGood
<1>1. IInv /\ [Next /\ UidGrows]_vars => [StaysExpired]_vars
  <2> SUFFICES ASSUME IInv, [Next /\ UidGrows]_vars,
                      NEW id \in handles, IsExpired(id)
               PROVE  IsExpired(id)'
    BY DEF StaysExpired
  <2>1. StepOK
    BY NextStep
  <2>2. /\ id \in EventId
        /\ m_currentTs \in Nat /\ m_currentTs' \in Nat
        /\ m_currentUid \in Nat /\ m_currentUid' \in Nat
    BY <2>1 DEF StepOK, IInv, TypeOK, KernelInv, KernelTypeOK, Uid
  <2>3. CASE id.impl \in cancelled
    BY <2>1, <2>3 DEF StepOK, StaysCancelled, IsExpired
  <2>4. CASE id.uid = DestroyUid /\ ~ InDestroyList(id)
    BY <2>1, <2>4 DEF StepOK, StaysDestroyed, IsExpired
  <2>5. CASE /\ id.uid # DestroyUid
             /\ \/ id.ts < m_currentTs
                \/ id.ts = m_currentTs /\ id.uid <= m_currentUid
    BY <2>1, <2>2, <2>5
       DEF StepOK, InExecutionOrder, CurrentStays, IsExpired, EventId, Uid
  <2> QED BY <2>3, <2>4, <2>5 DEF IsExpired
<1> QED BY <1>1, Invariant, PTL DEF SpecBeforeWrap, ExpiredForGood
===============================================================================
